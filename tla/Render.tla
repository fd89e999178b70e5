------------------------------- MODULE Render -------------------------------
(***************************************************************************)
(* The reducer behind every transcript (internal/render): Compute folds    *)
(* the events of a session into display rows and the activity of its tail. *)
(* A step is one turn of its loop, on whatever event comes next; what      *)
(* Compute would return if the events ended there is RenderState.          *)
(***************************************************************************)
EXTENDS Ledger, SequencesExt

CONSTANTS
  ToolIds,    \* ids a provider gives to tool calls
  NoId,       \* a call, or a result, without one
  RunStates,  \* states a run_finished may carry
  NoState,    \* a run_finished without one
  MaxEvents   \* bound: events of the session

ASSUME RenderAssumption ==
  NoId \notin ToolIds /\ NoState \notin RunStates /\ MaxEvents \in Nat

VARIABLES
  events,        \* the events folded so far
  rows,
  toolRow,       \* call id -> index in rows, 0 if there is none
  openTools,     \* rows of calls since the last boundary
  runActive,
  lastRunState

loop == <<rows, toolRow, openTools, runActive, lastRunState>>
vars == <<events, loop>>

Texts == {"user_message", "assistant_message", "error"}
RenderEvents ==
  [type : Texts \cup {"run_started"}, id : {NoId}, state : {NoState}]
  \cup [type : {"tool_call", "tool_result"}, id : ToolIds \cup {NoId}, state : {NoState}]
  \cup [type : {"run_finished"}, id : {NoId}, state : RunStates \cup {NoState}]

----------------------------------------------------------------------------
(* Compute *)

Init ==
  /\ events = <<>> /\ rows = <<>>
  /\ toolRow = [x \in ToolIds |-> 0] /\ openTools = {}
  /\ runActive = FALSE /\ lastRunState = NoState

\* A tool's row is known by the id of its call, every other by its seq.
Row(kind, status, call) ==
  [kind |-> kind, seq |-> Len(events) + 1, status |-> status, call |-> call]
Closed(row) == [row EXCEPT !.status = "incomplete"]

\* flushOpenTools on the rows; mutant: closes what has a result, too.
FlushedAll ==
  [i \in DOMAIN rows |-> IF i \in openTools THEN Closed(rows[i]) ELSE rows[i]]
Flushed ==
  [i \in DOMAIN rows |->
     IF i \in openTools /\ rows[i].status = "running" THEN Closed(rows[i]) ELSE rows[i]]

Consume(e) == Len(events) < MaxEvents /\ events' = Append(events, e)

TakeText(e) ==
  /\ e.type \in Texts /\ Consume(e)
  /\ rows' = Append(rows, Row(e.type, "none", NoId))
  /\ UNCHANGED <<toolRow, openTools, runActive, lastRunState>>

TakeToolCall(e) ==
  /\ e.type = "tool_call" /\ Consume(e)
  /\ rows' = Append(rows, Row("tool", "running", e.id))
  /\ openTools' = openTools \cup {Len(rows) + 1}
  /\ toolRow' = IF e.id = NoId THEN toolRow ELSE [toolRow EXCEPT ![e.id] = Len(rows) + 1]
  /\ UNCHANGED <<runActive, lastRunState>>

\* Whichever run it comes from, and whatever became of its row since.
TakeToolResult(e) ==
  /\ e.type = "tool_result" /\ Consume(e)
  /\ rows' = IF e.id = NoId \/ toolRow[e.id] = 0 THEN rows
             ELSE [rows EXCEPT ![toolRow[e.id]].status = "done"]
  /\ UNCHANGED <<toolRow, openTools, runActive, lastRunState>>

\* Mutant: what a run left open stays open in the next.
TakeRunStartedKeeps(e) ==
  /\ e.type = "run_started" /\ Consume(e)
  /\ runActive' = TRUE
  /\ UNCHANGED <<rows, toolRow, openTools, lastRunState>>

TakeRunStarted(e) ==
  /\ e.type = "run_started" /\ Consume(e)
  /\ rows' = Flushed /\ openTools' = {} /\ runActive' = TRUE
  /\ UNCHANGED <<toolRow, lastRunState>>

\* Mutant: a run_finished without a state is no boundary.
TakeRunFinishedNamed(e) ==
  /\ e.type = "run_finished" /\ Consume(e)
  /\ IF e.state = NoState THEN UNCHANGED loop
     ELSE /\ rows' = Flushed /\ openTools' = {} /\ runActive' = FALSE
          /\ lastRunState' = e.state
          /\ UNCHANGED toolRow

TakeRunFinished(e) ==
  /\ e.type = "run_finished" /\ Consume(e)
  /\ rows' = Flushed /\ openTools' = {} /\ runActive' = FALSE
  /\ lastRunState' = IF e.state = NoState THEN lastRunState ELSE e.state
  /\ UNCHANGED toolRow

Next ==
  \E e \in RenderEvents :
    \/ TakeText(e) \/ TakeToolCall(e) \/ TakeToolResult(e)
    \/ TakeRunStarted(e) \/ TakeRunFinished(e)

Spec == Init /\ [][Next]_vars

\* What Compute returns: after the loop, an idle tail has no running tool.
RenderState ==
  [rows |-> IF runActive THEN rows ELSE Flushed,
   tailActivity |-> IF runActive THEN "running" ELSE "idle",
   lastRunState |-> lastRunState]

----------------------------------------------------------------------------
(* What the rows mean, in terms of the events alone *)

Shown == {i \in DOMAIN events : events[i].type \in Texts \cup {"tool_call"}}
RunIsLive(l) == \E i \in DOMAIN l : DanglingAt(l, i)

\* Result j answers call i: the last call of its id.
Answers(j, i) ==
  /\ events[j].type = "tool_result" /\ events[j].id # NoId
  /\ i < j /\ events[i].type = "tool_call" /\ events[i].id = events[j].id
  /\ \A k \in DOMAIN events :
       (i < k /\ k < j) => ~(events[k].type = "tool_call" /\ events[k].id = events[j].id)

StatusOf(i) ==
  IF events[i].type # "tool_call" THEN "none"
  ELSE IF \E j \in DOMAIN events : Answers(j, i) THEN "done"
  ELSE IF /\ RunIsLive(events)
          /\ \A k \in DOMAIN events : k > i => events[k].type \notin Boundary
       THEN "running" ELSE "incomplete"

----------------------------------------------------------------------------
RowSet == [kind : Texts \cup {"tool"}, seq : Nat,
         status : {"none", "running", "done", "incomplete"}, call : ToolIds \cup {NoId}]

\* Types; a row the loop refers to by index is a tool's row that exists.
TypeOK ==
  /\ events \in Seq(RenderEvents) /\ rows \in Seq(RowSet)
  /\ toolRow \in [ToolIds -> Nat] /\ openTools \subseteq DOMAIN rows
  /\ runActive \in BOOLEAN /\ lastRunState \in RunStates \cup {NoState}
  /\ \A x \in ToolIds : toolRow[x] # 0 => toolRow[x] \in DOMAIN rows
  /\ \A k \in openTools \cup ({toolRow[x] : x \in ToolIds} \ {0}) : rows[k].kind = "tool"

\* A session is shown as running exactly when its ledger dangles: the reducer agrees
\* with the query DanglingRun by which the service decides what to finalize
\* (service.go:312-317), so the stop button settles whatever is shown as running.
TailAgreesWithDanglingRun == (RenderState.tailActivity = "running") <=> RunIsLive(events)

\* Every call, message and error has one row, in the order of the ledger, and the row
\* of a call says what became of it: done once a result answered it, even a late one;
\* running only while its run is; else incomplete (render.go:76-81).
RowsMeanEvents ==
  LET shown == RenderState.rows
  IN  /\ {shown[k].seq : k \in DOMAIN shown} = Shown
      /\ \A k, m \in DOMAIN shown : k < m => shown[k].seq < shown[m].seq
      /\ \A k \in DOMAIN shown : shown[k].status = StatusOf(shown[k].seq)

\* A row on the screen stays where it is, and a tool that stopped spinning does not
\* spin again: every client replaces one snapshot by the next without looking.
RowsOnlySettle ==
  [][LET old == RenderState.rows
         new == RenderState'.rows
     IN  \A k \in DOMAIN old :
           /\ k \in DOMAIN new /\ new[k].seq = old[k].seq
           /\ (new[k].status = "running") => (old[k].status = "running")
           /\ (old[k].status = "done") => (new[k].status = "done")]_vars
=============================================================================
