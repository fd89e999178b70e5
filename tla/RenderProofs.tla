---------------------------- MODULE RenderProofs ----------------------------
(***************************************************************************)
(* Theorems about the reducer, for every sequence of events and every set  *)
(* of tool ids: its activity is the one DanglingRun finds, its rows only   *)
(* settle, each says what the events say of it, and the feed over them     *)
(* marks each settled exchange once.                                       *)
(***************************************************************************)
EXTENDS Conversation, SequenceTheorems, WellFoundedInduction, TLAPS

\* Appending keeps the older positions and adds one.
LEMMA Positions ==
  ASSUME NEW S, NEW l \in Seq(S), NEW e \in S
  PROVE  LET m == Append(l, e)
         IN  /\ m \in Seq(S)
             /\ Len(l) \in Nat
             /\ Len(m) = Len(l) + 1
             /\ DOMAIN l = 1..Len(l)
             /\ DOMAIN m = DOMAIN l \cup {Len(l) + 1}
             /\ m[Len(l) + 1] = e
             /\ \A i \in DOMAIN l : m[i] = l[i]
  OBVIOUS

\* Closing the open rows changes statuses only.
LEMMA FlushFacts ==
  ASSUME TypeOK
  PROVE  /\ Flushed \in Seq(RowSet) /\ DOMAIN Flushed = DOMAIN rows
         /\ \A k \in DOMAIN rows :
              /\ Flushed[k].kind = rows[k].kind /\ Flushed[k].seq = rows[k].seq
              /\ Flushed[k].status \in {rows[k].status, "incomplete"}
              /\ Flushed[k].status = "running" => rows[k].status = "running"
              /\ rows[k].status = "done" => Flushed[k].status = "done"
<1>1. /\ rows \in Seq(RowSet) /\ Len(rows) \in Nat /\ DOMAIN rows = 1..Len(rows)
      /\ \A k \in DOMAIN rows : rows[k] \in RowSet
  BY DEF TypeOK
<1>2. \A k \in DOMAIN rows : Closed(rows[k]) \in RowSet
  BY <1>1 DEF Closed, RowSet
<1>3. Flushed \in [1..Len(rows) -> RowSet]
  BY <1>1, <1>2 DEF Flushed
<1>4. Flushed \in Seq(RowSet)
  BY <1>1, <1>3
<1>5. ASSUME NEW k \in DOMAIN rows
      PROVE  /\ Flushed[k].kind = rows[k].kind /\ Flushed[k].seq = rows[k].seq
             /\ Flushed[k].status \in {rows[k].status, "incomplete"}
             /\ Flushed[k].status = "running" => rows[k].status = "running"
             /\ rows[k].status = "done" => Flushed[k].status = "done"
  <2>1. rows[k] \in RowSet
    BY <1>1
  <2>2. CASE k \in openTools /\ rows[k].status = "running"
    <3>1. Flushed[k] = [rows[k] EXCEPT !.status = "incomplete"]
      BY <2>2 DEF Flushed, Closed
    <3>2. QED
      BY <2>1, <2>2, <3>1 DEF RowSet
  <2>3. CASE ~(k \in openTools /\ rows[k].status = "running")
    <3>1. Flushed[k] = rows[k]
      BY <2>3 DEF Flushed
    <3>2. QED
      BY <3>1
  <2>4. QED
    BY <2>2, <2>3
<1>6. QED
  BY <1>3, <1>4, <1>5, <1>1

\* What a run_started, a run_finished and any other event do to the tail.
LEMMA TailFacts ==
  ASSUME events \in Seq(RenderEvents), NEW e \in RenderEvents, events' = Append(events, e)
  PROVE  /\ e.type = "run_started" => RunIsLive(events')
         /\ e.type = "run_finished" => ~RunIsLive(events')
         /\ e.type \notin Boundary => (RunIsLive(events') <=> RunIsLive(events))
<1> DEFINE n == Len(events) + 1
<1>1. /\ DOMAIN events' = DOMAIN events \cup {n} /\ n \in Nat
      /\ events'[n] = e /\ \A i \in DOMAIN events : events'[i] = events[i] /\ i < n
      /\ DOMAIN events \subseteq Nat
  BY Positions
<1>2. ASSUME e.type = "run_started" PROVE RunIsLive(events')
  BY <1>1, <1>2 DEF RunIsLive, DanglingAt
<1>3. ASSUME e.type = "run_finished" PROVE ~RunIsLive(events')
  BY <1>1, <1>3 DEF RunIsLive, DanglingAt, Boundary
<1>4. ASSUME e.type \notin Boundary PROVE RunIsLive(events') <=> RunIsLive(events)
  <2>1. ~DanglingAt(events', n)
    BY <1>1, <1>4 DEF DanglingAt, Boundary
  <2>2. ASSUME NEW i \in DOMAIN events PROVE DanglingAt(events', i) <=> DanglingAt(events, i)
    BY <1>1, <1>4 DEF DanglingAt
  <2>3. QED
    BY <1>1, <2>1, <2>2 DEF RunIsLive
<1>5. QED
  BY <1>2, <1>3, <1>4

\* The events of each kind, and what they carry.
LEMMA EventFacts ==
  ASSUME NEW e \in RenderEvents
  PROVE  /\ e.type = "tool_call" => e.id \in ToolIds \cup {NoId}
         /\ e.type = "tool_result" => e.id \in ToolIds \cup {NoId}
         /\ e.state \in RunStates \cup {NoState}
  BY DEF RenderEvents, Texts

\* Every step of the loop keeps its variables' types, and its indices valid.
LEMMA TypeStep == TypeOK /\ [Next]_vars => TypeOK'
<1> SUFFICES ASSUME TypeOK, [Next]_vars PROVE TypeOK'
  OBVIOUS
<1>1. /\ rows \in Seq(RowSet) /\ Len(rows) \in Nat /\ DOMAIN rows = 1..Len(rows)
      /\ events \in Seq(RenderEvents) /\ Len(events) \in Nat
      /\ \A k \in DOMAIN rows : rows[k] \in RowSet
  BY DEF TypeOK
<1>2. CASE UNCHANGED vars
  BY <1>2 DEF vars, loop, TypeOK
<1>3. ASSUME NEW e \in RenderEvents, TakeText(e)
      PROVE  TypeOK'
  <2>1. Row(e.type, "none", NoId) \in RowSet
    BY <1>1, <1>3 DEF Row, RowSet, TakeText
  <2>2. events' \in Seq(RenderEvents)
    BY <1>1, <1>3 DEF TakeText, Consume
  <2>3. /\ rows' \in Seq(RowSet) /\ DOMAIN rows \subseteq DOMAIN rows'
        /\ \A k \in DOMAIN rows : rows'[k] = rows[k]
    BY <1>1, <1>3, <2>1, Positions DEF TakeText
  <2>4. QED
    BY <1>3, <2>2, <2>3 DEF TypeOK, TakeText
<1>4. ASSUME NEW e \in RenderEvents, TakeToolCall(e)
      PROVE  TypeOK'
  <2>1. Row("tool", "running", e.id) \in RowSet /\ Row("tool", "running", e.id).kind = "tool"
    <3>1. e.id \in ToolIds \cup {NoId}
      BY <1>4, EventFacts DEF TakeToolCall
    <3>2. QED
      BY <1>1, <3>1 DEF Row, RowSet
  <2>2. events' \in Seq(RenderEvents)
    BY <1>1, <1>4 DEF TakeToolCall, Consume
  <2>3. /\ rows' \in Seq(RowSet) /\ DOMAIN rows' = DOMAIN rows \cup {Len(rows) + 1}
        /\ rows'[Len(rows) + 1].kind = "tool"
        /\ \A k \in DOMAIN rows : rows'[k] = rows[k]
    BY <1>1, <1>4, <2>1, Positions DEF TakeToolCall
  <2>4. /\ toolRow' \in [ToolIds -> Nat]
        /\ \A x \in ToolIds : toolRow'[x] \in {toolRow[x], Len(rows) + 1}
    BY <1>1, <1>4, EventFacts DEF TakeToolCall, TypeOK
  <2>5. openTools' = openTools \cup {Len(rows) + 1}
    BY <1>4 DEF TakeToolCall
  <2>6. /\ openTools' \subseteq DOMAIN rows'
        /\ \A x \in ToolIds : toolRow'[x] # 0 => toolRow'[x] \in DOMAIN rows'
    BY <2>3, <2>4, <2>5 DEF TypeOK
  <2>7. ASSUME NEW k \in openTools' \cup ({toolRow'[x] : x \in ToolIds} \ {0})
        PROVE  rows'[k].kind = "tool"
    <3>1. k = Len(rows) + 1 \/ k \in openTools \cup ({toolRow[x] : x \in ToolIds} \ {0})
      BY <2>4, <2>5
    <3>2. QED
      BY <2>3, <3>1 DEF TypeOK
  <2>8. QED
    BY <1>4, <2>2, <2>3, <2>4, <2>6, <2>7 DEF TypeOK, TakeToolCall
<1>5. ASSUME NEW e \in RenderEvents, TakeToolResult(e)
      PROVE  TypeOK'
  <2>1. events' \in Seq(RenderEvents)
    BY <1>1, <1>5 DEF TakeToolResult, Consume
  <2>2. /\ rows' \in Seq(RowSet) /\ DOMAIN rows' = DOMAIN rows
        /\ \A k \in DOMAIN rows : rows'[k].kind = rows[k].kind
    <3>1. CASE rows' = rows
      BY <1>1, <3>1
    <3>2. CASE rows' # rows
      <4> DEFINE k == toolRow[e.id]
      <4>1. e.id \in ToolIds /\ k \in DOMAIN rows
        BY <1>5, <3>2, EventFacts DEF TakeToolResult, TypeOK
      <4>2. rows' = [rows EXCEPT ![k] = [rows[k] EXCEPT !.status = "done"]]
        BY <1>5, <3>2 DEF TakeToolResult
      <4>3. [rows[k] EXCEPT !.status = "done"] \in RowSet
        BY <1>1, <4>1 DEF RowSet
      <4>4. [rows[k] EXCEPT !.status = "done"].kind = rows[k].kind
        BY <1>1, <4>1 DEF RowSet
      <4>5. QED
        BY <1>1, <4>1, <4>2, <4>3, <4>4
    <3>3. QED
      BY <3>1, <3>2
  <2>3. QED
    BY <1>5, <2>1, <2>2 DEF TypeOK, TakeToolResult
<1>6. ASSUME NEW e \in RenderEvents, TakeRunStarted(e) \/ TakeRunFinished(e)
      PROVE  TypeOK'
  <2>1. events' \in Seq(RenderEvents)
    BY <1>1, <1>6 DEF TakeRunStarted, TakeRunFinished, Consume
  <2>2. /\ rows' = Flushed /\ openTools' = {} /\ toolRow' = toolRow
        /\ runActive' \in BOOLEAN /\ lastRunState' \in RunStates \cup {NoState}
    BY <1>6, EventFacts DEF TakeRunStarted, TakeRunFinished, TypeOK
  <2>3. QED
    BY <2>1, <2>2, FlushFacts DEF TypeOK
<1>7. QED
  BY <1>2, <1>3, <1>4, <1>5, <1>6 DEF Next

\* What the tail shows, as the loop has it.
TailInv == TypeOK /\ (runActive <=> RunIsLive(events))

\* Each step keeps runActive in agreement with the events.
LEMMA TailStep == TailInv /\ [Next]_vars => TailInv'
<1> SUFFICES ASSUME TailInv, [Next]_vars PROVE TailInv'
  OBVIOUS
<1>1. TypeOK'
  BY TypeStep DEF TailInv
<1>2. CASE UNCHANGED vars
  BY <1>1, <1>2 DEF vars, loop, TailInv, RunIsLive
<1>3. ASSUME NEW e \in RenderEvents, TakeText(e) \/ TakeToolCall(e) \/ TakeToolResult(e)
      PROVE  TailInv'
  <2>1. events' = Append(events, e) /\ e.type \notin Boundary /\ runActive' = runActive
    BY <1>3 DEF TakeText, TakeToolCall, TakeToolResult, Consume, Boundary, Texts
  <2>2. QED
    BY <1>1, <2>1, TailFacts DEF TailInv, TypeOK
<1>4. ASSUME NEW e \in RenderEvents, TakeRunStarted(e)
      PROVE  TailInv'
  <2>1. events' = Append(events, e) /\ e.type = "run_started" /\ runActive' = TRUE
    BY <1>4 DEF TakeRunStarted, Consume
  <2>2. QED
    BY <1>1, <2>1, TailFacts DEF TailInv, TypeOK
<1>5. ASSUME NEW e \in RenderEvents, TakeRunFinished(e)
      PROVE  TailInv'
  <2>1. events' = Append(events, e) /\ e.type = "run_finished" /\ runActive' = FALSE
    BY <1>5 DEF TakeRunFinished, Consume
  <2>2. QED
    BY <1>1, <2>1, TailFacts DEF TailInv, TypeOK
<1>6. QED
  BY <1>2, <1>3, <1>4, <1>5 DEF Next

\* The loop starts on an empty ledger, which is idle.
LEMMA TailInit == Init => TailInv
<1> SUFFICES ASSUME Init PROVE TailInv
  OBVIOUS
<1>1. events = <<>> /\ rows = <<>> /\ openTools = {} /\ runActive = FALSE
  BY DEF Init
<1>2. DOMAIN events = {} /\ events \in Seq(RenderEvents) /\ rows \in Seq(RowSet)
  BY <1>1
<1>3. toolRow \in [ToolIds -> Nat] /\ \A x \in ToolIds : toolRow[x] = 0
  BY DEF Init
<1>4. lastRunState \in RunStates \cup {NoState}
  BY DEF Init
<1>5. ~RunIsLive(events)
  BY <1>2 DEF RunIsLive
<1>6. \A k \in openTools \cup ({toolRow[x] : x \in ToolIds} \ {0}) : rows[k].kind = "tool"
  BY <1>1, <1>3
<1>7. QED
  BY <1>1, <1>2, <1>3, <1>4, <1>5, <1>6 DEF TailInv, TypeOK

\* The rows of the snapshot are the loop's, with the open ones closed when idle.
LEMMA ShownFacts ==
  TypeOK => /\ DOMAIN RenderState.rows = DOMAIN rows
            /\ \A k \in DOMAIN rows :
                 /\ RenderState.rows[k].seq = rows[k].seq
                 /\ RenderState.rows[k].status =
                      IF ~runActive /\ k \in openTools /\ rows[k].status = "running"
                      THEN "incomplete" ELSE rows[k].status
<1> SUFFICES ASSUME TypeOK PROVE ShownFacts!2
  OBVIOUS
<1>1. RenderState.rows = IF runActive THEN rows ELSE Flushed
  BY DEF RenderState
<1>2. ASSUME NEW k \in DOMAIN rows
      PROVE  Flushed[k].status = IF k \in openTools /\ rows[k].status = "running"
                                 THEN "incomplete" ELSE rows[k].status
  <2>1. rows[k] \in RowSet
    BY <1>2 DEF TypeOK
  <2>2. CASE k \in openTools /\ rows[k].status = "running"
    <3>1. Flushed[k] = [rows[k] EXCEPT !.status = "incomplete"]
      BY <2>2 DEF Flushed, Closed
    <3>2. QED
      BY <2>1, <2>2, <3>1 DEF RowSet
  <2>3. CASE ~(k \in openTools /\ rows[k].status = "running")
    BY <2>3 DEF Flushed
  <2>4. QED
    BY <2>2, <2>3
<1>3. QED
  BY <1>1, <1>2, FlushFacts DEF TypeOK

\* Whatever events Compute folds, its variables keep their types and every row it
\* indexes (a tool's result, an open tool) is the row of a tool (render.go:70-140).
THEOREM RenderTypeCorrect == Spec => []TypeOK
<1>1. TailInv => TypeOK
  BY DEF TailInv
<1>2. QED
  BY TailInit, TailStep, <1>1, PTL DEF Spec

\* For every ledger, the activity Compute shows is the one DanglingRun finds.
THEOREM TailAgrees == Spec => []TailAgreesWithDanglingRun
<1>1. TailInv => TailAgreesWithDanglingRun
  BY DEF TailInv, TailAgreesWithDanglingRun, RenderState, TypeOK
<1>2. QED
  BY TailInit, TailStep, <1>1, PTL DEF Spec

\* A step settles rows, and takes none away.
Settles ==
  \A k \in DOMAIN rows :
    /\ k \in DOMAIN rows' /\ rows'[k].seq = rows[k].seq
    /\ rows'[k].status \in {rows[k].status, "done", "incomplete"}
    /\ rows[k].status = "done" => rows'[k].status = "done"
    /\ (runActive /\ ~runActive') => openTools' = {}
    /\ (~runActive /\ k \in openTools /\ rows[k].status = "running") =>
         ((~runActive' /\ k \in openTools') \/ rows'[k].status # "running")

\* Every step of the loop settles rows only.
LEMMA SettlesStep == TypeOK /\ [Next]_vars => Settles
<1> SUFFICES ASSUME TypeOK, [Next]_vars PROVE Settles
  OBVIOUS
<1>1. /\ rows \in Seq(RowSet) /\ DOMAIN rows = 1..Len(rows) /\ Len(rows) \in Nat
      /\ \A k \in DOMAIN rows : rows[k] \in RowSet
  BY DEF TypeOK
<1>2. CASE UNCHANGED vars
  BY <1>2 DEF vars, loop, Settles
<1>3. ASSUME NEW e \in RenderEvents, TakeText(e) \/ TakeToolCall(e)
      PROVE  Settles
  <2>1. PICK row : rows' = Append(rows, row)
    BY <1>3 DEF TakeText, TakeToolCall
  <2>2. \A k \in DOMAIN rows : k \in DOMAIN rows' /\ rows'[k] = rows[k]
    BY <1>1, <2>1
  <2>3. runActive' = runActive /\ openTools \subseteq openTools'
    BY <1>3 DEF TakeText, TakeToolCall
  <2>4. QED
    BY <2>2, <2>3 DEF Settles
<1>4. ASSUME NEW e \in RenderEvents, TakeToolResult(e)
      PROVE  Settles
  <2>1. runActive' = runActive /\ openTools' = openTools
    BY <1>4 DEF TakeToolResult
  <2>2. CASE rows' = rows
    BY <2>1, <2>2 DEF Settles
  <2>3. CASE rows' # rows
    <3> DEFINE t == toolRow[e.id]
    <3>1. e.id \in ToolIds /\ t \in DOMAIN rows
      BY <1>4, <2>3, EventFacts DEF TakeToolResult, TypeOK
    <3>2. rows' = [rows EXCEPT ![t] = [rows[t] EXCEPT !.status = "done"]]
      BY <1>4, <2>3 DEF TakeToolResult
    <3>3. /\ [rows[t] EXCEPT !.status = "done"].status = "done"
          /\ [rows[t] EXCEPT !.status = "done"].seq = rows[t].seq
      BY <1>1, <3>1 DEF RowSet
    <3>4. \A k \in DOMAIN rows :
            /\ k \in DOMAIN rows' /\ rows'[k].seq = rows[k].seq
            /\ IF k = t THEN rows'[k].status = "done" ELSE rows'[k] = rows[k]
      BY <1>1, <3>1, <3>2, <3>3
    <3>5. QED
      BY <2>1, <3>4 DEF Settles
  <2>4. QED
    BY <2>2, <2>3
<1>5. ASSUME NEW e \in RenderEvents, TakeRunStarted(e) \/ TakeRunFinished(e)
      PROVE  Settles
  <2>1. rows' = Flushed /\ openTools' = {}
    BY <1>5 DEF TakeRunStarted, TakeRunFinished
  <2>2. ASSUME NEW k \in DOMAIN rows, k \in openTools, rows[k].status = "running"
        PROVE  Flushed[k].status # "running"
    <3>1. Flushed[k] = [rows[k] EXCEPT !.status = "incomplete"]
      BY <2>2 DEF Flushed, Closed
    <3>2. QED
      BY <1>1, <3>1 DEF RowSet
  <2>3. QED
    BY <2>1, <2>2, FlushFacts DEF Settles
<1>6. QED
  BY <1>2, <1>3, <1>4, <1>5 DEF Next

\* For every ledger, each snapshot keeps the rows of the one before it, and no tool
\* spins again: a tool's row only settles (render.go:76-89, 142-149).
THEOREM RowsSettle == Spec => RowsOnlySettle
<1> DEFINE Old == RenderState.rows
           Step == \A k \in DOMAIN Old :
                     /\ k \in DOMAIN RenderState'.rows /\ RenderState'.rows[k].seq = Old[k].seq
                     /\ RenderState'.rows[k].status = "running" => Old[k].status = "running"
                     /\ Old[k].status = "done" => RenderState'.rows[k].status = "done"
           Facts == /\ DOMAIN RenderState.rows = DOMAIN rows
                    /\ \A k \in DOMAIN rows :
                         /\ RenderState.rows[k].seq = rows[k].seq
                         /\ RenderState.rows[k].status =
                              IF ~runActive /\ k \in openTools /\ rows[k].status = "running"
                              THEN "incomplete" ELSE rows[k].status
<1>1. TypeOK => Facts
  BY ShownFacts
<1>2. TypeOK' => Facts'
  BY <1>1, PTL
<1>3. TypeOK /\ TypeOK' /\ [Next]_vars => Step
  <2> SUFFICES ASSUME TypeOK, TypeOK', [Next]_vars, NEW k \in DOMAIN Old
               PROVE  /\ k \in DOMAIN RenderState'.rows /\ RenderState'.rows[k].seq = Old[k].seq
                      /\ RenderState'.rows[k].status = "running" => Old[k].status = "running"
                      /\ Old[k].status = "done" => RenderState'.rows[k].status = "done"
    OBVIOUS
  <2>1. k \in DOMAIN rows /\ Settles
    BY <1>1, SettlesStep
  <2>2. k \in DOMAIN rows' /\ rows'[k].seq = rows[k].seq
    BY <2>1 DEF Settles
  <2>3. k \in DOMAIN RenderState'.rows /\ RenderState'.rows[k].seq = Old[k].seq
    BY <1>1, <1>2, <2>1, <2>2
  <2>4. ASSUME RenderState'.rows[k].status = "running" PROVE Old[k].status = "running"
    BY <1>1, <1>2, <2>1, <2>2, <2>4 DEF Settles
  <2>5. ASSUME Old[k].status = "done" PROVE RenderState'.rows[k].status = "done"
    BY <1>1, <1>2, <2>1, <2>2, <2>5 DEF Settles
  <2>6. QED
    BY <2>3, <2>4, <2>5
<1>4. Spec => [][Step]_vars
  BY RenderTypeCorrect, <1>3, PTL DEF Spec
<1>5. Step <=> RowsOnlySettle!1
  BY DEF RowsOnlySettle
<1>6. QED
  BY <1>4, <1>5, PTL DEF RowsOnlySettle

----------------------------------------------------------------------------
(* What the rows mean *)

\* The call i of l is answered; no boundary came since; it is the last call of x.
AnsweredBy(l, j, i) ==
  /\ l[j].type = "tool_result" /\ l[j].id # NoId
  /\ i < j /\ l[i].type = "tool_call" /\ l[i].id = l[j].id
  /\ \A k \in DOMAIN l : (i < k /\ k < j) => ~(l[k].type = "tool_call" /\ l[k].id = l[j].id)
Answered(l, i) == \E j \in DOMAIN l : AnsweredBy(l, j, i)
SameRun(l, i) == \A k \in DOMAIN l : k > i => l[k].type \notin Boundary
LastCall(l, i, x) ==
  /\ i \in DOMAIN l /\ l[i].type = "tool_call" /\ l[i].id = x
  /\ \A k \in DOMAIN l : k > i => ~(l[k].type = "tool_call" /\ l[k].id = x)

\* The status the loop holds for the row of event i: what the snapshot shows, except
\* that it closes the open rows when the tail is idle.
Meaning(l, i) ==
  IF l[i].type # "tool_call" THEN "none"
  ELSE IF Answered(l, i) THEN "done"
  ELSE IF SameRun(l, i) THEN "running" ELSE "incomplete"

ShownIn(l) == {i \in DOMAIN l : l[i].type \in Texts \cup {"tool_call"}}

\* What one event more changes in these, for an event that was there and for itself.
LEMMA AppendMeans ==
  ASSUME NEW l \in Seq(RenderEvents), NEW e \in RenderEvents
  PROVE  LET m == Append(l, e)
             n == Len(l) + 1
         IN  /\ \A i \in DOMAIN l :
                  /\ m[i] = l[i]
                  /\ SameRun(m, i) <=> SameRun(l, i) /\ e.type \notin Boundary
                  /\ Answered(m, i) <=>
                       \/ Answered(l, i)
                       \/ e.type = "tool_result" /\ e.id # NoId /\ LastCall(l, i, e.id)
             /\ \A x : \A i \in DOMAIN l :
                  LastCall(m, i, x) <=> LastCall(l, i, x) /\ ~(e.type = "tool_call" /\ e.id = x)
             /\ SameRun(m, n) /\ ~Answered(m, n)
             /\ \A x : LastCall(m, n, x) <=> e.type = "tool_call" /\ e.id = x
             /\ ShownIn(m) = ShownIn(l) \cup {i \in {n} : e.type \in Texts \cup {"tool_call"}}
<1> DEFINE m == Append(l, e)
           n == Len(l) + 1
<1>1. /\ DOMAIN m = DOMAIN l \cup {n} /\ n \in Nat /\ n \notin DOMAIN l /\ m[n] = e
      /\ \A i \in DOMAIN l : m[i] = l[i] /\ i < n /\ i \in Nat
  BY Positions
<1> HIDE DEF m, n
<1>2. ASSUME NEW i \in DOMAIN l PROVE SameRun(m, i) <=> SameRun(l, i) /\ e.type \notin Boundary
  BY <1>1 DEF SameRun
<1>3. ASSUME NEW i \in DOMAIN l, NEW x
      PROVE  LastCall(m, i, x) <=> LastCall(l, i, x) /\ ~(e.type = "tool_call" /\ e.id = x)
  BY <1>1 DEF LastCall
<1>4. ASSUME NEW i \in DOMAIN l
      PROVE  Answered(m, i) <=>
               \/ Answered(l, i)
               \/ e.type = "tool_result" /\ e.id # NoId /\ LastCall(l, i, e.id)
  <2>1. ASSUME NEW j \in DOMAIN l PROVE AnsweredBy(m, j, i) <=> AnsweredBy(l, j, i)
    <3>1. \A k \in DOMAIN m : k < j => k \in DOMAIN l /\ m[k] = l[k]
      BY <1>1
    <3>2. \A k \in DOMAIN l : k \in DOMAIN m /\ m[k] = l[k]
      BY <1>1
    <3>3. m[i] = l[i] /\ m[j] = l[j]
      BY <1>1
    <3>4. QED
      BY <3>1, <3>2, <3>3 DEF AnsweredBy
  <2>2. AnsweredBy(m, n, i) <=> e.type = "tool_result" /\ e.id # NoId /\ LastCall(l, i, e.id)
    BY <1>1 DEF AnsweredBy, LastCall
  <2>3. QED
    BY <1>1, <2>1, <2>2 DEF Answered
<1>5. SameRun(m, n) /\ ~Answered(m, n)
  BY <1>1 DEF SameRun, Answered, AnsweredBy
<1>6. ASSUME NEW x PROVE LastCall(m, n, x) <=> e.type = "tool_call" /\ e.id = x
  BY <1>1 DEF LastCall
<1>7. ShownIn(m) = ShownIn(l) \cup {i \in {n} : e.type \in Texts \cup {"tool_call"}}
  BY <1>1 DEF ShownIn
<1>8. QED
  BY <1>1, <1>2, <1>3, <1>4, <1>5, <1>6, <1>7 DEF m, n

\* What one event more changes in the meaning of an older one.
LEMMA MeaningLater ==
  ASSUME NEW l \in Seq(RenderEvents), NEW e \in RenderEvents, NEW i \in DOMAIN l
  PROVE  LET m == Append(l, e)
         IN  /\ e.type \in Texts \cup {"tool_call"} => Meaning(m, i) = Meaning(l, i)
             /\ e.type = "tool_result" =>
                  Meaning(m, i) = IF e.id # NoId /\ LastCall(l, i, e.id) THEN "done"
                                  ELSE Meaning(l, i)
             /\ e.type \in Boundary =>
                  Meaning(m, i) = IF Meaning(l, i) = "running" THEN "incomplete"
                                  ELSE Meaning(l, i)
<1> DEFINE m == Append(l, e)
<1>1. /\ m[i] = l[i]
      /\ SameRun(m, i) <=> SameRun(l, i) /\ e.type \notin Boundary
      /\ Answered(m, i) <=>
           \/ Answered(l, i)
           \/ e.type = "tool_result" /\ e.id # NoId /\ LastCall(l, i, e.id)
  BY AppendMeans
<1> HIDE DEF m
<1>2. e.id # NoId /\ LastCall(l, i, e.id) => l[i].type = "tool_call"
  BY DEF LastCall
<1>3. QED
  BY <1>1, <1>2 DEF Meaning, Boundary, Texts, m

\* A row is the one of its event, and is open while its call's run may still answer it.
RowMeans(l, row, open) ==
  /\ row.seq \in DOMAIN l
  /\ row.status = Meaning(l, row.seq)
  /\ open <=> (l[row.seq].type = "tool_call" /\ SameRun(l, row.seq))

\* The invariant behind RowsMeanEvents: the rows are those of the events that show, in
\* their order, and the indices the loop keeps say which calls are open and which call
\* of an id is the last.
MeanInv ==
  /\ TailInv
  /\ {rows[k].seq : k \in DOMAIN rows} = ShownIn(events)
  /\ \A k, m \in DOMAIN rows : k < m => rows[k].seq < rows[m].seq
  /\ \A k \in DOMAIN rows : RowMeans(events, rows[k], k \in openTools)
  /\ \A x \in ToolIds :
       IF toolRow[x] = 0 THEN \A i \in DOMAIN events : ~LastCall(events, i, x)
       ELSE LastCall(events, rows[toolRow[x]].seq, x)

\* Appending the row of the new event keeps rows and events in step.
LEMMA RowAppended ==
  ASSUME TypeOK, MeanInv, NEW e \in RenderEvents, events' = Append(events, e),
         e.type \in Texts \cup {"tool_call"},
         NEW row \in RowSet, rows' = Append(rows, row), row.seq = Len(events) + 1,
         RowMeans(events', row, e.type = "tool_call"),
         openTools' = IF e.type = "tool_call" THEN openTools \cup {Len(rows) + 1} ELSE openTools
  PROVE  /\ {rows'[k].seq : k \in DOMAIN rows'} = ShownIn(events')
         /\ \A k, m \in DOMAIN rows' : k < m => rows'[k].seq < rows'[m].seq
         /\ \A k \in DOMAIN rows' : RowMeans(events', rows'[k], k \in openTools')
<1> DEFINE n == Len(events) + 1
           r == Len(rows) + 1
<1>1. /\ events \in Seq(RenderEvents) /\ rows \in Seq(RowSet) /\ openTools \subseteq DOMAIN rows
  BY DEF TypeOK
<1>2. /\ DOMAIN rows' = DOMAIN rows \cup {r} /\ rows'[r] = row
      /\ \A k \in DOMAIN rows : rows'[k] = rows[k] /\ k < r /\ k \in Nat
      /\ r \notin DOMAIN rows /\ r \in Nat
  BY <1>1, Positions
<1>3. \A i \in DOMAIN events : i < n /\ i \in Nat
  BY <1>1
<1>4. ShownIn(events') = ShownIn(events) \cup {n}
  BY <1>1, AppendMeans
<1>5. \A k \in DOMAIN rows : rows[k].seq \in DOMAIN events
  BY DEF MeanInv, RowMeans
<1>6. {rows'[k].seq : k \in DOMAIN rows'} = {rows[k].seq : k \in DOMAIN rows} \cup {n}
  BY <1>2
<1>7. ASSUME NEW k \in DOMAIN rows', NEW m \in DOMAIN rows', k < m
      PROVE  rows'[k].seq < rows'[m].seq
  <2>1. k \in DOMAIN rows
    BY <1>2, <1>7
  <2>2. CASE m \in DOMAIN rows
    BY <1>2, <1>7, <2>1, <2>2 DEF MeanInv
  <2>3. CASE m = r
    BY <1>2, <1>3, <1>5, <2>1, <2>3
  <2>4. QED
    BY <1>2, <2>2, <2>3
<1>8. ASSUME NEW k \in DOMAIN rows'
      PROVE  RowMeans(events', rows'[k], k \in openTools')
  <2>1. CASE k \in DOMAIN rows
    <3> DEFINE i == rows[k].seq
    <3>1. /\ i \in DOMAIN events /\ rows[k].status = Meaning(events, i)
          /\ k \in openTools <=> (events[i].type = "tool_call" /\ SameRun(events, i))
      BY <2>1 DEF MeanInv, RowMeans
    <3>2. Meaning(events', i) = Meaning(events, i)
      BY <1>1, <3>1, MeaningLater
    <3>3. events'[i] = events[i] /\ (SameRun(events', i) <=> SameRun(events, i))
      BY <1>1, <3>1, AppendMeans DEF Texts, Boundary
    <3>4. rows'[k] = rows[k] /\ (k \in openTools' <=> k \in openTools)
      BY <1>2, <2>1
    <3>5. i \in DOMAIN events'
      BY <1>1, <3>1, Positions
    <3>6. QED
      BY <3>1, <3>2, <3>3, <3>4, <3>5 DEF RowMeans
  <2>2. CASE k = r
    <3>1. k \in openTools' <=> e.type = "tool_call"
      BY <1>1, <1>2, <2>2
    <3>2. rows'[k] = row
      BY <1>2, <2>2
    <3>3. QED
      BY <3>1, <3>2 DEF RowMeans
  <2>3. QED
    BY <1>2, <2>1, <2>2
<1>9. QED
  BY <1>4, <1>6, <1>7, <1>8 DEF MeanInv

\* The rows that stay: same events, statuses as their meaning changes.
LEMMA RowsKept ==
  ASSUME TypeOK, MeanInv, NEW e \in RenderEvents, events' = Append(events, e),
         e.type \notin Texts \cup {"tool_call"},
         DOMAIN rows' = DOMAIN rows,
         \A k \in DOMAIN rows :
           /\ rows'[k].seq = rows[k].seq
           /\ rows'[k].status = Meaning(events', rows[k].seq)
           /\ k \in openTools' <=> k \in openTools /\ e.type \notin Boundary
  PROVE  /\ {rows'[k].seq : k \in DOMAIN rows'} = ShownIn(events')
         /\ \A k, m \in DOMAIN rows' : k < m => rows'[k].seq < rows'[m].seq
         /\ \A k \in DOMAIN rows' : RowMeans(events', rows'[k], k \in openTools')
<1>1. events \in Seq(RenderEvents)
  BY DEF TypeOK
<1>2. ShownIn(events') = ShownIn(events)
  <2> DEFINE new == {i \in {Len(events) + 1} : e.type \in Texts \cup {"tool_call"}}
  <2>1. new = {}
    OBVIOUS
  <2>2. ShownIn(Append(events, e)) = ShownIn(events) \cup new
    BY <1>1, AppendMeans
  <2> HIDE DEF new
  <2>3. QED
    BY <2>1, <2>2
<1>3. {rows'[k].seq : k \in DOMAIN rows'} = {rows[k].seq : k \in DOMAIN rows}
  OBVIOUS
<1>4. \A k, m \in DOMAIN rows' : k < m => rows'[k].seq < rows'[m].seq
  BY DEF MeanInv
<1>5. ASSUME NEW k \in DOMAIN rows'
      PROVE  RowMeans(events', rows'[k], k \in openTools')
  <2> DEFINE i == rows[k].seq
  <2>1. /\ i \in DOMAIN events
        /\ k \in openTools <=> (events[i].type = "tool_call" /\ SameRun(events, i))
    BY DEF MeanInv, RowMeans
  <2>2. /\ events'[i] = events[i]
        /\ SameRun(events', i) <=> SameRun(events, i) /\ e.type \notin Boundary
    BY <1>1, <2>1, AppendMeans
  <2>3. i \in DOMAIN events'
    BY <1>1, <2>1, Positions
  <2>4. QED
    BY <2>1, <2>2, <2>3 DEF RowMeans
<1>6. QED
  BY <1>2, <1>3, <1>4, <1>5 DEF MeanInv

\* Every step of the loop keeps rows and events in step.
LEMMA MeanStep == MeanInv /\ [Next]_vars => MeanInv'
<1> SUFFICES ASSUME MeanInv, [Next]_vars PROVE MeanInv'
  OBVIOUS
<1>1. /\ TypeOK /\ TailInv' /\ events \in Seq(RenderEvents) /\ rows \in Seq(RowSet)
      /\ Len(rows) \in Nat /\ DOMAIN rows = 1..Len(rows) /\ toolRow \in [ToolIds -> Nat]
      /\ \A k \in DOMAIN rows : rows[k] \in RowSet
      /\ openTools \subseteq DOMAIN rows
      /\ \A x \in ToolIds : toolRow[x] # 0 => toolRow[x] \in DOMAIN rows
  BY TailStep DEF MeanInv, TailInv, TypeOK
<1>2. \A k \in DOMAIN rows :
        /\ rows[k].seq \in DOMAIN events /\ rows[k].status = Meaning(events, rows[k].seq)
        /\ k \in openTools <=> (events[rows[k].seq].type = "tool_call"
                                 /\ SameRun(events, rows[k].seq))
  BY DEF MeanInv, RowMeans
<1>3. CASE UNCHANGED vars
  BY <1>1, <1>3 DEF vars, loop, MeanInv
<1>4. ASSUME NEW e \in RenderEvents, TakeText(e) PROVE MeanInv'
  <2> DEFINE row == Row(e.type, "none", NoId)
  <2>1. /\ events' = Append(events, e) /\ e.type \in Texts /\ e.type # "tool_call"
        /\ rows' = Append(rows, row) /\ openTools' = openTools /\ toolRow' = toolRow
    BY <1>4 DEF TakeText, Consume, Texts
  <2>2. row \in RowSet /\ row.seq = Len(events) + 1 /\ row.status = "none"
    BY <1>1, <2>1 DEF Row, RowSet
  <2>3. RowMeans(events', row, e.type = "tool_call")
    <3>1. events'[Len(events) + 1] = e /\ Len(events) + 1 \in DOMAIN events'
      BY <1>1, <2>1, Positions
    <3>2. QED
      BY <2>1, <2>2, <3>1 DEF RowMeans, Meaning
  <2> HIDE DEF row
  <2>4. /\ {rows'[k].seq : k \in DOMAIN rows'} = ShownIn(events')
        /\ \A k, m \in DOMAIN rows' : k < m => rows'[k].seq < rows'[m].seq
        /\ \A k \in DOMAIN rows' : RowMeans(events', rows'[k], k \in openTools')
    BY <1>1, <2>1, <2>2, <2>3, RowAppended
  <2>5. \A k \in DOMAIN rows : rows'[k] = rows[k]
    BY <1>1, <2>1, <2>2, Positions
  <2>6. ASSUME NEW x \in ToolIds
        PROVE  IF toolRow'[x] = 0 THEN \A i \in DOMAIN events' : ~LastCall(events', i, x)
               ELSE LastCall(events', rows'[toolRow'[x]].seq, x)
    <3>1. DOMAIN events' = DOMAIN events \cup {Len(events) + 1}
      BY <1>1, <2>1, Positions
    <3>2. ~LastCall(events', Len(events) + 1, x)
      BY <1>1, <2>1, AppendMeans
    <3>3. \A i \in DOMAIN events : LastCall(events', i, x) <=> LastCall(events, i, x)
      BY <1>1, <2>1, AppendMeans
    <3>4. QED
      BY <1>1, <1>2, <2>1, <2>5, <3>1, <3>2, <3>3 DEF MeanInv
  <2>7. QED
    BY <1>1, <2>4, <2>6 DEF MeanInv
<1>5. ASSUME NEW e \in RenderEvents, TakeToolCall(e) PROVE MeanInv'
  <2> DEFINE row == Row("tool", "running", e.id)
             n == Len(events) + 1
             r == Len(rows) + 1
  <2>1. /\ events' = Append(events, e) /\ e.type = "tool_call"
        /\ rows' = Append(rows, row) /\ openTools' = openTools \cup {r}
        /\ toolRow' = IF e.id = NoId THEN toolRow ELSE [toolRow EXCEPT ![e.id] = r]
    BY <1>5 DEF TakeToolCall, Consume
  <2>2. row \in RowSet /\ row.seq = n /\ row.status = "running"
    <3>1. e.id \in ToolIds \cup {NoId}
      BY <2>1, EventFacts
    <3>2. QED
      BY <1>1, <2>1, <3>1 DEF Row, RowSet
  <2>3. RowMeans(events', row, e.type = "tool_call")
    <3>1. events'[n] = e /\ n \in DOMAIN events'
      BY <1>1, <2>1, Positions
    <3>2. SameRun(events', n) /\ ~Answered(events', n)
      BY <1>1, <2>1, AppendMeans
    <3>3. QED
      BY <2>1, <2>2, <3>1, <3>2 DEF RowMeans, Meaning
  <2> HIDE DEF row
  <2>4. /\ {rows'[k].seq : k \in DOMAIN rows'} = ShownIn(events')
        /\ \A k, m \in DOMAIN rows' : k < m => rows'[k].seq < rows'[m].seq
        /\ \A k \in DOMAIN rows' : RowMeans(events', rows'[k], k \in openTools')
    BY <1>1, <2>1, <2>2, <2>3, RowAppended
  <2>5. rows'[r] = row /\ r # 0 /\ \A k \in DOMAIN rows : rows'[k] = rows[k]
    BY <1>1, <2>1, <2>2, Positions
  <2>6. ASSUME NEW x \in ToolIds
        PROVE  IF toolRow'[x] = 0 THEN \A i \in DOMAIN events' : ~LastCall(events', i, x)
               ELSE LastCall(events', rows'[toolRow'[x]].seq, x)
    <3>1. DOMAIN events' = DOMAIN events \cup {n}
      BY <1>1, <2>1, Positions
    <3>2. LastCall(events', n, x) <=> e.id = x
      BY <1>1, <2>1, AppendMeans
    <3>3. \A i \in DOMAIN events : LastCall(events', i, x) <=> LastCall(events, i, x) /\ e.id # x
      BY <1>1, <2>1, AppendMeans
    <3>4. CASE e.id = x
      <4>1. toolRow'[x] = r
        BY <1>1, <2>1, <3>4, RenderAssumption
      <4>2. QED
        BY <2>2, <2>5, <3>2, <3>4, <4>1
    <3>5. CASE e.id # x
      <4>1. toolRow'[x] = toolRow[x]
        BY <1>1, <2>1, <3>5
      <4>2. QED
        BY <1>1, <1>2, <2>5, <3>1, <3>2, <3>3, <3>5, <4>1 DEF MeanInv
    <3>6. QED
      BY <3>4, <3>5
  <2>7. QED
    BY <1>1, <2>4, <2>6 DEF MeanInv
<1>6. ASSUME NEW e \in RenderEvents, e.type \notin Texts \cup {"tool_call"},
             events' = Append(events, e), toolRow' = toolRow, DOMAIN rows' = DOMAIN rows,
             \A k \in DOMAIN rows :
               /\ rows'[k].seq = rows[k].seq
               /\ rows'[k].status = Meaning(events', rows[k].seq)
               /\ k \in openTools' <=> k \in openTools /\ e.type \notin Boundary
      PROVE  MeanInv'
  <2>1. /\ {rows'[k].seq : k \in DOMAIN rows'} = ShownIn(events')
        /\ \A k, m \in DOMAIN rows' : k < m => rows'[k].seq < rows'[m].seq
        /\ \A k \in DOMAIN rows' : RowMeans(events', rows'[k], k \in openTools')
    BY <1>1, <1>6, RowsKept
  <2>2. ASSUME NEW x \in ToolIds
        PROVE  IF toolRow'[x] = 0 THEN \A i \in DOMAIN events' : ~LastCall(events', i, x)
               ELSE LastCall(events', rows'[toolRow'[x]].seq, x)
    <3>1. DOMAIN events' = DOMAIN events \cup {Len(events) + 1}
      BY <1>1, <1>6, Positions
    <3>2. ~LastCall(events', Len(events) + 1, x)
      BY <1>1, <1>6, AppendMeans
    <3>3. \A i \in DOMAIN events : LastCall(events', i, x) <=> LastCall(events, i, x)
      BY <1>1, <1>6, AppendMeans
    <3>4. QED
      BY <1>1, <1>2, <1>6, <3>1, <3>2, <3>3 DEF MeanInv
  <2>3. QED
    BY <1>1, <2>1, <2>2 DEF MeanInv
<1>7. ASSUME NEW e \in RenderEvents, TakeToolResult(e) PROVE MeanInv'
  <2>1. /\ events' = Append(events, e) /\ e.type = "tool_result"
        /\ openTools' = openTools /\ toolRow' = toolRow
        /\ rows' = IF e.id = NoId \/ toolRow[e.id] = 0 THEN rows
                   ELSE [rows EXCEPT ![toolRow[e.id]].status = "done"]
        /\ e.id \in ToolIds \cup {NoId}
    BY <1>7, EventFacts DEF TakeToolResult, Consume
  <2>2. ASSUME NEW k \in DOMAIN rows
        PROVE  Meaning(events', rows[k].seq) =
                 IF e.id # NoId /\ LastCall(events, rows[k].seq, e.id) THEN "done"
                 ELSE rows[k].status
    BY <1>1, <1>2, <2>1, MeaningLater
  <2>3. CASE e.id = NoId \/ toolRow[e.id] = 0
    <3>1. \A k \in DOMAIN rows : ~(e.id # NoId /\ LastCall(events, rows[k].seq, e.id))
      BY <1>2, <2>1, <2>3 DEF MeanInv
    <3>2. rows' = rows
      BY <2>1, <2>3
    <3>3. QED
      BY <1>6, <2>1, <2>2, <3>1, <3>2 DEF Texts, Boundary
  <2>4. CASE ~(e.id = NoId \/ toolRow[e.id] = 0)
    <3> DEFINE t == toolRow[e.id]
    <3>1. e.id \in ToolIds /\ t \in DOMAIN rows /\ LastCall(events, rows[t].seq, e.id)
      BY <1>1, <2>1, <2>4 DEF MeanInv
    <3>2. ASSUME NEW k \in DOMAIN rows, LastCall(events, rows[k].seq, e.id) PROVE k = t
      <4>1. rows[k].seq \in Nat /\ rows[t].seq \in Nat
        BY <1>1, <3>1 DEF RowSet
      <4>2. rows[k].seq = rows[t].seq
        BY <3>1, <3>2, <4>1 DEF LastCall
      <4>3. ~(k < t) /\ ~(t < k) /\ k \in Nat /\ t \in Nat
        BY <1>1, <3>1, <4>1, <4>2 DEF MeanInv
      <4>4. QED
        BY <4>3
    <3>3. rows' = [rows EXCEPT ![t] = [rows[t] EXCEPT !.status = "done"]]
      BY <2>1, <2>4
    <3>4. /\ [rows[t] EXCEPT !.status = "done"].status = "done"
          /\ [rows[t] EXCEPT !.status = "done"].seq = rows[t].seq
      BY <1>1, <3>1 DEF RowSet
    <3>5. /\ DOMAIN rows' = DOMAIN rows
          /\ \A k \in DOMAIN rows :
               /\ rows'[k].seq = rows[k].seq
               /\ rows'[k].status = IF k = t THEN "done" ELSE rows[k].status
      BY <1>1, <3>1, <3>3, <3>4
    <3>6. \A k \in DOMAIN rows : rows'[k].status = Meaning(events', rows[k].seq)
      BY <2>2, <2>4, <3>1, <3>2, <3>5
    <3>7. QED
      BY <1>6, <2>1, <3>5, <3>6 DEF Texts, Boundary
  <2>5. QED
    BY <2>3, <2>4
<1>8. ASSUME NEW e \in RenderEvents, TakeRunStarted(e) \/ TakeRunFinished(e) PROVE MeanInv'
  <2>1. /\ events' = Append(events, e) /\ e.type \in Boundary
        /\ e.type \notin Texts \cup {"tool_call"}
        /\ rows' = Flushed /\ openTools' = {} /\ toolRow' = toolRow
    BY <1>8 DEF TakeRunStarted, TakeRunFinished, Consume, Boundary, Texts
  <2>2. ASSUME NEW k \in DOMAIN rows
        PROVE  /\ rows'[k].seq = rows[k].seq
               /\ rows'[k].status = Meaning(events', rows[k].seq)
    <3>1. Meaning(events', rows[k].seq) =
            IF rows[k].status = "running" THEN "incomplete" ELSE rows[k].status
      BY <1>1, <1>2, <2>1, MeaningLater
    <3>2. rows[k].status = "running" => k \in openTools
      BY <1>2 DEF Meaning
    <3>3. rows[k] \in RowSet
      BY <1>1
    <3>4. CASE rows[k].status = "running"
      <4>1. rows'[k] = [rows[k] EXCEPT !.status = "incomplete"]
        BY <2>1, <3>2, <3>4 DEF Flushed, Closed
      <4>2. QED
        BY <3>1, <3>3, <3>4, <4>1 DEF RowSet
    <3>5. CASE rows[k].status # "running"
      BY <2>1, <3>1, <3>5 DEF Flushed
    <3>6. QED
      BY <3>4, <3>5
  <2>3. DOMAIN rows' = DOMAIN rows
    BY <1>1, <2>1, FlushFacts
  <2>4. QED
    BY <1>6, <2>1, <2>2, <2>3
<1>9. QED
  BY <1>3, <1>4, <1>5, <1>7, <1>8 DEF Next

\* The loop starts without events or rows.
LEMMA MeanInit == Init => MeanInv
<1> SUFFICES ASSUME Init PROVE MeanInv
  OBVIOUS
<1>1. DOMAIN events = {} /\ DOMAIN rows = {} /\ \A x \in ToolIds : toolRow[x] = 0
  BY DEF Init
<1>2. QED
  BY <1>1, TailInit DEF MeanInv, ShownIn

\* For every ledger, every call, message and error has one row, in the ledger's order,
\* and the row of a call says what became of it: done, running or incomplete.
THEOREM RowsSayWhatHappened == Spec => []RowsMeanEvents
<1>1. MeanInv => RowsMeanEvents
  <2> SUFFICES ASSUME MeanInv PROVE RowsMeanEvents
    OBVIOUS
  <2> DEFINE shown == RenderState.rows
  <2>1. TypeOK /\ (runActive <=> RunIsLive(events)) /\ runActive \in BOOLEAN
    BY DEF MeanInv, TailInv, TypeOK
  <2>2. /\ DOMAIN shown = DOMAIN rows
        /\ \A k \in DOMAIN rows :
             /\ shown[k].seq = rows[k].seq
             /\ shown[k].status = IF ~runActive /\ k \in openTools /\ rows[k].status = "running"
                                  THEN "incomplete" ELSE rows[k].status
    BY <2>1, ShownFacts
  <2>3. \A i, j : Answers(j, i) <=> AnsweredBy(events, j, i)
    BY DEF Answers, AnsweredBy
  <2>4. ASSUME NEW k \in DOMAIN rows
        PROVE  shown[k].status = StatusOf(shown[k].seq)
    <3> DEFINE i == rows[k].seq
    <3>1. /\ i \in DOMAIN events /\ rows[k].status = Meaning(events, i)
          /\ k \in openTools <=> (events[i].type = "tool_call" /\ SameRun(events, i))
      BY DEF MeanInv, RowMeans
    <3>2. StatusOf(i) = IF events[i].type # "tool_call" THEN "none"
                        ELSE IF Answered(events, i) THEN "done"
                        ELSE IF RunIsLive(events) /\ SameRun(events, i) THEN "running"
                        ELSE "incomplete"
      BY <2>3 DEF StatusOf, Answered, SameRun
    <3>3. shown[k].seq = i
      BY <2>2
    <3>4. shown[k].status = StatusOf(i)
      BY <2>1, <2>2, <3>1, <3>2 DEF Meaning
    <3>5. QED
      BY <3>3, <3>4
  <2>5. {shown[k].seq : k \in DOMAIN shown} = Shown
    BY <2>2 DEF MeanInv, ShownIn, Shown
  <2>6. \A k, m \in DOMAIN shown : k < m => shown[k].seq < shown[m].seq
    BY <2>2 DEF MeanInv
  <2>7. QED
    BY <2>2, <2>4, <2>5, <2>6 DEF RowsMeanEvents
<1>2. QED
  BY MeanInit, MeanStep, <1>1, PTL DEF Spec

----------------------------------------------------------------------------
(* Induction on numbers *)

\* A set of numbers that is not empty has a least one.
LEMMA LeastOf ==
  ASSUME NEW B \in SUBSET Nat, B # {}
  PROVE  \E m \in B : \A k \in B : m <= k
<1>1. PICK m \in B : \A k \in B : <<k, m>> \notin OpToRel(<, Nat)
  BY NatLessThanWellFounded, WFMin
<1>2. \A k \in B : ~(k < m)
  BY <1>1 DEF OpToRel
<1>3. QED
  BY <1>2

\* A bounded one has a greatest.
LEMMA GreatestOf ==
  ASSUME NEW b \in Nat, NEW B \in SUBSET (0..b), B # {}
  PROVE  \E m \in B : \A k \in B : k <= m
<1> DEFINE C == {c \in Nat : b - c \in B}
<1>1. C # {}
  <2>1. PICK x \in B : TRUE
    OBVIOUS
  <2>2. b - x \in C
    BY <2>1
  <2>3. QED
    BY <2>2
<1>2. PICK c \in C : \A d \in C : c <= d
  BY <1>1, LeastOf
<1>3. ASSUME NEW k \in B PROVE k <= b - c
  <2>1. b - k \in C
    OBVIOUS
  <2>2. c <= b - k
    BY <1>2, <2>1
  <2>3. QED
    BY <2>2
<1>4. QED
  BY <1>3

\* A loop of n steps has its states, each of S and the step of the one before.
IsLoop(f, n, S, base, step) ==
  f \in [0..n -> S] /\ f[0] = base /\ \A k \in 1..n : f[k] = step[k][f[k - 1]]
LEMMA LoopStates ==
  ASSUME NEW n \in Nat, NEW S, NEW base \in S, NEW step \in [1..n -> [S -> S]]
  PROVE  \E f : IsLoop(f, n, S, base, step)
<1> DEFINE Upto(m) == \E f : IsLoop(f, m, S, base, step)
           Bad == {m \in 0..n : ~Upto(m)}
<1>1. SUFFICES ASSUME Bad # {} PROVE FALSE
  <2>1. n \in 0..n
    OBVIOUS
  <2>2. QED
    BY <2>1
<1>2. PICK m \in Bad : \A k \in Bad : m <= k
  <2>1. Bad \in SUBSET Nat
    OBVIOUS
  <2>2. QED
    BY <1>1, <2>1, LeastOf
<1>3. m # 0
  <2> DEFINE f == [k \in 0..0 |-> base]
  <2>1. IsLoop(f, 0, S, base, step)
    BY DEF IsLoop
  <2>2. Upto(0)
    BY <2>1
  <2>3. QED
    BY <1>2, <2>2
<1>4. m - 1 \in 0..n /\ m \in 1..n
  BY <1>2, <1>3
<1>5. Upto(m - 1)
  <2> HIDE DEF Upto
  <2>1. ~(m <= m - 1)
    BY <1>4
  <2>2. QED
    BY <1>2, <1>4, <2>1
<1>6. PICK f \in [0..m - 1 -> S] :
        f[0] = base /\ \A k \in 1..m - 1 : f[k] = step[k][f[k - 1]]
  BY <1>5 DEF IsLoop
<1> DEFINE g == [k \in 0..m |-> IF k = m THEN step[m][f[m - 1]] ELSE f[k]]
<1>7. step[m][f[m - 1]] \in S
  BY <1>4
<1>8. g \in [0..m -> S]
  BY <1>4, <1>7
<1>9. g[0] = base /\ \A k \in 1..m : g[k] = step[k][g[k - 1]]
  BY <1>4, <1>6
<1>10. Upto(m)
  BY <1>8, <1>9 DEF IsLoop
<1>11. QED
  BY <1>2, <1>10
----------------------------------------------------------------------------
(* The feed and its footers *)

RowCount == Len(RenderState.rows)

\* The rows of the feed have one of four kinds.
LEMMA KindFacts ==
  ASSUME TypeOK
  PROVE  /\ RowCount \in Nat /\ DOMAIN RenderState.rows = 1..RowCount
         /\ \A i \in 1..RowCount : KindOf(i) \in {"user", "assistant", "error", "tool"}
<1>1. Flushed \in Seq(RowSet) /\ rows \in Seq(RowSet)
  BY FlushFacts DEF TypeOK
<1>2. RenderState.rows \in Seq(RowSet)
  BY <1>1 DEF RenderState
<1>3. ASSUME NEW i \in 1..RowCount
      PROVE  KindOf(i) \in {"user", "assistant", "error", "tool"}
  <2>1. RenderState.rows[i].kind \in Texts \cup {"tool"}
    <3>1. RenderState.rows[i] \in RowSet
      BY <1>2 DEF RowCount
    <3>2. QED
      BY <3>1 DEF RowSet
  <2>2. QED
    BY <2>1 DEF KindOf, Kinds, Texts
<1>4. QED
  BY <1>2, <1>3 DEF RowCount

\* s is the feed of the first k rows: where its items begin, and that they fold the rest.
IsFeed(s, k) ==
  /\ s \in Seq(1..k)
  /\ k > 0 => s # <<>> /\ s[1] = 1
  /\ \A m \in 1..Len(s) : ~Folds(s[m])
  /\ \A m \in 1..Len(s) - 1 : s[m] < s[m + 1] /\ \A j \in s[m] + 1..s[m + 1] - 1 : Folds(j)
  /\ s # <<>> => \A j \in s[Len(s)] + 1..k : Folds(j)

LEMMA FeedStep ==
  ASSUME NEW k \in Nat, k > 0, NEW s, IsFeed(s, k - 1)
  PROVE  IsFeed(IF Folds(k) THEN s ELSE Append(s, k), k)
<1>1. s \in Seq(1..k - 1) /\ s \in Seq(1..k) /\ Len(s) \in Nat
  <2>1. s \in Seq(1..k - 1)
    BY DEF IsFeed
  <2>2. QED
    BY <2>1
<1>2. \A m \in 1..Len(s) : s[m] \in 1..k - 1
  BY <1>1
<1>3. CASE Folds(k)
  <2>1. k > 1
    BY <1>3 DEF Folds
  <2>2. s # <<>> /\ s[1] = 1
    BY <2>1 DEF IsFeed
  <2>3. \A j \in s[Len(s)] + 1..k : Folds(j)
    <3>1. \A j \in s[Len(s)] + 1..k - 1 : Folds(j)
      BY <2>2 DEF IsFeed
    <3>2. s[Len(s)] \in 1..k - 1
      BY <1>1, <1>2, <2>2
    <3>3. QED
      BY <1>3, <3>1, <3>2
  <2>4. IsFeed(s, k)
    BY <1>1, <2>2, <2>3 DEF IsFeed
  <2>5. QED
    BY <1>3, <2>4
<1>4. CASE ~Folds(k)
  <2> DEFINE t == Append(s, k)
  <2>1. /\ t \in Seq(1..k) /\ Len(t) = Len(s) + 1 /\ t # <<>>
        /\ t[Len(s) + 1] = k /\ \A m \in 1..Len(s) : t[m] = s[m]
    BY <1>1
  <2>2. t[1] = 1
    <3>1. CASE k = 1
      <4>1. s = <<>>
        BY <1>1, <1>2, <3>1
      <4>2. QED
        BY <2>1, <3>1, <4>1
    <3>2. CASE k > 1
      <4>1. s # <<>> /\ s[1] = 1
        BY <3>2 DEF IsFeed
      <4>2. 1 \in 1..Len(s)
        BY <1>1, <4>1
      <4>3. QED
        BY <2>1, <4>1, <4>2
    <3>3. QED
      BY <3>1, <3>2
  <2>3. \A m \in 1..Len(t) : ~Folds(t[m])
    <3> SUFFICES ASSUME NEW m \in 1..Len(t) PROVE ~Folds(t[m])
      OBVIOUS
    <3>1. CASE m = Len(s) + 1
      BY <1>4, <2>1, <3>1
    <3>2. CASE m \in 1..Len(s)
      BY <2>1, <3>2 DEF IsFeed
    <3>3. QED
      BY <1>1, <2>1, <3>1, <3>2
  <2>4. ASSUME NEW m \in 1..Len(t) - 1
        PROVE  t[m] < t[m + 1] /\ \A j \in t[m] + 1..t[m + 1] - 1 : Folds(j)
    <3>1. CASE m = Len(s)
      <4>1. s # <<>> /\ t[m] = s[Len(s)] /\ t[m + 1] = k
        BY <1>1, <2>1, <3>1
      <4>2. s[Len(s)] \in 1..k - 1 /\ \A j \in s[Len(s)] + 1..k - 1 : Folds(j)
        BY <1>1, <1>2, <4>1 DEF IsFeed
      <4>3. QED
        BY <4>1, <4>2
    <3>2. CASE m \in 1..Len(s) - 1
      <4>1. t[m] = s[m] /\ t[m + 1] = s[m + 1]
        BY <1>1, <2>1, <3>2
      <4>2. QED
        BY <3>2, <4>1 DEF IsFeed
    <3>3. QED
      BY <1>1, <2>1, <3>1, <3>2
  <2>5. \A j \in t[Len(t)] + 1..k : Folds(j)
    BY <2>1
  <2> HIDE DEF t
  <2>6. IsFeed(t, k)
    BY <2>1, <2>2, <2>3, <2>4, <2>5 DEF IsFeed
  <2>7. QED
    BY <1>4, <2>6 DEF t
<1>5. QED
  BY <1>3, <1>4

\* The loop of groupRows makes the feed.
LEMMA FeedFacts ==
  ASSUME TypeOK
  PROVE  IsFeed(Feed, RowCount)
<1> DEFINE N == RowCount
           S == Seq(Nat)
           step == [k \in 1..N |-> [s \in S |-> IF Folds(k) THEN s ELSE Append(s, k)]]
           Loop(f) == f = [k \in 0..N |-> IF k = 0 THEN <<>>
                                          ELSE IF Folds(k) THEN f[k - 1] ELSE Append(f[k - 1], k)]
           items == CHOOSE f : Loop(f)
<1>1. N \in Nat
  BY KindFacts
<1>2. step \in [1..N -> [S -> S]]
  <2>1. \A k \in 1..N : \A s \in S : (IF Folds(k) THEN s ELSE Append(s, k)) \in S
    OBVIOUS
  <2>2. QED
    BY <2>1
<1>3. PICK f \in [0..N -> S] : f[0] = <<>> /\ \A k \in 1..N : f[k] = step[k][f[k - 1]]
  <2>1. <<>> \in S
    OBVIOUS
  <2> DEFINE base == <<>>
  <2> HIDE DEF step, S, N, base
  <2>2. base \in S
    BY <2>1 DEF base
  <2>3. \E f : IsLoop(f, N, S, base, step)
    BY <1>1, <1>2, <2>2, LoopStates
  <2>4. QED
    BY <2>3 DEF base, IsLoop
<1>4. Loop(f)
  <2>1. ASSUME NEW k \in 1..N
        PROVE  f[k] = IF Folds(k) THEN f[k - 1] ELSE Append(f[k - 1], k)
    <3>1. k - 1 \in 0..N /\ k \in 1..N
      BY <1>1
    <3>2. f[k - 1] \in S
      BY <3>1
    <3>3. f[k] = step[k][f[k - 1]]
      <4> HIDE DEF step
      <4>1. QED
        BY <1>3
    <3>4. step[k] = [s \in S |-> IF Folds(k) THEN s ELSE Append(s, k)]
      OBVIOUS
    <3>5. QED
      <4> HIDE DEF step, S
      <4>1. QED
        BY <3>2, <3>3, <3>4
  <2>2. ASSUME NEW k \in 0..N
        PROVE  f[k] = IF k = 0 THEN <<>>
                      ELSE IF Folds(k) THEN f[k - 1] ELSE Append(f[k - 1], k)
    <3>1. CASE k = 0
      BY <1>3, <3>1
    <3>2. CASE k \in 1..N
      <4>1. f[k] = IF Folds(k) THEN f[k - 1] ELSE Append(f[k - 1], k)
        BY <2>1, <3>2
      <4>2. k # 0
        BY <1>1, <3>2
      <4>3. QED
        BY <4>1, <4>2
    <3>3. QED
      BY <1>1, <3>1, <3>2
  <2>3. QED
    BY <1>3, <2>2
<1>5. Loop(items)
  <2> HIDE DEF Loop
  <2>1. QED
    BY <1>4
<1>6. Feed = items[N]
  BY DEF Feed, RowCount
<1> DEFINE Bad == {k \in 0..N : ~IsFeed(items[k], k)}
<1> HIDE DEF items
<1>7. Bad = {}
  <2>1. SUFFICES ASSUME Bad # {} PROVE FALSE
    OBVIOUS
  <2>2. PICK k \in Bad : \A m \in Bad : k <= m
    <3>1. Bad \in SUBSET Nat
      OBVIOUS
    <3>2. QED
      BY <2>1, <3>1, LeastOf
  <2>3. CASE k = 0
    <3>1. items[0] = <<>>
      BY <1>1, <1>5
    <3>2. IsFeed(<<>>, 0)
      BY DEF IsFeed
    <3>3. QED
      BY <2>2, <2>3, <3>1, <3>2
  <2>4. CASE k > 0
    <3>1. k - 1 \in 0..N /\ k \in 1..N /\ k \in Nat
      BY <1>1, <2>2, <2>4
    <3>2. IsFeed(items[k - 1], k - 1)
      BY <2>2, <3>1
    <3>3. items[k] = IF Folds(k) THEN items[k - 1] ELSE Append(items[k - 1], k)
      <4>1. k \in 0..N /\ k # 0
        BY <3>1
      <4>2. QED
        BY <1>5, <4>1
    <3>4. IsFeed(items[k], k)
      BY <2>4, <3>1, <3>2, <3>3, FeedStep
    <3>5. QED
      BY <2>2, <3>4
  <2>5. QED
    BY <1>1, <2>2, <2>3, <2>4
<1>8. QED
  <2>1. N \in 0..N
    BY <1>1
  <2>2. QED
    BY <1>6, <1>7, <2>1

\* r is the last reply of row i's exchange up to row i, or 0 if there is none.
LastReply(i, r) ==
  \/ /\ r = 0
     /\ \A j \in 1..i : KindOf(j) = "assistant" => \E k \in j + 1..i : KindOf(k) = "user"
  \/ /\ r \in 1..i /\ KindOf(r) = "assistant"
     /\ \A j \in r + 1..i : KindOf(j) # "user" /\ KindOf(j) # "assistant"

LEMMA LastReplyFacts ==
  ASSUME NEW i \in Nat
  PROVE  /\ \A r : LastReply(i, r) /\ LastReply(i, 0) => r = 0
         /\ i > 0 /\ KindOf(i) = "user" => LastReply(i, 0)
         /\ i > 0 /\ KindOf(i) = "assistant" => LastReply(i, i)
         /\ \A r, a : /\ a \in 0..i /\ LastReply(a, r)
                      /\ \A j \in a + 1..i : KindOf(j) # "user" /\ KindOf(j) # "assistant"
                      => LastReply(i, r)
<1>1. ASSUME NEW r, LastReply(i, r), LastReply(i, 0), r # 0 PROVE FALSE
  <2>1. r \in 1..i /\ KindOf(r) = "assistant" /\ \A j \in r + 1..i : KindOf(j) # "user"
    BY <1>1 DEF LastReply
  <2>2. \E k \in r + 1..i : KindOf(k) = "user"
    BY <1>1, <2>1 DEF LastReply
  <2>3. QED
    BY <2>1, <2>2
<1>2. ASSUME i > 0, KindOf(i) = "user" PROVE LastReply(i, 0)
  <2>1. ASSUME NEW j \in 1..i, KindOf(j) = "assistant"
        PROVE  \E k \in j + 1..i : KindOf(k) = "user"
    <3>1. j # i
      BY <1>2, <2>1
    <3>2. i \in j + 1..i
      BY <3>1
    <3>3. QED
      BY <1>2, <3>2
  <2>2. QED
    BY <2>1 DEF LastReply
<1>3. ASSUME i > 0, KindOf(i) = "assistant" PROVE LastReply(i, i)
  <2>1. i \in 1..i /\ \A j \in i + 1..i : FALSE
    BY <1>3
  <2>2. QED
    BY <1>3, <2>1 DEF LastReply
<1>4. ASSUME NEW r, NEW a, a \in 0..i, LastReply(a, r),
             \A j \in a + 1..i : KindOf(j) # "user" /\ KindOf(j) # "assistant"
      PROVE  LastReply(i, r)
  <2>1. CASE /\ r = 0
             /\ \A j \in 1..a : KindOf(j) = "assistant" => \E k \in j + 1..a : KindOf(k) = "user"
    <3>1. ASSUME NEW j \in 1..i, KindOf(j) = "assistant"
          PROVE  \E k \in j + 1..i : KindOf(k) = "user"
      <4>1. j \in 1..a
        BY <1>4, <3>1
      <4>2. PICK k \in j + 1..a : KindOf(k) = "user"
        BY <2>1, <3>1, <4>1
      <4>3. k \in j + 1..i
        BY <1>4, <4>2
      <4>4. QED
        BY <4>2, <4>3
    <3>2. QED
      BY <2>1, <3>1 DEF LastReply
  <2>2. CASE /\ r \in 1..a /\ KindOf(r) = "assistant"
             /\ \A j \in r + 1..a : KindOf(j) # "user" /\ KindOf(j) # "assistant"
    <3>1. r \in 1..i
      BY <1>4, <2>2
    <3>2. ASSUME NEW j \in r + 1..i PROVE KindOf(j) # "user" /\ KindOf(j) # "assistant"
      <4>1. j \in r + 1..a \/ j \in a + 1..i
        BY <1>4, <2>2
      <4>2. QED
        BY <1>4, <2>2, <4>1
    <3>3. QED
      BY <2>2, <3>1, <3>2 DEF LastReply
  <2>3. QED
    BY <1>4, <2>1, <2>2 DEF LastReply
<1>5. QED
  BY <1>1, <1>2, <1>3, <1>4

\* The footers while the feed is walked: under the ids of items, the rows they copy.
Notes == UNION {[D -> Nat] : D \in SUBSET {ItemId(i) : i \in 1..RowCount}}
WalkState == [at : Notes, reply : Nat, anchor : 0..RowCount]

\* Marking sets the anchor's id, unless there is nothing to copy or to hang it on.
LEMMA MarkedFacts ==
  ASSUME NEW f \in WalkState
  PROVE  /\ Marked(f) \in Notes
         /\ f.reply = 0 \/ f.anchor = 0 => Marked(f) = f.at
         /\ f.reply # 0 /\ f.anchor # 0 =>
              /\ DOMAIN Marked(f) = DOMAIN f.at \cup {ItemId(f.anchor)}
              /\ Marked(f)[ItemId(f.anchor)] = f.reply
              /\ \A id \in DOMAIN f.at : id # ItemId(f.anchor) => Marked(f)[id] = f.at[id]
<1> DEFINE Ids == {ItemId(i) : i \in 1..RowCount}
           key == ItemId(f.anchor)
<1>1. f.at \in Notes /\ f.reply \in Nat /\ f.anchor \in 0..RowCount
  BY DEF WalkState
<1>2. PICK D \in SUBSET Ids : f.at \in [D -> Nat]
  BY <1>1 DEF Notes
<1>3. DOMAIN f.at = D /\ \A id \in D : f.at[id] \in Nat
  BY <1>2
<1>4. CASE f.reply = 0 \/ f.anchor = 0
  BY <1>1, <1>4 DEF Marked
<1>5. CASE f.reply # 0 /\ f.anchor # 0
  <2>1. Marked(f) = [id \in D \cup {key} |-> IF id = key THEN f.reply ELSE f.at[id]]
    BY <1>3, <1>5 DEF Marked
  <2>2. D \cup {key} \in SUBSET Ids
    <3>1. f.anchor \in 1..RowCount
      BY <1>1, <1>5
    <3>2. QED
      BY <3>1
  <2> HIDE DEF key, Ids
  <2>3. Marked(f) \in [D \cup {key} -> Nat]
    BY <1>1, <1>3, <2>1
  <2>4. Marked(f) \in Notes
    BY <2>2, <2>3 DEF Notes, Ids
  <2>5. DOMAIN Marked(f) = D \cup {key} /\ Marked(f)[key] = f.reply
    BY <2>1
  <2>6. \A id \in D : id # key => Marked(f)[id] = f.at[id]
    BY <2>1
  <2>7. QED
    BY <1>3, <1>5, <2>4, <2>5, <2>6 DEF key
<1>6. QED
  BY <1>4, <1>5

\* Flushing and walking keep the walk's type.
LEMMA WalkType ==
  ASSUME NEW f \in WalkState, NEW i \in 1..RowCount
  PROVE  /\ Flush(f) = [at |-> Marked(f), reply |-> 0, anchor |-> f.anchor]
         /\ Walk(f, i) =
              IF KindOf(i) = "user" THEN [at |-> Marked(f), reply |-> 0, anchor |-> i]
              ELSE IF KindOf(i) = "assistant" THEN [at |-> f.at, reply |-> i, anchor |-> i]
              ELSE [at |-> f.at, reply |-> f.reply, anchor |-> i]
         /\ Walk(f, i) \in WalkState
<1>1. /\ f = [at |-> f.at, reply |-> f.reply, anchor |-> f.anchor]
      /\ f.at \in Notes /\ f.reply \in Nat /\ Marked(f) \in Notes
  BY MarkedFacts DEF WalkState
<1>2. Flush(f) = [at |-> Marked(f), reply |-> 0, anchor |-> f.anchor]
  BY DEF Flush
<1>3. Walk(f, i) =
        IF KindOf(i) = "user" THEN [at |-> Marked(f), reply |-> 0, anchor |-> i]
        ELSE IF KindOf(i) = "assistant" THEN [at |-> f.at, reply |-> i, anchor |-> i]
        ELSE [at |-> f.at, reply |-> f.reply, anchor |-> i]
  <2>1. Anchored(f, i) = [at |-> f.at, reply |-> f.reply, anchor |-> i]
    BY <1>1 DEF Anchored, WalkState
  <2>2. Anchored(Flush(f), i) = [at |-> Marked(f), reply |-> 0, anchor |-> i]
    BY <1>2 DEF Anchored
  <2>3. [Anchored(f, i) EXCEPT !.reply = i] = [at |-> f.at, reply |-> i, anchor |-> i]
    BY <2>1
  <2>4. QED
    BY <2>1, <2>2, <2>3 DEF Walk
<1>4. Walk(f, i) \in WalkState
  BY <1>1, <1>3 DEF WalkState
<1>5. QED
  BY <1>2, <1>3, <1>4

\* Row i is the last item of an exchange that has a reply and that item m of the feed
\* came after.
Ended(i, m) ==
  \E q \in 1..m - 1 : i = Feed[q] /\ KindOf(Feed[q + 1]) = "user" /\ ~LastReply(i, 0)

\* What the walk knows after m items.
WalkMeans(w, m) ==
  /\ w \in WalkState
  /\ m = 0 => w = NoFooters
  /\ m > 0 => w.anchor = Feed[m] /\ LastReply(Feed[m], w.reply)
  /\ \A i : Ended(i, m) => ItemId(i) \in DOMAIN w.at
  /\ \A id \in DOMAIN w.at : \E i : Ended(i, m) /\ ItemId(i) = id /\ LastReply(i, w.at[id])

LEMMA WalkStep ==
  ASSUME TypeOK, NEW m \in 1..Len(Feed), NEW w, WalkMeans(w, m - 1)
  PROVE  WalkMeans(Walk(w, Feed[m]), m)
<1> DEFINE b == Feed[m]
           a == Feed[m - 1]
           v == Walk(w, b)
<1>1. RowCount \in Nat /\ Feed \in Seq(1..RowCount) /\ Len(Feed) \in Nat /\ b \in 1..RowCount
  <2>1. Feed \in Seq(1..RowCount)
    BY FeedFacts DEF IsFeed
  <2>2. QED
    BY <2>1, KindFacts
<1>2. w \in WalkState /\ w.at \in Notes /\ w.reply \in Nat
  BY DEF WalkMeans, WalkState
<1>3. /\ v = IF KindOf(b) = "user" THEN [at |-> Marked(w), reply |-> 0, anchor |-> b]
             ELSE IF KindOf(b) = "assistant" THEN [at |-> w.at, reply |-> b, anchor |-> b]
             ELSE [at |-> w.at, reply |-> w.reply, anchor |-> b]
      /\ v \in WalkState
  BY <1>1, <1>2, WalkType
<1>4. v.anchor = b
  BY <1>3
<1>5. CASE m = 1
  <2>1. b = 1
    BY <1>1, <1>5, FeedFacts DEF IsFeed
  <2>2. w = NoFooters
    BY <1>5 DEF WalkMeans
  <2>3. w.reply = 0 /\ w.at = <<>> /\ Marked(w) = <<>>
    BY <2>2 DEF NoFooters, Marked
  <2>4. v.at = <<>>
    BY <1>3, <2>3
  <2>5. LastReply(b, v.reply)
    <3>1. CASE KindOf(1) = "assistant"
      BY <1>3, <2>1, <3>1, LastReplyFacts
    <3>2. CASE KindOf(1) # "assistant"
      <4>1. v.reply = 0
        BY <1>3, <2>1, <2>3, <3>2
      <4>2. LastReply(1, 0)
        BY <3>2 DEF LastReply
      <4>3. QED
        BY <2>1, <4>1, <4>2
    <3>3. QED
      BY <3>1, <3>2
  <2>6. \A i : ~Ended(i, m)
    BY <1>5 DEF Ended
  <2>7. DOMAIN v.at = {}
    BY <2>4
  <2> HIDE DEF v
  <2>8. WalkMeans(v, m)
    BY <1>3, <1>4, <1>5, <2>5, <2>6, <2>7 DEF WalkMeans
  <2>9. QED
    BY <2>8 DEF v, b
<1>6. CASE m > 1
  <2>1. m - 1 \in 1..Len(Feed) - 1 /\ a \in 1..RowCount
    BY <1>1, <1>6
  <2>2. a < b /\ \A j \in a + 1..b - 1 : Folds(j)
    BY <2>1, FeedFacts DEF IsFeed
  <2>3. \A j \in a + 1..b - 1 : KindOf(j) # "user" /\ KindOf(j) # "assistant"
    BY <2>2 DEF Folds
  <2>4. w.anchor = a /\ LastReply(a, w.reply)
    BY <1>6 DEF WalkMeans
  <2>5. \A i : Ended(i, m) <=>
                 (Ended(i, m - 1) \/ (i = a /\ KindOf(b) = "user" /\ ~LastReply(a, 0)))
    <3>1. 1..m - 1 = 1..m - 2 \cup {m - 1} /\ (m - 1) + 1 = m /\ (m - 1) - 1 = m - 2
      BY <1>6
    <3>2. ASSUME NEW i
          PROVE  Ended(i, m) <=>
                   (Ended(i, m - 1) \/ (i = a /\ KindOf(b) = "user" /\ ~LastReply(a, 0)))
      BY <3>1 DEF Ended
    <3>3. QED
      BY <3>2
  <2>6. LastReply(b, v.reply)
    <3>1. CASE KindOf(b) = "user"
      BY <1>1, <1>3, <3>1, LastReplyFacts
    <3>2. CASE KindOf(b) = "assistant"
      BY <1>1, <1>3, <3>2, LastReplyFacts
    <3>3. CASE KindOf(b) # "user" /\ KindOf(b) # "assistant"
      <4>1. v.reply = w.reply
        BY <1>3, <3>3
      <4>2. \A j \in a + 1..b : KindOf(j) # "user" /\ KindOf(j) # "assistant"
        <5>1. ASSUME NEW j \in a + 1..b PROVE KindOf(j) # "user" /\ KindOf(j) # "assistant"
          <6>1. j = b \/ j \in a + 1..b - 1
            BY <1>1, <2>1
          <6>2. QED
            BY <2>3, <3>3, <6>1
        <5>2. QED
          BY <5>1
      <4>3. a \in 0..b /\ b \in Nat
        BY <1>1, <2>1, <2>2
      <4>4. LastReply(b, w.reply)
        BY <2>4, <4>2, <4>3, LastReplyFacts
      <4>5. QED
        BY <4>1, <4>4
    <3>4. QED
      BY <3>1, <3>2, <3>3
  <2>7. /\ \A i : Ended(i, m - 1) => ItemId(i) \in DOMAIN w.at
        /\ \A id \in DOMAIN w.at :
             \E i : Ended(i, m - 1) /\ ItemId(i) = id /\ LastReply(i, w.at[id])
    BY DEF WalkMeans
  <2>8. /\ \A i : Ended(i, m) => ItemId(i) \in DOMAIN v.at
        /\ \A id \in DOMAIN v.at : \E i : Ended(i, m) /\ ItemId(i) = id /\ LastReply(i, v.at[id])
    <3>1. CASE KindOf(b) # "user"
      <4>1. v.at = w.at
        BY <1>3, <3>1
      <4> HIDE DEF v, a, b
      <4>2. QED
        BY <2>5, <2>7, <3>1, <4>1
    <3>2. CASE KindOf(b) = "user" /\ w.reply = 0
      <4>1. v.at = w.at
        BY <1>2, <1>3, <3>2, MarkedFacts
      <4>2. LastReply(a, 0)
        BY <2>4, <3>2
      <4> HIDE DEF v, a, b
      <4>3. QED
        BY <2>5, <2>7, <4>1, <4>2
    <3>3. CASE KindOf(b) = "user" /\ w.reply # 0
      <4>1. ~LastReply(a, 0)
        <5>1. a \in Nat
          BY <2>1
        <5>2. QED
          BY <2>4, <3>3, <5>1, LastReplyFacts
      <4>2. w.anchor # 0
        BY <2>1, <2>4
      <4>3. /\ DOMAIN v.at = DOMAIN w.at \cup {ItemId(a)} /\ v.at[ItemId(a)] = w.reply
            /\ \A id \in DOMAIN w.at : id # ItemId(a) => v.at[id] = w.at[id]
        <5>1. v.at = Marked(w)
          BY <1>3, <3>3
        <5> HIDE DEF v, a
        <5>2. QED
          BY <1>2, <2>4, <3>3, <4>2, <5>1, MarkedFacts
      <4> HIDE DEF v, a, b
      <4>4. \A i : Ended(i, m) => ItemId(i) \in DOMAIN v.at
        BY <2>5, <2>7, <4>3
      <4>5. ASSUME NEW id \in DOMAIN v.at
            PROVE  \E i : Ended(i, m) /\ ItemId(i) = id /\ LastReply(i, v.at[id])
        <5>1. CASE id = ItemId(a)
          BY <2>4, <2>5, <3>3, <4>1, <4>3, <5>1
        <5>2. CASE id # ItemId(a)
          BY <2>5, <2>7, <4>3, <5>2
        <5>3. QED
          BY <5>1, <5>2
      <4>6. QED
        BY <4>4, <4>5
    <3>4. QED
      BY <3>1, <3>2, <3>3
  <2> HIDE DEF v
  <2>9. WalkMeans(v, m)
    BY <1>3, <1>4, <1>6, <2>6, <2>8 DEF WalkMeans
  <2>10. QED
    BY <2>9 DEF v, b
<1>7. QED
  BY <1>5, <1>6

\* The loop of turnFooters, after its last item.
LEMMA WalkFacts ==
  ASSUME TypeOK
  PROVE  \E w : /\ WalkMeans(w, Len(Feed))
               /\ TurnFooters = IF Active THEN w.at ELSE Flush(w).at
<1> DEFINE L == Len(Feed)
           S == WalkState
           step == [m \in 1..L |-> [w \in S |-> Walk(w, Feed[m])]]
           Loop(f) == f = [m \in 0..L |-> IF m = 0 THEN NoFooters ELSE Walk(f[m - 1], Feed[m])]
           walked == CHOOSE f : Loop(f)
<1>1. L \in Nat /\ RowCount \in Nat /\ \A m \in 1..L : Feed[m] \in 1..RowCount
  <2>1. Feed \in Seq(1..RowCount) /\ RowCount \in Nat
    BY FeedFacts, KindFacts DEF IsFeed
  <2>2. QED
    BY <2>1
<1>2. step \in [1..L -> [S -> S]]
  <2>1. ASSUME NEW m \in 1..L, NEW w \in S PROVE Walk(w, Feed[m]) \in S
    BY <1>1, WalkType
  <2>2. QED
    BY <2>1
<1>3. NoFooters \in S
  <2>1. <<>> \in [{} -> Nat] /\ {} \in SUBSET {ItemId(i) : i \in 1..RowCount}
    OBVIOUS
  <2>2. <<>> \in Notes
    BY <2>1 DEF Notes
  <2>3. QED
    BY <1>1, <2>2 DEF NoFooters, WalkState
<1>4. PICK f \in [0..L -> S] : f[0] = NoFooters /\ \A m \in 1..L : f[m] = step[m][f[m - 1]]
  <2> HIDE DEF step, S, L
  <2>1. \E f : IsLoop(f, L, S, NoFooters, step)
    BY <1>1, <1>2, <1>3, LoopStates
  <2>2. QED
    BY <2>1 DEF IsLoop
<1>5. Loop(f)
  <2>1. ASSUME NEW m \in 1..L PROVE f[m] = Walk(f[m - 1], Feed[m])
    <3>1. m - 1 \in 0..L /\ m \in 1..L
      BY <1>1
    <3>2. f[m - 1] \in S
      BY <3>1
    <3>3. f[m] = step[m][f[m - 1]]
      <4> HIDE DEF step
      <4>1. QED
        BY <1>4
    <3>4. step[m] = [w \in S |-> Walk(w, Feed[m])]
      OBVIOUS
    <3>5. QED
      <4> HIDE DEF step, S
      <4>1. QED
        BY <3>2, <3>3, <3>4
  <2>2. ASSUME NEW m \in 0..L
        PROVE  f[m] = IF m = 0 THEN NoFooters ELSE Walk(f[m - 1], Feed[m])
    <3>1. CASE m = 0
      BY <1>4, <3>1
    <3>2. CASE m \in 1..L
      <4>1. f[m] = Walk(f[m - 1], Feed[m])
        BY <2>1, <3>2
      <4>2. m # 0
        BY <1>1, <3>2
      <4>3. QED
        BY <4>1, <4>2
    <3>3. QED
      BY <1>1, <3>1, <3>2
  <2>3. QED
    BY <1>4, <2>2
<1>6. Loop(walked)
  <2> HIDE DEF Loop
  <2>1. QED
    BY <1>5
<1>7. TurnFooters = IF Active THEN walked[L].at ELSE Flush(walked[L]).at
  BY DEF TurnFooters
<1> DEFINE Bad == {m \in 0..L : ~WalkMeans(walked[m], m)}
<1> HIDE DEF walked
<1>8. Bad = {}
  <2>1. SUFFICES ASSUME Bad # {} PROVE FALSE
    OBVIOUS
  <2>2. PICK m \in Bad : \A k \in Bad : m <= k
    <3>1. Bad \in SUBSET Nat
      OBVIOUS
    <3>2. QED
      BY <2>1, <3>1, LeastOf
  <2>3. CASE m = 0
    <3>1. walked[0] = NoFooters
      BY <1>1, <1>6
    <3>2. WalkMeans(NoFooters, 0)
      <4>1. DOMAIN NoFooters.at = {}
        BY DEF NoFooters
      <4>2. \A i : ~Ended(i, 0)
        BY DEF Ended
      <4>3. QED
        BY <1>3, <4>1, <4>2 DEF WalkMeans
    <3>3. QED
      BY <2>2, <2>3, <3>1, <3>2
  <2>4. CASE m > 0
    <3>1. m - 1 \in 0..L /\ m \in 1..L
      BY <1>1, <2>2, <2>4
    <3>2. WalkMeans(walked[m - 1], m - 1)
      <4>1. ~(m <= m - 1)
        BY <3>1
      <4>2. QED
        BY <2>2, <3>1, <4>1
    <3>3. walked[m] = Walk(walked[m - 1], Feed[m])
      <4>1. m \in 0..L /\ m # 0
        BY <3>1
      <4>2. QED
        BY <1>6, <4>1
    <3>4. WalkMeans(walked[m], m)
      BY <3>1, <3>2, <3>3, WalkStep
    <3>5. QED
      BY <2>2, <3>4
  <2>5. QED
    BY <1>1, <2>2, <2>3, <2>4
<1>9. WalkMeans(walked[L], L)
  <2>1. L \in 0..L
    BY <1>1
  <2>2. QED
    BY <1>8, <2>1
<1>10. QED
  BY <1>7, <1>9

\* Row i begins the last item of an exchange that is settled.
Closing(i) ==
  /\ i \in 1..RowCount /\ ~Folds(i)
  /\ \E e \in i..RowCount :
       /\ \A k \in i + 1..e : Folds(k)
       /\ IF e = RowCount THEN ~Active ELSE KindOf(e + 1) = "user"

\* The footers, by the rows alone.
LEMMA FooterFacts ==
  ASSUME TypeOK
  PROVE  /\ \A i : Closing(i) /\ ~LastReply(i, 0) => ItemId(i) \in DOMAIN TurnFooters
         /\ \A id \in DOMAIN TurnFooters :
              \E i : /\ Closing(i) /\ ~LastReply(i, 0)
                     /\ ItemId(i) = id /\ LastReply(i, TurnFooters[id])
<1> DEFINE L == Len(Feed)
           N == RowCount
<1>1. PICK w : WalkMeans(w, L) /\ TurnFooters = IF Active THEN w.at ELSE Flush(w).at
  BY WalkFacts
<1>2. /\ N \in Nat /\ Feed \in Seq(1..N) /\ L \in Nat /\ \A m \in 1..L : Feed[m] \in 1..N
      /\ IsFeed(Feed, N) /\ (N > 0 => L > 0)
  <2>1. N \in Nat /\ IsFeed(Feed, N)
    BY KindFacts, FeedFacts
  <2>2. Feed \in Seq(1..N) /\ (N > 0 => Feed # <<>>)
    BY <2>1 DEF IsFeed
  <2>3. QED
    BY <2>1, <2>2
<1>3. Active \in BOOLEAN
  BY DEF Active
<1> DEFINE Trails(i) == L > 0 /\ i = Feed[L] /\ ~Active /\ ~LastReply(i, 0)
<1>4. /\ \A i : Ended(i, L) \/ Trails(i) => ItemId(i) \in DOMAIN TurnFooters
      /\ \A id \in DOMAIN TurnFooters :
           \E i : /\ Ended(i, L) \/ Trails(i)
                  /\ ItemId(i) = id /\ LastReply(i, TurnFooters[id])
  <2>1. /\ \A i : Ended(i, L) => ItemId(i) \in DOMAIN w.at
        /\ \A id \in DOMAIN w.at : \E i : Ended(i, L) /\ ItemId(i) = id /\ LastReply(i, w.at[id])
        /\ w \in WalkState
    BY <1>1 DEF WalkMeans
  <2>2. CASE Active
    <3>1. TurnFooters = w.at
      BY <1>1, <2>2
    <3>2. \A i : ~Trails(i)
      BY <2>2
    <3> HIDE DEF Trails, L
    <3>3. QED
      BY <2>1, <3>1, <3>2
  <2>3. CASE ~Active
    <3>1. TurnFooters = Marked(w)
      BY <1>1, <2>3 DEF Flush
    <3>2. CASE L = 0
      <4>1. w = NoFooters
        BY <1>1, <3>2 DEF WalkMeans
      <4>2. Marked(w) = w.at
        BY <4>1 DEF Marked, NoFooters
      <4>3. \A i : ~Trails(i)
        BY <3>2
      <4> HIDE DEF Trails, L
      <4>4. QED
        BY <2>1, <3>1, <4>2, <4>3
    <3>3. CASE L > 0
      <4>1. w.anchor = Feed[L] /\ LastReply(Feed[L], w.reply) /\ Feed[L] \in 1..N
        BY <1>1, <1>2, <3>3 DEF WalkMeans
      <4>2. CASE w.reply = 0
        <5>1. \A i : ~Trails(i)
          BY <4>1, <4>2
        <5>2. Marked(w) = w.at
          BY <2>1, <4>2, MarkedFacts
        <5> HIDE DEF Trails, L
        <5>3. QED
          BY <2>1, <3>1, <5>1, <5>2
      <4>3. CASE w.reply # 0
        <5>1. w.anchor # 0 /\ Feed[L] \in Nat
          BY <1>2, <4>1
        <5>2. ~LastReply(Feed[L], 0)
          BY <4>1, <4>3, <5>1, LastReplyFacts
        <5>3. \A i : Trails(i) <=> i = Feed[L]
          BY <2>3, <3>3, <5>2
        <5>4. /\ DOMAIN Marked(w) = DOMAIN w.at \cup {ItemId(Feed[L])}
              /\ Marked(w)[ItemId(Feed[L])] = w.reply
              /\ \A id \in DOMAIN w.at : id # ItemId(Feed[L]) => Marked(w)[id] = w.at[id]
          BY <2>1, <4>1, <4>3, <5>1, MarkedFacts
        <5> HIDE DEF Trails, L
        <5>5. \A i : Ended(i, L) \/ Trails(i) => ItemId(i) \in DOMAIN TurnFooters
          BY <2>1, <3>1, <5>3, <5>4
        <5>6. ASSUME NEW id \in DOMAIN TurnFooters
              PROVE  \E i : /\ Ended(i, L) \/ Trails(i)
                            /\ ItemId(i) = id /\ LastReply(i, TurnFooters[id])
          <6>1. CASE id = ItemId(Feed[L])
            BY <3>1, <4>1, <5>3, <5>4, <6>1
          <6>2. CASE id # ItemId(Feed[L])
            BY <2>1, <3>1, <5>4, <6>2
          <6>3. QED
            BY <6>1, <6>2
        <5>7. QED
          BY <5>5, <5>6
      <4>4. QED
        BY <4>2, <4>3
    <3>4. QED
      BY <1>2, <3>2, <3>3
  <2>4. QED
    BY <1>3, <2>2, <2>3
<1>5. ASSUME NEW i, Ended(i, L) \/ Trails(i)
      PROVE  Closing(i) /\ ~LastReply(i, 0)
  <2>1. CASE Ended(i, L)
    <3>1. PICK q \in 1..L - 1 : i = Feed[q] /\ KindOf(Feed[q + 1]) = "user" /\ ~LastReply(i, 0)
      BY <2>1 DEF Ended
    <3> DEFINE e == Feed[q + 1] - 1
    <3>2. q \in 1..L /\ q + 1 \in 1..L
      BY <1>2
    <3>3. Feed[q] \in 1..N /\ Feed[q + 1] \in 1..N
      BY <1>2, <3>2
    <3>4. Feed[q] < Feed[q + 1] /\ ~Folds(Feed[q]) /\ \A j \in Feed[q] + 1..Feed[q + 1] - 1 : Folds(j)
      BY <1>2, <3>2 DEF IsFeed
    <3>5. e \in i..N /\ e # N /\ e + 1 = Feed[q + 1]
      BY <1>2, <3>1, <3>3, <3>4
    <3>6. QED
      BY <3>1, <3>3, <3>4, <3>5 DEF Closing
  <2>2. CASE Trails(i)
    <3>1. /\ i \in 1..N /\ ~Folds(i) /\ \A j \in i + 1..N : Folds(j)
      BY <1>2, <2>2 DEF IsFeed
    <3>2. N \in i..N
      BY <1>2, <3>1
    <3>3. QED
      BY <2>2, <3>1, <3>2 DEF Closing
  <2>3. QED
    BY <1>5, <2>1, <2>2
<1>6. ASSUME NEW i, Closing(i), ~LastReply(i, 0)
      PROVE  Ended(i, L) \/ Trails(i)
  <2>1. PICK e \in i..N :
          /\ \A k \in i + 1..e : Folds(k)
          /\ IF e = N THEN ~Active ELSE KindOf(e + 1) = "user"
    BY <1>6 DEF Closing
  <2>2. i \in 1..N /\ ~Folds(i) /\ L > 0
    BY <1>2, <1>6 DEF Closing
  \* The last item that begins at row i or before.
  <2> DEFINE B == {q \in 1..L : Feed[q] <= i}
  <2>3. PICK q \in B : \A k \in B : k <= q
    <3>1. 1 \in B
      BY <1>2, <2>2 DEF IsFeed
    <3>2. B \in SUBSET (0..L)
      OBVIOUS
    <3> HIDE DEF B, L
    <3>3. QED
      BY <1>2, <3>1, <3>2, GreatestOf
  <2>4. q \in 1..L /\ Feed[q] <= i /\ Feed[q] \in 1..N
    BY <1>2, <2>3
  <2>5. CASE q = L
    <3>1. \A j \in Feed[L] + 1..N : Folds(j)
      BY <1>2, <2>2 DEF IsFeed
    <3>2. i = Feed[L]
      BY <1>2, <2>2, <2>4, <2>5, <3>1
    <3>3. e = N
      <4>1. SUFFICES ASSUME e # N PROVE FALSE
        OBVIOUS
      <4>2. e + 1 \in Feed[L] + 1..N
        BY <1>2, <2>1, <2>2, <3>2, <4>1
      <4>3. QED
        BY <2>1, <3>1, <4>1, <4>2 DEF Folds
    <3>4. QED
      BY <1>6, <2>1, <2>2, <3>2, <3>3
  <2>6. CASE q # L
    <3>1. q \in 1..L - 1 /\ q + 1 \in 1..L
      BY <1>2, <2>4, <2>6
    <3>2. ~(q + 1 <= q)
      BY <3>1
    <3>3. q + 1 \notin B
      BY <2>3, <3>2
    <3>4. Feed[q + 1] > i /\ Feed[q + 1] \in 1..N
      BY <1>2, <2>2, <3>1, <3>3
    <3>5. ~Folds(Feed[q + 1]) /\ \A j \in Feed[q] + 1..Feed[q + 1] - 1 : Folds(j)
      BY <1>2, <3>1 DEF IsFeed
    <3>6. i = Feed[q]
      BY <2>2, <2>4, <3>4, <3>5
    <3>7. e < Feed[q + 1]
      BY <1>2, <2>1, <2>2, <3>4, <3>5
    <3>8. e # N
      BY <1>2, <3>4, <3>7
    <3>9. e + 1 = Feed[q + 1]
      <4>1. SUFFICES ASSUME e + 1 # Feed[q + 1] PROVE FALSE
        OBVIOUS
      <4>2. e + 1 \in Feed[q] + 1..Feed[q + 1] - 1
        <5>1. /\ e \in Int /\ Feed[q] \in Int /\ Feed[q + 1] \in Int
              /\ Feed[q] <= e /\ e < Feed[q + 1] /\ e + 1 # Feed[q + 1]
          BY <1>2, <2>1, <2>2, <2>4, <3>4, <3>6, <3>7, <4>1
        <5>2. QED
          BY <5>1
      <4>3. QED
        BY <2>1, <3>5, <3>8, <4>2 DEF Folds
    <3>10. Ended(i, L)
      BY <1>6, <2>1, <3>1, <3>6, <3>8, <3>9 DEF Ended
    <3>11. QED
      BY <3>10
  <2>7. QED
    BY <2>5, <2>6
<1> HIDE DEF Trails, L
<1>7. \A i : Ended(i, L) \/ Trails(i) <=> Closing(i) /\ ~LastReply(i, 0)
  BY <1>5, <1>6
<1>8. QED
  BY <1>4, <1>7

\* The items of the feed are the rows that fold into none.
LEMMA FeedItems == TypeOK => Items = {i \in 1..RowCount : ~Folds(i)}
<1> DEFINE L == Len(Feed)
           N == RowCount
<1> SUFFICES ASSUME TypeOK PROVE Items = {i \in 1..N : ~Folds(i)}
  OBVIOUS
<1>1. /\ N \in Nat /\ Feed \in Seq(1..N) /\ L \in Nat /\ DOMAIN Feed = 1..L
      /\ \A m \in 1..L : Feed[m] \in 1..N
      /\ IsFeed(Feed, N) /\ (N > 0 => L > 0)
  <2>1. N \in Nat /\ IsFeed(Feed, N)
    BY KindFacts, FeedFacts
  <2>2. Feed \in Seq(1..N) /\ (N > 0 => Feed # <<>>)
    BY <2>1 DEF IsFeed
  <2>3. QED
    BY <2>1, <2>2
<1>2. Items = {Feed[m] : m \in 1..L}
  BY <1>1 DEF Items, Range
<1>3. \A m \in 1..L : ~Folds(Feed[m])
  BY <1>1 DEF IsFeed
<1>4. ASSUME NEW i \in 1..N, ~Folds(i) PROVE \E m \in 1..L : i = Feed[m]
  <2> DEFINE B == {q \in 1..L : Feed[q] <= i}
  <2>1. L > 0
    BY <1>1, <1>4
  <2>2. PICK q \in B : \A k \in B : k <= q
    <3>1. 1 \in B
      BY <1>1, <1>4, <2>1 DEF IsFeed
    <3>2. B \in SUBSET (0..L)
      OBVIOUS
    <3> HIDE DEF B, L
    <3>3. QED
      BY <1>1, <3>1, <3>2, GreatestOf
  <2>3. q \in 1..L /\ Feed[q] <= i /\ Feed[q] \in 1..N
    BY <1>1, <2>2
  <2>4. CASE q = L
    <3>1. \A j \in Feed[L] + 1..N : Folds(j)
      BY <1>1, <2>1 DEF IsFeed
    <3>2. i = Feed[L]
      BY <1>1, <1>4, <2>3, <2>4, <3>1
    <3>3. QED
      BY <2>3, <2>4, <3>2
  <2>5. CASE q # L
    <3>1. q \in 1..L - 1 /\ q + 1 \in 1..L
      <4>1. L \in Nat /\ q \in 1..L /\ q # L
        BY <1>1, <2>3, <2>5
      <4> HIDE DEF L
      <4>2. QED
        BY <4>1
    <3>2. q + 1 \notin B
      <4>1. ~(q + 1 <= q)
        BY <3>1
      <4>2. QED
        BY <2>2, <4>1
    <3>3. Feed[q + 1] > i /\ Feed[q + 1] \in 1..N
      BY <1>1, <1>4, <3>1, <3>2
    <3>4. \A j \in Feed[q] + 1..Feed[q + 1] - 1 : Folds(j)
      BY <1>1, <3>1 DEF IsFeed
    <3>5. i = Feed[q]
      BY <1>4, <2>3, <3>3, <3>4
    <3>6. QED
      BY <2>3, <3>5
  <2>6. QED
    BY <2>4, <2>5
<1> HIDE DEF L, N
<1>5. QED
  BY <1>1, <1>2, <1>3, <1>4

\* The greatest of a set of numbers is the one that is not below another.
LEMMA MaxIs ==
  ASSUME NEW S \in SUBSET Int, NEW x \in S, \A y \in S : y <= x
  PROVE  Max(S) = x
<1>1. \A y \in S : x >= y
  OBVIOUS
<1>2. Max(S) \in S /\ \A y \in S : Max(S) >= y
  BY <1>1 DEF Max
<1>3. Max(S) \in Int /\ x \in Int
  BY <1>2
<1>4. Max(S) >= x /\ x >= Max(S)
  BY <1>1, <1>2
<1>5. QED
  BY <1>3, <1>4

LEMMA MinIs ==
  ASSUME NEW S \in SUBSET Int, NEW x \in S, \A y \in S : x <= y
  PROVE  Min(S) = x
<1>1. \A y \in S : x =< y
  OBVIOUS
<1>2. Min(S) \in S /\ \A y \in S : Min(S) =< y
  BY <1>1 DEF Min
<1>3. Min(S) \in Int /\ x \in Int
  BY <1>2
<1>4. Min(S) =< x /\ x =< Min(S)
  BY <1>1, <1>2
<1>5. QED
  BY <1>3, <1>4

\* An exchange is an interval, cut where a user's message is.
IsExchange(x, i, b, e) ==
  /\ b \in 1..i /\ e \in i..RowCount /\ x = b..e
  /\ b = 1 \/ KindOf(b) = "user"
  /\ \A k \in b + 1..e : KindOf(k) # "user"
  /\ e = RowCount \/ KindOf(e + 1) = "user"

LEMMA ExchangeFacts ==
  ASSUME TypeOK, NEW i \in DOMAIN RenderState.rows
  PROVE  \E b, e : IsExchange(Exchange(i), i, b, e)
<1> DEFINE N == RowCount
           Ends == {e \in i..N : \A k \in i + 1..e : KindOf(k) # "user"}
           Begins == {b \in 1..i : \A k \in b + 1..i : KindOf(k) # "user"}
<1>1. N \in Nat /\ DOMAIN RenderState.rows = 1..N /\ i \in 1..N
  BY KindFacts
<1>2. PICK e \in Ends : \A k \in Ends : k <= e
  <2>1. i \in Ends
    BY <1>1
  <2>2. Ends \in SUBSET (0..N)
    BY <1>1
  <2> HIDE DEF Ends, N
  <2>3. QED
    BY <1>1, <2>1, <2>2, GreatestOf
<1>3. PICK b \in Begins : \A k \in Begins : b <= k
  <2>1. i \in Begins
    BY <1>1
  <2>2. Begins \in SUBSET Nat
    BY <1>1
  <2> HIDE DEF Begins
  <2>3. QED
    BY <2>1, <2>2, LeastOf
<1>4. b \in 1..i /\ e \in i..N /\ \A k \in b + 1..e : KindOf(k) # "user"
  <2>1. ASSUME NEW k \in b + 1..e PROVE KindOf(k) # "user"
    <3>1. k \in b + 1..i \/ k \in i + 1..e
      BY <1>1, <1>2, <1>3
    <3>2. QED
      BY <1>2, <1>3, <3>1
  <2>2. QED
    BY <1>2, <1>3, <2>1
<1>5. e = N \/ KindOf(e + 1) = "user"
  <2>1. SUFFICES ASSUME e # N, KindOf(e + 1) # "user" PROVE FALSE
    OBVIOUS
  <2>2. ASSUME NEW k \in i + 1..e + 1 PROVE KindOf(k) # "user"
    <3>1. k = e + 1 \/ k \in i + 1..e
      BY <1>1, <1>4
    <3>2. QED
      BY <1>2, <2>1, <3>1
  <2>3. e + 1 \in Ends
    BY <1>1, <1>4, <2>1, <2>2
  <2>4. ~(e + 1 <= e)
    BY <1>1, <1>4
  <2>5. QED
    BY <1>2, <2>3, <2>4
<1>6. b = 1 \/ KindOf(b) = "user"
  <2>1. SUFFICES ASSUME b # 1, KindOf(b) # "user" PROVE FALSE
    OBVIOUS
  <2>2. ASSUME NEW k \in (b - 1) + 1..i PROVE KindOf(k) # "user"
    <3>1. k = b \/ k \in b + 1..i
      BY <1>1, <1>4
    <3>2. QED
      BY <1>3, <2>1, <3>1
  <2>3. b - 1 \in Begins
    BY <1>1, <1>4, <2>1, <2>2
  <2>4. ~(b <= b - 1)
    BY <1>1, <1>4
  <2>5. QED
    BY <1>3, <2>3, <2>4
<1>7. Exchange(i) = b..e
  <2>1. ASSUME NEW j \in 1..N PROVE SameExchange(i, j) <=> j \in b..e
    <3>1. CASE j <= i
      <4>1. Min({i, j}) = j /\ Max({i, j}) = i
        <5>1. {i, j} \in SUBSET Int /\ \A y \in {i, j} : j <= y /\ y <= i
          BY <1>1, <3>1
        <5>2. QED
          BY <5>1, MinIs, MaxIs
      <4>2. SameExchange(i, j) <=> \A k \in 1..N : (j < k /\ k <= i) => KindOf(k) # "user"
        BY <1>1, <4>1 DEF SameExchange
      <4>3. CASE j >= b
        BY <1>1, <1>4, <3>1, <4>2, <4>3
      <4>4. CASE j < b
        <5>1. b \in 1..N /\ j < b /\ b <= i /\ KindOf(b) = "user"
          BY <1>1, <1>4, <1>6, <4>4
        <5>2. QED
          BY <1>1, <1>4, <4>2, <4>4, <5>1
      <4>5. QED
        BY <1>1, <1>4, <4>3, <4>4
    <3>2. CASE j > i
      <4>1. Min({i, j}) = i /\ Max({i, j}) = j
        <5>1. {i, j} \in SUBSET Int /\ \A y \in {i, j} : i <= y /\ y <= j
          BY <1>1, <3>2
        <5>2. QED
          BY <5>1, MinIs, MaxIs
      <4>2. SameExchange(i, j) <=> \A k \in 1..N : (i < k /\ k <= j) => KindOf(k) # "user"
        BY <1>1, <4>1 DEF SameExchange
      <4>3. CASE j <= e
        BY <1>1, <1>4, <3>2, <4>2, <4>3
      <4>4. CASE j > e
        <5>1. e + 1 \in 1..N /\ i < e + 1 /\ e + 1 <= j /\ KindOf(e + 1) = "user"
          BY <1>1, <1>4, <1>5, <4>4
        <5>2. QED
          BY <1>1, <1>4, <4>2, <4>4, <5>1
      <4>5. QED
        BY <1>1, <1>4, <4>3, <4>4
    <3>3. QED
      BY <1>1, <3>1, <3>2
  <2>2. Exchange(i) = {j \in 1..N : j \in b..e}
    BY <1>1, <2>1 DEF Exchange
  <2>3. b..e \subseteq 1..N
    BY <1>1, <1>4
  <2>4. QED
    BY <2>2, <2>3
<1>8. IsExchange(Exchange(i), i, b, e)
  BY <1>4, <1>5, <1>6, <1>7 DEF IsExchange
<1>9. QED
  BY <1>8

\* Row a begins the last item of exchange x: it is where the exchange closes once it is
\* settled, and what came last before it is the exchange's last reply.
EndsWith(x, a) ==
  /\ a \in x /\ a \in 1..RowCount /\ ~Folds(a)
  /\ a = Max(x) \/ \A j \in a..Max(x) : KindOf(j) = "tool"
  /\ KindOf(a) = KindOf(Max(x)) /\ (RepliesOf(x) # {} => KindOf(a) # "user")
  /\ \A c \in x : Closing(c) => c = a /\ Settled(x)
  /\ Settled(x) => Closing(a)
  /\ LastReply(a, 0) <=> RepliesOf(x) = {}
  /\ \A r : LastReply(a, r) /\ RepliesOf(x) # {} => r = Max(RepliesOf(x))

LEMMA ExchangeEnd ==
  ASSUME TypeOK, NEW i \in DOMAIN RenderState.rows
  PROVE  i \in Exchange(i) /\ \E a : EndsWith(Exchange(i), a)
<1> DEFINE N == RowCount
           x == Exchange(i)
<1>1. /\ N \in Nat /\ DOMAIN RenderState.rows = 1..N /\ i \in 1..N
      /\ \A j \in 1..N : KindOf(j) \in {"user", "assistant", "error", "tool"}
  BY KindFacts
<1>2. PICK b, e : IsExchange(x, i, b, e)
  BY ExchangeFacts
<1>3. /\ b \in 1..i /\ e \in i..N /\ x = b..e /\ b..e \subseteq 1..N /\ b \in Nat /\ e \in Nat
      /\ b = 1 \/ KindOf(b) = "user"
      /\ \A k \in b + 1..e : KindOf(k) # "user"
      /\ e = N \/ KindOf(e + 1) = "user"
  BY <1>1, <1>2 DEF IsExchange
<1>4. Max(x) = e
  <2>1. b..e \in SUBSET Int /\ e \in b..e /\ \A y \in b..e : y <= e
    BY <1>1, <1>3
  <2>2. QED
    BY <1>3, <2>1, MaxIs
<1>5. Settled(x) <=> (~Active \/ e # N)
  BY <1>4 DEF Settled, RowCount
\* Where the last item of the exchange begins.
<1>6. PICK a \in b..e : ~Folds(a) /\ \A k \in a + 1..e : Folds(k)
  <2> DEFINE B == {k \in b..e : ~Folds(k)}
  <2>1. b \in B
    <3>1. ~Folds(b)
      BY <1>3 DEF Folds
    <3>2. QED
      BY <1>1, <1>3, <3>1
  <2>2. B \in SUBSET (0..e)
    BY <1>3
  <2>3. PICK a \in B : \A k \in B : k <= a
    <3> HIDE DEF B
    <3>1. QED
      BY <1>3, <2>1, <2>2, GreatestOf
  <2>4. ASSUME NEW k \in a + 1..e PROVE Folds(k)
    <3>1. k \in b..e /\ ~(k <= a)
      BY <1>3, <2>3
    <3>2. QED
      BY <2>3, <3>1
  <2>5. QED
    BY <2>3, <2>4
<1>7. \A k \in a + 1..e : KindOf(k) = "tool"
  BY <1>6 DEF Folds
<1>8. a = e \/ \A j \in a..e : KindOf(j) = "tool"
  <2>1. CASE a # e
    <3>1. a + 1 \in a + 1..e
      BY <1>3, <1>6, <2>1
    <3>2. KindOf(a) = "tool"
      BY <1>3, <1>6, <3>1 DEF Folds
    <3>3. \A j \in a..e : j = a \/ j \in a + 1..e
      BY <1>3, <1>6
    <3>4. QED
      BY <1>7, <3>2, <3>3
  <2>2. QED
    BY <2>1
\* The footer of the exchange is there, and only there.
<1>9. ASSUME NEW c \in x, Closing(c) PROVE c = a /\ Settled(x)
  <2>1. PICK f \in c..N : /\ \A k \in c + 1..f : Folds(k)
                         /\ IF f = N THEN ~Active ELSE KindOf(f + 1) = "user"
    BY <1>9 DEF Closing
  <2>2. c \in b..e /\ ~Folds(c)
    BY <1>3, <1>9 DEF Closing
  <2>3. f = e
    <3>1. CASE f < e
      <4>1. f + 1 \in b + 1..e /\ f # N
        BY <1>1, <1>3, <2>1, <2>2, <3>1
      <4>2. QED
        BY <1>3, <2>1, <4>1
    <3>2. CASE f > e
      <4>1. e + 1 \in c + 1..f /\ e # N
        BY <1>1, <1>3, <2>1, <2>2, <3>2
      <4>2. QED
        BY <1>3, <2>1, <4>1 DEF Folds
    <3>3. QED
      BY <1>1, <1>3, <2>1, <2>2, <3>1, <3>2
  <2>4. c = a
    <3>1. CASE c < a
      <4>1. a \in c + 1..f
        BY <1>3, <1>6, <2>2, <2>3, <3>1
      <4>2. QED
        BY <1>6, <2>1, <4>1
    <3>2. CASE c > a
      <4>1. c \in a + 1..e
        BY <1>3, <1>6, <2>2, <3>2
      <4>2. QED
        BY <1>6, <2>2, <4>1
    <3>3. QED
      BY <1>3, <1>6, <2>2, <3>1, <3>2
  <2>5. QED
    BY <1>5, <2>1, <2>3, <2>4
<1>10. Settled(x) => Closing(a)
  <2>1. SUFFICES ASSUME Settled(x) PROVE Closing(a)
    OBVIOUS
  <2>2. a \in 1..N /\ e \in a..N
    BY <1>1, <1>3, <1>6
  <2>3. IF e = N THEN ~Active ELSE KindOf(e + 1) = "user"
    BY <1>3, <1>5, <2>1
  <2>4. QED
    BY <1>6, <2>2, <2>3 DEF Closing
\* What it copies is the last reply of the exchange.
<1>11. RepliesOf(x) = {j \in b..e : KindOf(j) = "assistant"}
  BY <1>3 DEF RepliesOf
<1>12. LastReply(a, 0) <=> RepliesOf(x) = {}
  <2>1. ASSUME LastReply(a, 0), NEW j \in b..e, KindOf(j) = "assistant" PROVE FALSE
    <3>1. j <= a
      BY <1>3, <1>6, <1>7, <2>1
    <3>2. j \in 1..a /\ a \in Nat
      BY <1>3, <1>6, <2>1, <3>1
    <3>3. PICK k \in j + 1..a : KindOf(k) = "user"
      BY <2>1, <3>2 DEF LastReply
    <3>4. k \in b + 1..e
      BY <1>3, <1>6, <2>1, <3>3
    <3>5. QED
      BY <1>3, <3>3, <3>4
  <2>2. ASSUME RepliesOf(x) = {} PROVE LastReply(a, 0)
    <3>1. ASSUME NEW j \in 1..a, KindOf(j) = "assistant"
          PROVE  \E k \in j + 1..a : KindOf(k) = "user"
      <4>1. j < b
        BY <1>3, <1>6, <1>11, <2>2, <3>1
      <4>2. KindOf(b) = "user" /\ b \in j + 1..a
        BY <1>3, <1>6, <3>1, <4>1
      <4>3. QED
        BY <4>2
    <3>2. QED
      BY <3>1 DEF LastReply
  <2>3. QED
    BY <1>11, <2>1, <2>2
<1>13. ASSUME NEW r, LastReply(a, r), RepliesOf(x) # {} PROVE r = Max(RepliesOf(x))
  <2>1. /\ r \in 1..a /\ KindOf(r) = "assistant"
        /\ \A j \in r + 1..a : KindOf(j) # "user" /\ KindOf(j) # "assistant"
    BY <1>12, <1>13 DEF LastReply
  <2>2. r >= b
    <3>1. SUFFICES ASSUME r < b PROVE FALSE
      BY <1>3, <2>1
    <3>2. KindOf(b) = "user" /\ b \in r + 1..a
      BY <1>3, <1>6, <2>1, <3>1
    <3>3. QED
      BY <2>1, <3>2
  <2>3. r \in RepliesOf(x)
    BY <1>3, <1>6, <1>11, <2>1, <2>2
  <2>4. ASSUME NEW y \in RepliesOf(x) PROVE y <= r
    <3>1. y \in b..e /\ KindOf(y) = "assistant"
      BY <1>11
    <3>2. y <= a
      BY <1>3, <1>6, <1>7, <3>1
    <3>3. QED
      BY <1>3, <1>6, <2>1, <3>1, <3>2
  <2>5. RepliesOf(x) \in SUBSET Int
    BY <1>11
  <2>6. QED
    BY <2>3, <2>4, <2>5, MaxIs
<1>14. RepliesOf(x) # {} => KindOf(a) # "user"
  <2>1. SUFFICES ASSUME RepliesOf(x) # {}, KindOf(a) = "user" PROVE FALSE
    OBVIOUS
  <2>2. a = e
    BY <1>3, <1>6, <1>8, <2>1
  <2>3. e \notin b + 1..e
    BY <1>3, <2>1, <2>2
  <2>4. e = b
    BY <1>3, <2>3
  <2>5. QED
    BY <1>3, <1>11, <2>1, <2>2, <2>4
<1>15. KindOf(a) = KindOf(e) /\ a \in x /\ a \in 1..N /\ i \in x
  BY <1>1, <1>3, <1>6, <1>8
<1>16. EndsWith(x, a)
  <2> HIDE DEF x
  <2>1. QED
    BY <1>4, <1>6, <1>8, <1>9, <1>10, <1>12, <1>13, <1>14, <1>15 DEF EndsWith
<1>17. QED
  BY <1>15, <1>16

LEMMA ExchangesMarked ==
  ASSUME TypeOK, NEW i \in DOMAIN RenderState.rows, Unshared(Exchange(i))
  PROVE  MarkedRightly(Exchange(i))
<1> DEFINE x == Exchange(i)
           marks == ShownFooters \cap x
<1>1. PICK a : EndsWith(x, a)
  BY ExchangeEnd
<1>2. /\ \A c : Closing(c) /\ ~LastReply(c, 0) => ItemId(c) \in DOMAIN TurnFooters
      /\ \A id \in DOMAIN TurnFooters :
           \E c : /\ Closing(c) /\ ~LastReply(c, 0)
                  /\ ItemId(c) = id /\ LastReply(c, TurnFooters[id])
  BY FooterFacts
<1>3. \A c : Closing(c) => c \in Items
  BY FeedItems DEF Closing
<1>4. a \in Items
  BY <1>1, FeedItems DEF EndsWith
<1>5. \A c \in 1..RowCount : KindOf(c) \in {"user", "assistant", "error", "tool"}
  BY KindFacts
<1>6. \A c : c \in ShownFooters <=>
        (c \in Items /\ KindOf(c) \in {"assistant", "tool"} /\ ItemId(c) \in DOMAIN TurnFooters)
  BY DEF ShownFooters, RowFooters, GroupFooters
\* Within the exchange, an id is looked up by the item that set it.
<1>7. ASSUME NEW c \in Items \cap x, ItemId(c) \in DOMAIN TurnFooters
      PROVE  Closing(c) /\ ~LastReply(c, 0) /\ LastReply(c, TurnFooters[ItemId(c)])
  <2>1. PICK d : /\ Closing(d) /\ ~LastReply(d, 0)
                 /\ ItemId(d) = ItemId(c) /\ LastReply(d, TurnFooters[ItemId(c)])
    BY <1>2, <1>7
  <2>2. d = c
    <3>1. d \in Items
      BY <1>3, <2>1
    <3>2. QED
      BY <1>7, <2>1, <3>1 DEF Unshared
  <2>3. QED
    BY <2>1, <2>2
<1> HIDE DEF x
<1>8. CASE Settled(x) /\ RepliesOf(x) # {} /\ KindOf(Max(x)) # "error"
  <2>1. Closing(a) /\ ~LastReply(a, 0) /\ a \in x /\ a \in 1..RowCount
    BY <1>1, <1>8 DEF EndsWith
  <2>2. ItemId(a) \in DOMAIN TurnFooters
    BY <1>2, <2>1
  <2>3. KindOf(a) \in {"assistant", "tool"}
    <3>1. KindOf(a) # "user" /\ KindOf(a) # "error"
      BY <1>1, <1>8 DEF EndsWith
    <3>2. QED
      BY <1>5, <2>1, <3>1
  <2>4. a \in marks
    BY <1>4, <1>6, <2>1, <2>2, <2>3
  <2>5. \A c \in marks : c = a
    <3>1. \A c \in marks : Closing(c)
      BY <1>6, <1>7
    <3>2. QED
      BY <1>1, <3>1 DEF EndsWith
  <2>6. TurnFooters[ItemId(a)] = Max(RepliesOf(x))
    <3>1. LastReply(a, TurnFooters[ItemId(a)])
      BY <1>4, <1>7, <2>1, <2>2
    <3>2. QED
      BY <1>1, <1>8, <3>1 DEF EndsWith
  <2>7. marks = {a}
    BY <2>4, <2>5
  <2>8. a = Max(x) \/ \A j \in a..Max(x) : KindOf(j) = "tool"
    BY <1>1 DEF EndsWith
  <2>9. MarkedRightly(x)
    BY <1>8, <2>4, <2>6, <2>7, <2>8 DEF MarkedRightly
  <2>10. QED
    BY <2>9 DEF x
<1>9. CASE ~(Settled(x) /\ RepliesOf(x) # {} /\ KindOf(Max(x)) # "error")
  <2>1. marks = {}
    <3>1. SUFFICES ASSUME NEW c \in marks PROVE FALSE
      OBVIOUS
    <3>2. c \in x /\ Closing(c) /\ ~LastReply(c, 0) /\ KindOf(c) \in {"assistant", "tool"}
      BY <1>6, <1>7
    <3>3. c = a /\ Settled(x)
      BY <1>1, <3>2 DEF EndsWith
    <3>4. RepliesOf(x) # {} /\ KindOf(Max(x)) = KindOf(a)
      BY <1>1, <3>2, <3>3 DEF EndsWith
    <3>5. QED
      BY <1>9, <3>2, <3>3, <3>4
  <2>2. MarkedRightly(x)
    BY <1>9, <2>1 DEF MarkedRightly
  <2>3. QED
    BY <2>2 DEF x
<1>10. QED
  BY <1>8, <1>9

\* What a footer copies is the last reply of a settled exchange, whatever ids repeat.
LEMMA FootersCopyReplies ==
  ASSUME TypeOK, NEW i \in ShownFooters
  PROVE  \E j \in Items :
           /\ ItemId(j) = ItemId(i) /\ Settled(Exchange(j)) /\ RepliesOf(Exchange(j)) # {}
           /\ TurnFooters[ItemId(i)] = Max(RepliesOf(Exchange(j)))
<1>1. ItemId(i) \in DOMAIN TurnFooters
  BY DEF ShownFooters, RowFooters, GroupFooters
<1>2. PICK j : /\ Closing(j) /\ ~LastReply(j, 0)
               /\ ItemId(j) = ItemId(i) /\ LastReply(j, TurnFooters[ItemId(i)])
  BY <1>1, FooterFacts
<1>3. j \in 1..RowCount /\ ~Folds(j)
  BY <1>2 DEF Closing
<1>4. j \in Items /\ j \in DOMAIN RenderState.rows
  BY <1>3, FeedItems, KindFacts
<1>5. j \in Exchange(j) /\ \E a : EndsWith(Exchange(j), a)
  BY <1>4, ExchangeEnd
<1>6. PICK a : EndsWith(Exchange(j), a)
  BY <1>5
<1>7. j = a /\ Settled(Exchange(j))
  BY <1>2, <1>5, <1>6 DEF EndsWith
<1>8. RepliesOf(Exchange(j)) # {}
  BY <1>2, <1>6, <1>7 DEF EndsWith
<1>9. TurnFooters[ItemId(i)] = Max(RepliesOf(Exchange(j)))
  BY <1>2, <1>6, <1>7, <1>8 DEF EndsWith
<1>10. QED
  BY <1>2, <1>4, <1>7, <1>8, <1>9

LEMMA FootersMark == TypeOK => FootersMarkExchanges
BY ExchangesMarked, FootersCopyReplies DEF FootersMarkExchanges

\* For every session, each settled exchange that has a reply is marked once in the feed,
\* below everything it shows, with its last reply, and no other is marked: neither one
\* that runs or was never answered, nor one whose last row is an error.  Of exchanges that
\* share an item's id with another, a footer copies the last reply of a settled one.
THEOREM FeedMarksExchanges == Spec => []FootersMarkExchanges
<1>1. TypeOK => FootersMarkExchanges
  BY FootersMark
<1>2. QED
  BY RenderTypeCorrect, <1>1, PTL
=============================================================================
