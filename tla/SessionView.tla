---------------------------- MODULE SessionView ----------------------------
(***************************************************************************)
(* The session half of the web app's store (frontend/apps/web/src/store.ts *)
(* with lib/status.ts): which session is on screen, what of it is shown,   *)
(* which of its output counts as seen, and the requests in flight while    *)
(* the user moves on.  JavaScript runs from one await to the next in one   *)
(* piece: an action is such a piece, and every answer is an action of its  *)
(* own.  A session's log is its newest seq, as in Ledger; here a run       *)
(* commits two events, so the run is active while the seq is odd.          *)
(***************************************************************************)
EXTENDS Integers, FiniteSets

CONSTANTS
  Sessions,     \* session ids, unique across daemons
  Machines,     \* machine ids in the client's list at the start
  Home,         \* the machine each session lives on
  FirstOnes,    \* the sessions that exist at the start
  Slots,        \* bound: API calls in flight at once, 1..n
  None,         \* null
  MaxSeq,       \* bound: events of each session
  MaxRemovals,  \* bound: machines the user removes
  MaxUpsets     \* bound: sessions the user opens and streams that break, together

ASSUME HomeAssumption == Home \in [Sessions -> Machines] /\ FirstOnes \subseteq Sessions
ASSUME NoneAssumption == None \notin Sessions \cup Machines
ASSUME ViewBoundsAssumption == MaxSeq \in [Sessions -> Nat] /\ {MaxRemovals, MaxUpsets} \subseteq Nat

VARIABLES
  \* the daemons (external)
  life,      \* of each session: unborn, alive, gone
  seq,       \* each one's newest event
  \* useStore
  machines,  \* machines, as a set
  active,    \* activeMachineId; the view is the overview iff it is None
  current,   \* currentSessionId
  meta,      \* currentSessionMeta: the sessions any of its fields is of
  render,    \* renderBySession: the basedOnSeq stored, or Absent
  runActive,
  preview,   \* streamingText: the sessions whose deltas are in it
  seen,      \* seenSeq
  \* beside it
  saved,     \* localStorage: the seen marks
  stream,    \* the SSE subscriptions: off, connecting, open, live (a snapshot came), waiting
  gets,      \* the getSession calls in flight
  calls,     \* the other API calls in flight
  removing,  \* the machines whose removal is being saved
  \* observation
  looked,    \* the newest snapshot of a session its user was ever shown
  dropped,   \* the sessions whose deletion was answered
  upsets     \* bound

daemons == <<life, seq>>
screen == <<active, current, meta, runActive, preview>>
transcripts == <<render, looked, dropped>>
marks == <<seen, saved>>
known == <<machines, removing>>
vars == <<daemons, screen, transcripts, marks, stream, known, gets, calls, upsets>>

Absent == -1
Free == [op |-> "free"]
\* A call: what it asks, about which session, and whether the daemon did it.
Request(op, s) == [op |-> op, of |-> s, done |-> FALSE]

Alive(s) == life[s] = "alive"
Higher(a, b) == IF a >= b THEN a ELSE b
Odd(n) == n > 0 /\ n % 2 = 1
Running(s) == Odd(seq[s])
OnMachine(m) == {s \in Sessions : Home[s] = m}
\* apiFor finds the machine.
Known(s) == Home[s] \in machines

TypeOK ==
  /\ life \in [Sessions -> {"unborn", "alive", "gone"}] /\ \A s \in Sessions : seq[s] \in 0..MaxSeq[s]
  /\ machines \subseteq Machines /\ removing \subseteq Machines
  /\ active \in Machines \cup {None} /\ current \in Sessions \cup {None}
  /\ runActive \in BOOLEAN /\ UNION {meta, preview, gets, dropped} \subseteq Sessions
  /\ {seen, saved} \subseteq [Sessions -> Nat]
  /\ {render, looked} \subseteq [Sessions -> Nat \cup {Absent}]
  /\ stream \in [Sessions -> {"off", "connecting", "open", "live", "waiting"}]
  /\ \A k \in Slots : calls[k] = Free \/ calls[k].of \in Sessions

Unseen == [s \in Sessions |-> Absent]
NoStreams == [s \in Sessions |-> "off"]
NoCalls == [k \in Slots |-> Free]

\* init: the machine list was loaded, the first refreshes are sent.
Init ==
  /\ life = [s \in Sessions |-> IF s \in FirstOnes THEN "alive" ELSE "unborn"]
  /\ seq = [s \in Sessions |-> 0]
  /\ machines = Machines /\ removing = {}
  /\ active = None /\ current = None /\ meta = {} /\ runActive = FALSE /\ preview = {}
  /\ render = Unseen /\ gets = {}
  /\ stream = NoStreams /\ calls = NoCalls
  /\ seen = [s \in Sessions |-> 0] /\ saved = seen /\ looked = seen /\ dropped = {}
  /\ upsets = 0

\* The page is loaded anew: what is left are the machine list and the marks.
Reload ==
  /\ active' = None /\ stream' = NoStreams /\ current' = None /\ meta' = {}
  /\ runActive' = FALSE /\ preview' = {}
  /\ removing' = {}
  /\ render' = Unseen /\ gets' = {} /\ calls' = NoCalls
  /\ seen' = saved
  /\ UNCHANGED <<daemons, machines, looked, dropped, saved, upsets>>

----------------------------------------------------------------------------
(* Pieces of handlers *)

Upset == upsets < MaxUpsets /\ upsets' = upsets + 1
Idle(k) == calls[k] = Free /\ \A j \in Slots : j < k => calls[j] # Free
\* The user's handlers start a call in the first free slot.
Start(op, s) == \E k \in Slots : Idle(k) /\ calls' = [calls EXCEPT ![k] = Request(op, s)]
End(k) == calls' = [calls EXCEPT ![k] = Free]

\* stopStream: activeUnsubscribe is that of the open session.
Unsubscribed == [s \in Sessions |-> IF s = current THEN "off" ELSE stream[s]]

\* closeSession.
Close ==
  /\ stream' = Unsubscribed
  /\ current' = None /\ meta' = {}
  /\ runActive' = FALSE /\ preview' = {}

\* markSeen raises a mark and saves the marks; mutant: unsaved until another is raised.
MarkSeenUnsaved(s, n) ==
  /\ seen' = [seen EXCEPT ![s] = Higher(@, n)]
  /\ saved' = IF seen[s] >= n THEN saved ELSE seen
MarkSeen(s, n) ==
  /\ seen' = [seen EXCEPT ![s] = Higher(@, n)]
  /\ saved' = IF seen[s] >= n THEN saved ELSE seen'

\* openSession, on a machine that is still known.  What the lists show is Machines'
\* matter; here one may name a session that is gone by now, and give it any lastSeq
\* it ever had, or not name it yet.
Listed(s) == {Absent} \cup 0..seq[s]
Opening(s, cached) ==
  /\ gets' = gets \cup {s}
  /\ stream' = [Unsubscribed EXCEPT ![s] = "connecting"]
  /\ active' = Home[s] /\ current' = s /\ meta' = {}
  /\ preview' = {}
  /\ IF cached = Absent THEN UNCHANGED marks ELSE MarkSeen(s, cached)
  /\ UNCHANGED runActive

----------------------------------------------------------------------------
(* What the user does *)

\* A session row in the overview or a machine's column is clicked.
OpenSession(s) ==
  /\ life[s] # "unborn" /\ Known(s) /\ Upset
  /\ \E cached \in 0..seq[s] : Opening(s, cached)
  /\ UNCHANGED <<daemons, transcripts, known, calls>>

OpenOverview ==
  /\ Close
  /\ active' = None
  /\ UNCHANGED <<daemons, transcripts, marks, known, gets, calls, upsets>>

\* The user opens a machine, or adding one ends with that; it may be removed by then.
OpenMachine(m) ==
  /\ IF active # m THEN Close
     ELSE UNCHANGED <<stream, current, meta, runActive, preview>>
  /\ active' = m
  /\ UNCHANGED <<daemons, transcripts, marks, known, gets, calls, upsets>>

\* removeMachine up to the save it awaits, and from there.
RemoveMachine(m) ==
  /\ m \in machines /\ Cardinality(Machines \ machines) < MaxRemovals
  /\ machines' = machines \ {m}
  /\ removing' = removing \cup {m}
  /\ UNCHANGED <<daemons, screen, transcripts, marks, stream, gets, calls, upsets>>

RemovalSaved(m) ==
  /\ m \in removing
  /\ removing' = removing \ {m}
  /\ IF current \in OnMachine(m) THEN Close
     ELSE UNCHANGED <<stream, current, meta, runActive, preview>>
  /\ active' = IF active = m THEN None ELSE active
  /\ UNCHANGED <<daemons, transcripts, marks, machines, gets, calls, upsets>>

\* renameSession, deleteSession and createSession up to the call they await.
RenameSession(s) == life[s] # "unborn" /\ Known(s) /\ Start("rename", s)
DeleteSession(s) == life[s] # "unborn" /\ Known(s) /\ Start("delete", s)
\* The daemon picks the new id.
CreateSession(s) == life[s] = "unborn" /\ Known(s) /\ Start("create", s)
\* sendMessage and interrupt, on the open session; the composer offers the one
\* while no run is shown and the other while one is.
SendMessage == current # None /\ Known(current) /\ ~runActive /\ Start("send", current)
Interrupt == current # None /\ Known(current) /\ runActive /\ Start("interrupt", current)

Ask ==
  /\ \/ \E s \in Sessions : RenameSession(s) \/ DeleteSession(s) \/ CreateSession(s)
     \/ SendMessage \/ Interrupt
  /\ UNCHANGED <<daemons, screen, transcripts, marks, stream, known, gets, upsets>>

----------------------------------------------------------------------------
(* The calls *)

\* The daemon executes a call (external); deleting an unknown session succeeds.
Accepts(op, s) ==
  CASE op = "create" -> life[s] = "unborn"
    [] op = "send" -> Alive(s) /\ ~Running(s) /\ seq[s] < MaxSeq[s]
    [] op = "delete" -> TRUE
    [] OTHER -> Alive(s)

\* A send starts a run; an interrupt ends the one that is active.
Commits(op, s) ==
  /\ Accepts(op, s) /\ seq[s] < MaxSeq[s]
  /\ op = "send" \/ (op = "interrupt" /\ Running(s))

Handle(k) ==
  LET c == calls[k] IN
  /\ c # Free /\ ~c.done /\ Accepts(c.op, c.of)
  /\ calls' = [calls EXCEPT ![k].done = TRUE]
  /\ life' = [life EXCEPT ![c.of] = CASE c.op = "create" -> "alive"
                                       [] c.op = "delete" -> "gone"
                                       [] OTHER -> @]
  /\ seq' = [seq EXCEPT ![c.of] = IF Commits(c.op, c.of) THEN @ + 1 ELSE @]
  /\ UNCHANGED <<screen, transcripts, marks, stream, known, gets, upsets>>

\* The daemon refuses, or the request or its answer is lost: every handler's catch
\* sets the error banner and nothing else.
Failed(k) ==
  /\ calls[k] # Free /\ End(k)
  /\ UNCHANGED <<daemons, screen, transcripts, marks, stream, known, gets, upsets>>

Answered(k, op) == calls[k] # Free /\ calls[k].op = op /\ calls[k].done

\* The fields the header is given of session s, when the guard lets them in.
ShowMeta(m) ==
  /\ meta' = m
  /\ UNCHANGED <<daemons, active, current, runActive, preview, transcripts, marks, stream>>

\* getSession answers or fails; mutant: it is shown whatever is open by now.
GotUnguarded(s) ==
  /\ s \in gets /\ gets' = gets \ {s}
  /\ ShowMeta(IF Alive(s) /\ current # None THEN {s} ELSE meta)
  /\ UNCHANGED <<known, calls, upsets>>
Got(s) ==
  /\ s \in gets /\ gets' = gets \ {s}
  /\ \/ Alive(s) /\ ShowMeta(IF current = s THEN {s} ELSE meta)
     \/ ShowMeta(meta)
  /\ UNCHANGED <<known, calls, upsets>>

\* What a rename or a send patches into the record on screen, if there is one.
Patched(s) == IF current = s /\ meta # {} THEN meta \cup {s} ELSE meta

\* An interrupt was accepted, or a send, which may have named a model.
Done(k) ==
  /\ End(k)
  /\ \/ Answered(k, "send") /\ ShowMeta(Patched(calls[k].of))
     \/ (Answered(k, "send") \/ Answered(k, "interrupt")) /\ ShowMeta(meta)
  /\ UNCHANGED <<known, gets, upsets>>

\* A rename was accepted and the refresh it awaits has answered or failed.
Renamed(k) ==
  LET s == calls[k].of IN
  /\ Answered(k, "rename") /\ End(k)
  /\ ShowMeta(Patched(s))
  /\ UNCHANGED <<known, gets, upsets>>

\* Mutant: a session that is deleted stays open.
DeletedStaysOpen(k) ==
  LET s == calls[k].of IN
  /\ Answered(k, "delete") /\ End(k)
  /\ render' = [render EXCEPT ![s] = Absent]
  /\ dropped' = dropped \cup {s}
  /\ seen' = [seen EXCEPT ![s] = 0] /\ saved' = seen'
  /\ UNCHANGED <<daemons, screen, stream, looked, known, gets, upsets>>

\* deleteSession's answer: the session leaves the screen, the transcripts and the
\* marks, and a refresh starts, until which it stays listed.
Deleted(k) ==
  LET s == calls[k].of IN
  /\ Answered(k, "delete") /\ End(k)
  /\ IF current = s THEN Close ELSE UNCHANGED <<stream, current, meta, runActive, preview>>
  /\ render' = [render EXCEPT ![s] = Absent]
  /\ dropped' = dropped \cup {s}
  /\ seen' = [seen EXCEPT ![s] = 0] /\ saved' = seen'
  /\ UNCHANGED <<daemons, active, looked, known, gets, upsets>>

\* createSession's answer; mutant: openSession does not look the machine up.
CreatedUnchecked(k) ==
  /\ Answered(k, "create") /\ End(k)
  /\ UNCHANGED <<daemons, transcripts, known, upsets>>
  /\ \E cached \in Listed(calls[k].of) : Opening(calls[k].of, cached)

\* createSession's answer: once the machine is refreshed the session is opened,
\* wherever the user is by then, unless the machine is gone.
Created(k) ==
  LET s == calls[k].of IN
  /\ Answered(k, "create") /\ End(k)
  /\ UNCHANGED <<daemons, transcripts, known, upsets>>
  /\ IF Known(s) THEN \E cached \in Listed(s) : Opening(s, cached) ELSE UNCHANGED <<screen, marks, stream, gets>>

----------------------------------------------------------------------------
(* The open session's stream *)

\* The daemon commits an event of its own or of another client's (external).
Commit(s) ==
  /\ Alive(s) /\ seq[s] < MaxSeq[s]
  /\ seq' = [seq EXCEPT ![s] = @ + 1]
  /\ UNCHANGED <<life, screen, transcripts, marks, stream, known, gets, calls, upsets>>

StreamOnly(s, v) ==
  /\ stream' = [stream EXCEPT ![s] = v]
  /\ UNCHANGED <<daemons, active, current, meta, runActive, preview, transcripts, marks, known,
                 gets, calls>>

\* The connection opens; its first snapshot is still to come.
StreamOpens(s) ==
  /\ stream[s] = "connecting" /\ Alive(s)
  /\ StreamOnly(s, "open") /\ UNCHANGED upsets

\* A connection is refused, for a session that is gone every time, or breaks.
StreamFails(s) ==
  /\ stream[s] \in {"connecting", "open", "live"}
  /\ \/ stream[s] = "connecting" /\ ~Alive(s) /\ UNCHANGED upsets
     \/ Upset
  /\ StreamOnly(s, "waiting")

\* The reconnect timer.
StreamRetries(s) ==
  /\ stream[s] = "waiting"
  /\ StreamOnly(s, "connecting") /\ UNCHANGED upsets

\* The daemon's reconnect frame: a new connection, without a word to the user.
StreamResyncs(s) ==
  /\ stream[s] \in {"open", "live"}
  /\ Upset
  /\ StreamOnly(s, "connecting")

\* onRender of a snapshot: newer than the last on this connection, and not older than
\* one an earlier connection brought; mutant: the preview outlives the snapshot.
OnRenderKeepingPreview(s, n) ==
  /\ stream[s] \in {"open", "live"} /\ n \in Higher(render[s], 0)..seq[s]
  /\ stream[s] = "live" => n > render[s]
  /\ stream' = [stream EXCEPT ![s] = "live"]
  /\ IF current # s THEN UNCHANGED <<transcripts, marks, runActive>>
     ELSE /\ render' = [render EXCEPT ![s] = n]
          /\ looked' = [looked EXCEPT ![s] = Higher(@, n)] /\ dropped' = dropped
          /\ runActive' = Odd(n)
          /\ MarkSeen(s, n)
  /\ UNCHANGED <<daemons, active, current, meta, preview, known, gets, calls, upsets>>

OnRender(s, n) ==
  /\ stream[s] \in {"open", "live"} /\ n \in Higher(render[s], 0)..seq[s]
  /\ stream[s] = "live" => n > render[s]
  /\ stream' = [stream EXCEPT ![s] = "live"]
  /\ IF current # s THEN UNCHANGED <<transcripts, marks, runActive, preview>>
     ELSE /\ render' = [render EXCEPT ![s] = n]
          /\ looked' = [looked EXCEPT ![s] = Higher(@, n)] /\ dropped' = dropped
          /\ runActive' = Odd(n) /\ preview' = {}
          /\ MarkSeen(s, n)
  /\ UNCHANGED <<daemons, active, current, meta, known, gets, calls, upsets>>

\* onDelta, while the run it belongs to is the last thing received.
OnDelta(s) ==
  /\ stream[s] = "live" /\ Odd(render[s])
  /\ preview' = IF current = s THEN preview \cup {s} ELSE preview
  /\ UNCHANGED <<daemons, active, current, meta, runActive, transcripts, marks, stream, known,
                 gets, calls, upsets>>

Streaming(s) == StreamOpens(s) \/ StreamRetries(s) \/ \E n \in 0..MaxSeq[s] : OnRender(s, n)

Next ==
  \/ \E s \in Sessions : OpenSession(s) \/ Got(s) \/ Commit(s) \/ OnDelta(s) \/ Streaming(s)
                         \/ StreamFails(s) \/ StreamResyncs(s)
  \/ \E m \in Machines : OpenMachine(m) \/ RemoveMachine(m) \/ RemovalSaved(m)
  \/ \E k \in Slots : Handle(k) \/ Failed(k) \/ Done(k) \/ Renamed(k)
                      \/ Deleted(k) \/ Created(k)
  \/ Ask \/ OpenOverview \/ Reload

\* The browser reconnects and the daemon serves the streams it accepted; nothing is
\* asked of the user, nor of any other call.
Spec == Init /\ [][Next]_vars /\ \A s \in Sessions : WF_vars(Streaming(s))

----------------------------------------------------------------------------
(* Properties *)

\* lib/status.ts, of a session listed with a lastSeq and no run.
SessionStatus(s, lastSeq) == IF lastSeq > seen[s] THEN "attention" ELSE "idle"

\* Whatever is in flight and however the user got here, header, preview, view and
\* the one live stream are those of the session that is open.
ShownIsOpenSession ==
  /\ meta \cup preview \subseteq {current}
  /\ \A s \in Sessions : stream[s] # "off" => s = current
  /\ current # None => active = Home[current] /\ stream[current] # "off"

\* A session is never flagged for output its user was already shown, in this life of
\* the page or an earlier one (one tab; see the README for two), unless the user
\* deleted it: its mark goes with the answer (store.ts:496-502), and while a refresh
\* still lists it, it is flagged again for all it ever said.
NothingSeenIsAttention ==
  \A s \in Sessions \ dropped : \A lastSeq \in 0..looked[s] : SessionStatus(s, lastSeq) # "attention"

\* What was shown of a session the user deleted does not come back: no snapshot that
\* was on its way, and no other opening of it while it is still listed, stores one.
DeletedIsForgotten == \A s \in dropped : render[s] = Absent

\* A session stays open only while its machine is known, or its removal is being saved.
OpenSessionHasMachine ==
  current # None => Known(current) \/ Home[current] \in removing

\* A session that is left open and goes on existing ends up shown as it is: the
\* newest snapshot, its run state and no stale preview.
CatchesUp ==
  \A s \in Sessions :
    <>[](current = s /\ Alive(s)) =>
      <>[](render[s] = seq[s] /\ runActive = Running(s) /\ (Running(s) \/ preview = {}))
=============================================================================
