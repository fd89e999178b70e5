------------------------- MODULE SessionViewProofs -------------------------
(***************************************************************************)
(* What is on screen is the open session's, for any sessions, machines and *)
(* calls in flight.  One invariant carries the four properties: at most    *)
(* the open session is subscribed to, its machine is listed or leaving,    *)
(* the marks on disk are the marks in memory, at least what was shown, and *)
(* of a deleted session nothing is kept and nothing streams.               *)
(***************************************************************************)
EXTENDS SessionView, TLAPS

Ops == {"rename", "delete", "create", "send", "interrupt"}
CallSet == [op : Ops, of : Sessions, done : BOOLEAN]

\* The daemons' logs, the snapshots kept and the calls in flight have their types.
Logs == seq \in [Sessions -> Nat] /\ render \in [Sessions -> Nat \cup {Absent}]
CallsTyped == calls \in [Slots -> {Free} \cup CallSet] /\ gets \subseteq Sessions

MarksAgree ==
  /\ seen \in [Sessions -> Nat] /\ looked \in [Sessions -> Nat] /\ saved = seen
  /\ \A s \in Sessions \ dropped : looked[s] <= seen[s]

\* The daemon deletes a session before its client hears of it, and for good.
Forgotten ==
  /\ life \in [Sessions -> {"unborn", "alive", "gone"}] /\ dropped \subseteq Sessions
  /\ \A k \in Slots : Answered(k, "delete") => life[calls[k].of] = "gone"
  /\ \A s \in dropped : life[s] = "gone" /\ render[s] = Absent /\ stream[s] \notin {"open", "live"}

StreamStates == {"off", "connecting", "open", "live", "waiting"}
OneOpen ==
  /\ current \in Sessions \cup {None} /\ stream \in [Sessions -> StreamStates]
  /\ ShownIsOpenSession /\ OpenSessionHasMachine

IInv == Logs /\ CallsTyped /\ MarksAgree /\ Forgotten /\ OneOpen

LEMMA ViewInit == Init => IInv
<1> SUFFICES ASSUME Init PROVE IInv
  OBVIOUS
<1>1. Logs /\ CallsTyped /\ MarksAgree
  BY DEF Init, Logs, CallsTyped, MarksAgree, Unseen, NoCalls
<1>2. OneOpen
  BY DEF Init, OneOpen, ShownIsOpenSession, OpenSessionHasMachine, NoStreams, StreamStates
<1>3. Forgotten
  BY DEF Init, Forgotten, NoCalls, Answered
<1>4. QED
  BY <1>1, <1>2, <1>3 DEF IInv

\* Only the daemons write the logs, and only snapshots and deletions touch what is kept.
LEMMA LogsStep ==
  ASSUME IInv, [Next]_vars PROVE Logs'
<1> USE DEF IInv, Logs, daemons, transcripts, screen
<1>1. ASSUME NEW k \in Slots, Handle(k) PROVE Logs'
  <2>1. /\ render' = render /\ calls[k] # Free
        /\ seq' = [seq EXCEPT ![calls[k].of] = IF Commits(calls[k].op, calls[k].of) THEN @ + 1 ELSE @]
    BY <1>1 DEF Handle
  <2>2. calls[k].of \in Sessions
    BY <2>1 DEF CallsTyped, CallSet
  <2>3. QED
    BY <2>1, <2>2
<1>2. ASSUME NEW s \in Sessions, Commit(s) PROVE Logs'
  BY <1>2 DEF Commit
<1>3. ASSUME NEW k \in Slots, Deleted(k) PROVE Logs'
  BY <1>3 DEF Deleted, Absent
<1>4. ASSUME NEW s \in Sessions, NEW n \in 0..MaxSeq[s], OnRender(s, n) PROVE Logs'
  BY <1>4 DEF OnRender
<1>5. ASSUME NEW s \in Sessions, OnDelta(s) \/ StreamOpens(s) \/ StreamRetries(s) \/ StreamFails(s) \/ StreamResyncs(s)
      PROVE Logs'
  BY <1>5 DEF OnDelta, StreamOpens, StreamRetries, StreamFails, StreamResyncs, StreamOnly
<1>6. ASSUME NEW s \in Sessions, OpenSession(s) \/ Got(s) PROVE Logs'
  BY <1>6 DEF OpenSession, Got, ShowMeta
<1>7. ASSUME NEW m \in Machines, OpenMachine(m) \/ RemoveMachine(m) \/ RemovalSaved(m) PROVE Logs'
  BY <1>7 DEF OpenMachine, RemoveMachine, RemovalSaved
<1>8. ASSUME NEW k \in Slots, Failed(k) \/ Done(k) \/ Renamed(k) \/ Created(k) PROVE Logs'
  BY <1>8 DEF Failed, Done, Renamed, Created, ShowMeta
<1>9. CASE Ask \/ OpenOverview
  BY <1>9 DEF Ask, OpenOverview
<1>10. CASE Reload
  BY <1>10 DEF Reload, Unseen
<1>11. CASE UNCHANGED vars
  BY <1>11 DEF vars
<1>12. QED
  BY <1>1, <1>2, <1>3, <1>4, <1>5, <1>6, <1>7, <1>8, <1>9, <1>10, <1>11 DEF Next, Streaming

\* A call is started, marked as done, or freed.
LEMMA CallsStep ==
  ASSUME IInv, [Next]_vars PROVE CallsTyped'
<1> USE DEF IInv, CallsTyped
<1>1. ASSUME NEW k \in Slots, Handle(k) PROVE CallsTyped'
  <2>1. gets' = gets /\ calls[k] \in CallSet /\ calls' = [calls EXCEPT ![k].done = TRUE]
    BY <1>1 DEF Handle
  <2>2. [calls[k] EXCEPT !.done = TRUE] \in CallSet
    BY <2>1 DEF CallSet
  <2>3. QED
    BY <2>1, <2>2
<1>2. ASSUME NEW k \in Slots, End(k), gets' \subseteq Sessions PROVE CallsTyped'
  BY <1>2 DEF End
<1>3. ASSUME NEW k \in Slots, Failed(k) \/ Done(k) \/ Renamed(k) \/ Deleted(k) PROVE CallsTyped'
  BY <1>3, <1>2 DEF Failed, Done, Renamed, Deleted
<1>4. ASSUME NEW k \in Slots, Created(k) PROVE CallsTyped'
  <2>1. calls[k] # Free /\ End(k) /\ gets' \in {gets, gets \cup {calls[k].of}}
    BY <1>4 DEF Created, Answered, Opening
  <2>2. calls[k].of \in Sessions
    BY <2>1 DEF CallSet
  <2>3. QED
    BY <1>2, <2>1, <2>2
<1>5. CASE Ask
  <2>1. ASSUME NEW op \in Ops, NEW s \in Sessions, Start(op, s) PROVE calls' \in [Slots -> {Free} \cup CallSet]
    <3>1. Request(op, s) \in CallSet
      BY DEF Request, CallSet
    <3>2. QED
      BY <2>1, <3>1 DEF Start
  <2>2. \E op \in Ops, s \in Sessions : Start(op, s)
    BY <1>5 DEF Ask, RenameSession, DeleteSession, CreateSession, SendMessage, Interrupt, Ops, OneOpen
  <2>3. QED
    BY <1>5, <2>1, <2>2 DEF Ask
<1>6. ASSUME NEW s \in Sessions, OpenSession(s) \/ Got(s) PROVE CallsTyped'
  BY <1>6 DEF OpenSession, Got, Opening
<1>7. ASSUME NEW s \in Sessions,
             \/ Commit(s) \/ OnDelta(s) \/ StreamOpens(s) \/ StreamRetries(s)
             \/ StreamFails(s) \/ StreamResyncs(s)
      PROVE CallsTyped'
  BY <1>7 DEF Commit, OnDelta, StreamOpens, StreamRetries, StreamFails, StreamResyncs, StreamOnly
<1>8. ASSUME NEW s \in Sessions, NEW n \in 0..MaxSeq[s], OnRender(s, n) PROVE CallsTyped'
  BY <1>8 DEF OnRender
<1>9. ASSUME NEW m \in Machines, OpenMachine(m) \/ RemoveMachine(m) \/ RemovalSaved(m) PROVE CallsTyped'
  BY <1>9 DEF OpenMachine, RemoveMachine, RemovalSaved
<1>10. CASE OpenOverview
  BY <1>10 DEF OpenOverview
<1>11. CASE Reload
  BY <1>11 DEF Reload, NoCalls
<1>12. CASE UNCHANGED vars
  BY <1>12 DEF vars
<1>13. QED
  BY <1>1, <1>3, <1>4, <1>5, <1>6, <1>7, <1>8, <1>9, <1>10, <1>11, <1>12 DEF Next, Streaming

\* A raised mark is saved with it.
LEMMA MarkRaised ==
  ASSUME MarksAgree, NEW s \in Sessions, NEW n \in Nat, MarkSeen(s, n)
  PROVE  /\ seen' \in [Sessions -> Nat] /\ saved' = seen'
         /\ \A z \in Sessions : seen[z] <= seen'[z]
         /\ n <= seen'[s]
<1> USE DEF MarksAgree
<1>1. /\ seen' \in [Sessions -> Nat] /\ seen'[s] = Higher(seen[s], n)
      /\ \A z \in Sessions \ {s} : seen'[z] = seen[z]
  BY DEF MarkSeen, Higher
<1>2. seen[s] <= seen'[s] /\ n <= seen'[s]
  BY <1>1 DEF Higher
<1>3. CASE seen[s] >= n
  <2>1. seen'[s] = seen[s]
    BY <1>1, <1>3 DEF Higher
  <2>2. seen' = seen
    BY <1>1, <2>1
  <2>3. QED
    BY <1>1, <1>2, <1>3, <2>2 DEF MarkSeen
<1>4. CASE ~(seen[s] >= n)
  BY <1>1, <1>2, <1>4 DEF MarkSeen
<1>5. QED
  BY <1>3, <1>4

\* Opening a session raises its mark or leaves the marks alone.
LEMMA MarksOpening ==
  ASSUME IInv, NEW s \in Sessions, NEW cached \in Nat \cup {Absent}, Opening(s, cached), UNCHANGED <<looked, dropped>>
  PROVE  MarksAgree'
<1>1. CASE cached = Absent
  BY <1>1 DEF Opening, IInv, MarksAgree, marks
<1>2. CASE cached # Absent
  <2>1. cached \in Nat /\ MarkSeen(s, cached) /\ MarksAgree
    BY <1>2 DEF Opening, IInv
  <2>2. /\ seen' \in [Sessions -> Nat] /\ saved' = seen'
        /\ \A z \in Sessions : seen[z] <= seen'[z]
    BY <2>1, MarkRaised
  <2>3. ASSUME NEW z \in Sessions \ dropped PROVE looked'[z] <= seen'[z]
    <3>1. looked[z] \in Nat /\ seen[z] \in Nat /\ seen'[z] \in Nat /\ looked[z] <= seen[z]
      BY <2>1, <2>2 DEF MarksAgree
    <3>2. QED
      BY <3>1, <2>2
  <2>4. QED
    BY <2>1, <2>2, <2>3 DEF MarksAgree
<1>3. QED
  BY <1>1, <1>2

LEMMA MarksStep ==
  ASSUME IInv, [Next]_vars PROVE MarksAgree'
<1> USE DEF transcripts, marks
<1>1. ASSUME UNCHANGED <<seen, saved, looked, dropped>> PROVE MarksAgree'
  BY <1>1 DEF IInv, MarksAgree
<1>2. ASSUME NEW s \in Sessions, NEW n \in 0..MaxSeq[s], OnRender(s, n) PROVE MarksAgree'
  <2>1. CASE current # s
    BY <1>1, <1>2, <2>1 DEF OnRender
  <2>2. CASE current = s
    <3>1. n \in Nat
      BY <1>2 DEF OnRender
    <3>2. /\ MarkSeen(s, n) /\ looked' = [looked EXCEPT ![s] = Higher(@, n)] /\ dropped' = dropped
          /\ MarksAgree
      BY <1>2, <2>2 DEF OnRender, IInv
    <3>3. /\ seen' \in [Sessions -> Nat] /\ saved' = seen' /\ n <= seen'[s]
          /\ \A z \in Sessions : seen[z] <= seen'[z]
      BY <3>1, <3>2, MarkRaised
    <3>4. looked' \in [Sessions -> Nat] /\ looked'[s] = Higher(looked[s], n)
          /\ \A z \in Sessions \ {s} : looked'[z] = looked[z]
      BY <3>1, <3>2 DEF MarksAgree, Higher
    <3>5. ASSUME NEW z \in Sessions \ dropped PROVE looked'[z] <= seen'[z]
      <4>1. looked[z] \in Nat /\ seen[z] \in Nat /\ seen'[z] \in Nat /\ looked[z] <= seen[z]
        BY <3>2, <3>3 DEF MarksAgree
      <4>2. QED
        BY <4>1, <3>1, <3>3, <3>4 DEF Higher
    <3>6. QED
      BY <3>2, <3>3, <3>4, <3>5 DEF MarksAgree
  <2>3. QED
    BY <2>1, <2>2
<1>3. ASSUME NEW k \in Slots, Deleted(k) PROVE MarksAgree'
  <2> DEFINE s == calls[k].of
  <2>1. /\ seen' = [seen EXCEPT ![s] = 0] /\ saved' = seen' /\ looked' = looked
        /\ dropped' = dropped \cup {s}
    BY <1>3 DEF Deleted
  <2> HIDE DEF s
  <2>2. QED
    BY <2>1 DEF IInv, MarksAgree
<1>4. ASSUME NEW s \in Sessions, OpenSession(s) PROVE MarksAgree'
  <2>1. PICK cached \in 0..seq[s] : Opening(s, cached)
    BY <1>4 DEF OpenSession
  <2>2. cached \in Nat \cup {Absent} /\ UNCHANGED <<looked, dropped>>
    BY <1>4, <2>1 DEF OpenSession, IInv, Logs
  <2>3. QED
    BY <2>1, <2>2, MarksOpening
<1>5. ASSUME NEW k \in Slots, Created(k) PROVE MarksAgree'
  <2> DEFINE s == calls[k].of
  <2>1. s \in Sessions /\ UNCHANGED <<looked, dropped>>
    BY <1>5 DEF Created, Answered, IInv, CallsTyped, CallSet
  <2>2. CASE Known(s)
    <3>1. PICK cached \in Listed(s) : Opening(s, cached)
      BY <1>5, <2>2 DEF Created
    <3>2. cached \in Nat \cup {Absent}
      BY <3>1, <2>1 DEF Listed, IInv, Logs
    <3>3. QED
      BY <2>1, <3>1, <3>2, MarksOpening
  <2>3. CASE ~Known(s)
    BY <1>1, <1>5, <2>3 DEF Created
  <2>4. QED
    BY <2>2, <2>3
<1>6. CASE Reload
  BY <1>6 DEF Reload, IInv, MarksAgree
<1>7. ASSUME NEW s \in Sessions,
             \/ Got(s) \/ Commit(s) \/ OnDelta(s) \/ StreamOpens(s) \/ StreamRetries(s)
             \/ StreamFails(s) \/ StreamResyncs(s)
      PROVE MarksAgree'
  BY <1>1, <1>7
     DEF Got, ShowMeta, Commit, OnDelta, StreamOpens, StreamRetries, StreamFails, StreamResyncs,
         StreamOnly
<1>8. ASSUME NEW m \in Machines, OpenMachine(m) \/ RemoveMachine(m) \/ RemovalSaved(m) PROVE MarksAgree'
  BY <1>1, <1>8 DEF OpenMachine, RemoveMachine, RemovalSaved
<1>9. ASSUME NEW k \in Slots, Handle(k) \/ Failed(k) \/ Done(k) \/ Renamed(k) PROVE MarksAgree'
  BY <1>1, <1>9 DEF Handle, Failed, Done, Renamed, ShowMeta
<1>10. CASE Ask \/ OpenOverview \/ UNCHANGED vars
  BY <1>1, <1>10 DEF Ask, OpenOverview, vars
<1>11. QED
  BY <1>2, <1>3, <1>4, <1>5, <1>6, <1>7, <1>8, <1>9, <1>10 DEF Next, Streaming

----------------------------------------------------------------------------
(* What is deleted *)

\* A step that marks no call as done, stores no snapshot and opens no stream.
LEMMA ForgottenKept ==
  ASSUME IInv, UNCHANGED <<life, dropped>>,
         \A k \in Slots : calls'[k] = calls[k] \/ calls'[k] = Free \/ calls'[k].done = FALSE,
         render' = render \/ render' = Unseen,
         \A s \in Sessions : stream'[s] \in {"open", "live"} => stream[s] \in {"open", "live"}
  PROVE  Forgotten'
<1>1. \A s \in Sessions : render[s] = Absent => render'[s] = Absent
  BY DEF Unseen
<1>2. QED
  BY <1>1 DEF IInv, Forgotten, Answered, Free

\* Opening a session connects anew.
LEMMA ForgottenOpening ==
  ASSUME IInv, NEW s \in Sessions, NEW cached, Opening(s, cached), UNCHANGED <<life, dropped, render>>,
         \A k \in Slots : calls'[k] = calls[k] \/ calls'[k] = Free
  PROVE  Forgotten'
<1>1. \A z \in Sessions : stream'[z] \in {"open", "live"} => stream[z] \in {"open", "live"}
  BY DEF Opening, Unsubscribed, IInv, OneOpen
<1>2. QED
  BY <1>1, ForgottenKept

LEMMA ForgottenStep ==
  ASSUME IInv, [Next]_vars PROVE Forgotten'
<1> USE DEF daemons, transcripts, screen
<1>1. ASSUME UNCHANGED <<life, dropped, render, calls, stream>> PROVE Forgotten'
  BY <1>1, ForgottenKept
<1>2. ASSUME NEW k \in Slots, End(k), UNCHANGED <<life, dropped, render, stream>> PROVE Forgotten'
  <2>1. \A j \in Slots : calls'[j] = calls[j] \/ calls'[j] = Free
    BY <1>2 DEF End, IInv, CallsTyped
  <2>2. QED
    BY <1>2, <2>1, ForgottenKept
<1>3. ASSUME NEW k \in Slots, Handle(k) PROVE Forgotten'
  <2>1. /\ calls[k] \in CallSet /\ calls' = [calls EXCEPT ![k].done = TRUE]
        /\ Accepts(calls[k].op, calls[k].of)
        /\ life' = [life EXCEPT ![calls[k].of] = CASE calls[k].op = "create" -> "alive"
                                                   [] calls[k].op = "delete" -> "gone"
                                                   [] OTHER -> @]
        /\ UNCHANGED <<dropped, render, stream>>
    BY <1>3 DEF Handle, IInv, CallsTyped
  <2>2. life' \in [Sessions -> {"unborn", "alive", "gone"}]
    BY <2>1 DEF IInv, Forgotten, CallSet
  <2>3. \A s \in Sessions : life[s] = "gone" => life'[s] = "gone"
    BY <2>1 DEF IInv, Forgotten, CallSet, Accepts, Alive
  <2>4. ASSUME NEW j \in Slots, Answered(j, "delete")' PROVE life'[calls'[j].of] = "gone"
    <3>1. CASE j = k
      BY <2>1, <2>4, <3>1 DEF Answered, CallSet, IInv, CallsTyped, Forgotten
    <3>2. CASE j # k
      <4>1. calls'[j] = calls[j] /\ Answered(j, "delete")
        BY <2>1, <2>4, <3>2 DEF Answered, IInv, CallsTyped
      <4>2. calls[j].of \in Sessions /\ life[calls[j].of] = "gone"
        BY <4>1 DEF Answered, CallSet, IInv, CallsTyped, Forgotten
      <4>3. QED
        BY <2>3, <4>1, <4>2
    <3>3. QED
      BY <3>1, <3>2
  <2>5. QED
    BY <2>1, <2>2, <2>3, <2>4 DEF IInv, Forgotten
<1>4. ASSUME NEW k \in Slots, Deleted(k) PROVE Forgotten'
  <2> DEFINE s == calls[k].of
  <2>1. s \in Sessions /\ life[s] = "gone" /\ End(k)
    BY <1>4 DEF Deleted, Answered, CallSet, IInv, CallsTyped, Forgotten
  <2>2. /\ render' = [render EXCEPT ![s] = Absent] /\ dropped' = dropped \cup {s} /\ life' = life
        /\ IF current = s THEN stream' = Unsubscribed ELSE stream' = stream
    BY <1>4 DEF Deleted, Close
  <2>3. stream'[s] \notin {"open", "live"}
    <3>1. CASE current = s
      BY <2>1, <2>2, <3>1 DEF Unsubscribed
    <3>2. CASE current # s
      BY <2>1, <2>2, <3>2 DEF IInv, OneOpen, ShownIsOpenSession
    <3>3. QED
      BY <3>1, <3>2
  <2>4. \A z \in Sessions : stream'[z] \in {"open", "live"} => stream[z] \in {"open", "live"}
    BY <2>2 DEF Unsubscribed
  <2>5. \A j \in Slots : calls'[j] = calls[j] \/ calls'[j] = Free
    BY <2>1 DEF End, IInv, CallsTyped
  <2> HIDE DEF s
  <2>6. \A z \in dropped' : life'[z] = "gone" /\ render'[z] = Absent /\ stream'[z] \notin {"open", "live"}
    BY <2>1, <2>2, <2>3, <2>4 DEF IInv, Forgotten, Logs
  <2>7. \A j \in Slots : Answered(j, "delete")' => life'[calls'[j].of] = "gone"
    BY <2>2, <2>5 DEF IInv, Forgotten, Answered
  <2>8. QED
    BY <2>1, <2>2, <2>6, <2>7 DEF IInv, Forgotten
<1>5. ASSUME NEW s \in Sessions, NEW n \in 0..MaxSeq[s], OnRender(s, n) PROVE Forgotten'
  <2>1. s \notin dropped
    BY <1>5 DEF OnRender, IInv, Forgotten
  <2>2. /\ stream' = [stream EXCEPT ![s] = "live"] /\ UNCHANGED <<life, dropped, calls>>
        /\ render' = render \/ render' = [render EXCEPT ![s] = n]
    BY <1>5 DEF OnRender
  <2>3. \A z \in dropped : render'[z] = render[z] /\ stream'[z] = stream[z]
    BY <2>1, <2>2 DEF IInv, Forgotten, Logs, OneOpen
  <2>4. QED
    BY <2>2, <2>3 DEF IInv, Forgotten, Answered
<1>6. ASSUME NEW s \in Sessions, StreamOpens(s) PROVE Forgotten'
  <2>1. s \notin dropped
    BY <1>6 DEF StreamOpens, Alive, IInv, Forgotten
  <2>2. stream' = [stream EXCEPT ![s] = "open"] /\ UNCHANGED <<life, dropped, render, calls>>
    BY <1>6 DEF StreamOpens, StreamOnly
  <2>3. \A z \in dropped : stream'[z] = stream[z]
    BY <2>1, <2>2 DEF IInv, OneOpen
  <2>4. QED
    BY <2>2, <2>3 DEF IInv, Forgotten, Answered
<1>7. ASSUME NEW s \in Sessions, NEW v \in {"connecting", "waiting"}, StreamOnly(s, v) PROVE Forgotten'
  <2>1. stream' = [stream EXCEPT ![s] = v] /\ UNCHANGED <<life, dropped, render, calls>>
    BY <1>7 DEF StreamOnly
  <2>2. \A z \in Sessions : stream'[z] \in {"open", "live"} => stream[z] \in {"open", "live"}
    BY <2>1 DEF IInv, OneOpen
  <2>3. QED
    BY <2>1, <2>2, ForgottenKept
<1>8. ASSUME NEW s \in Sessions, StreamRetries(s) \/ StreamFails(s) \/ StreamResyncs(s) PROVE Forgotten'
  BY <1>7, <1>8 DEF StreamRetries, StreamFails, StreamResyncs
<1>9. ASSUME Close, UNCHANGED <<life, dropped, render, calls>> PROVE Forgotten'
  <2>1. \A z \in Sessions : stream'[z] \in {"open", "live"} => stream[z] \in {"open", "live"}
    BY <1>9 DEF Close, Unsubscribed
  <2>2. QED
    BY <1>9, <2>1, ForgottenKept
<1>10. ASSUME NEW m \in Machines, OpenMachine(m) \/ RemoveMachine(m) \/ RemovalSaved(m) PROVE Forgotten'
  BY <1>1, <1>9, <1>10 DEF OpenMachine, RemoveMachine, RemovalSaved
<1>11. ASSUME NEW s \in Sessions, OpenSession(s) PROVE Forgotten'
  BY <1>11, ForgottenOpening DEF OpenSession
<1>12. ASSUME NEW k \in Slots, Created(k) PROVE Forgotten'
  <2> DEFINE s == calls[k].of
  <2>1. s \in Sessions /\ End(k) /\ UNCHANGED <<life, dropped, render>>
    BY <1>12 DEF Created, Answered, IInv, CallsTyped, CallSet
  <2>2. \A j \in Slots : calls'[j] = calls[j] \/ calls'[j] = Free
    BY <2>1 DEF End, IInv, CallsTyped
  <2>3. CASE Known(s)
    <3>1. PICK cached \in Listed(s) : Opening(s, cached)
      BY <1>12, <2>3 DEF Created
    <3>2. QED
      BY <2>1, <2>2, <3>1, ForgottenOpening
  <2>4. CASE ~Known(s)
    BY <1>2, <1>12, <2>1, <2>4 DEF Created
  <2>5. QED
    BY <2>3, <2>4
<1>13. CASE Ask
  <2>1. \E op \in Ops, s \in Sessions : Start(op, s)
    BY <1>13 DEF Ask, RenameSession, DeleteSession, CreateSession, SendMessage, Interrupt, Ops, IInv, OneOpen
  <2>2. \A j \in Slots : calls'[j] = calls[j] \/ calls'[j].done = FALSE
    BY <2>1 DEF Start, Request, IInv, CallsTyped
  <2>3. QED
    BY <1>13, <2>2, ForgottenKept DEF Ask
<1>14. CASE Reload
  <2>1. \A z \in Sessions : stream'[z] \notin {"open", "live"}
    BY <1>14 DEF Reload, NoStreams
  <2>2. \A j \in Slots : calls'[j] = Free
    BY <1>14 DEF Reload, NoCalls
  <2>3. QED
    BY <1>14, <2>1, <2>2, ForgottenKept DEF Reload
<1>15. ASSUME NEW k \in Slots, Failed(k) \/ Done(k) \/ Renamed(k) PROVE Forgotten'
  BY <1>2, <1>15 DEF Failed, Done, Renamed, ShowMeta
<1>16. ASSUME NEW s \in Sessions, Got(s) \/ Commit(s) \/ OnDelta(s) PROVE Forgotten'
  BY <1>1, <1>16 DEF Got, ShowMeta, Commit, OnDelta
<1>17. CASE OpenOverview \/ UNCHANGED vars
  BY <1>1, <1>9, <1>17 DEF OpenOverview, vars
<1>18. QED
  BY <1>3, <1>4, <1>5, <1>6, <1>8, <1>10, <1>11, <1>12, <1>13, <1>14, <1>15, <1>16, <1>17
     DEF Next, Streaming

----------------------------------------------------------------------------
(* The open session *)

\* Closing leaves no stream, for only the open session's was on.
LEMMA ScreenClosed ==
  ASSUME IInv, Close, active' \in Machines \cup {None} PROVE OneOpen'
<1> USE NoneAssumption DEF IInv, OneOpen, ShownIsOpenSession, OpenSessionHasMachine
<1>1. /\ current' = None /\ meta' = {} /\ preview' = {}
      /\ stream' \in [Sessions -> StreamStates] /\ \A s \in Sessions : stream'[s] = "off"
  BY DEF Close, Unsubscribed, StreamStates
<1>2. QED
  BY <1>1

\* A session is opened on a machine that is listed.
LEMMA ScreenOpened ==
  ASSUME IInv, NEW s \in Sessions, NEW cached, Opening(s, cached), Known(s), UNCHANGED machines
  PROVE  OneOpen'
<1> USE NoneAssumption DEF IInv, OneOpen, ShownIsOpenSession, OpenSessionHasMachine
<1>1. /\ current' = s /\ meta' = {} /\ preview' = {} /\ active' = Home[s]
      /\ stream' \in [Sessions -> StreamStates] /\ stream'[s] = "connecting"
      /\ \A z \in Sessions \ {s} : stream'[z] = "off"
  BY DEF Opening, Unsubscribed, StreamStates
<1>2. QED
  BY <1>1 DEF Known

\* What only shows more of the open session, or moves its stream, keeps it open.
LEMMA ScreenKept ==
  ASSUME IInv, UNCHANGED <<active, current, known>>, meta' \cup preview' \subseteq {current},
         stream' \in [Sessions -> StreamStates],
         \A s \in Sessions : stream'[s] = "off" <=> stream[s] = "off"
  PROVE  OneOpen'
  BY NoneAssumption DEF IInv, OneOpen, ShownIsOpenSession, OpenSessionHasMachine, Known, known

LEMMA ScreenStep ==
  ASSUME IInv, [Next]_vars PROVE OneOpen'
<1> USE DEF screen, known
<1>1. meta \cup preview \subseteq {current} /\ stream \in [Sessions -> StreamStates]
  BY DEF IInv, OneOpen, ShownIsOpenSession
<1>2. ASSUME UNCHANGED <<screen, stream, known>> PROVE OneOpen'
  BY <1>1, <1>2, ScreenKept
<1>3. ASSUME NEW s \in Sessions, OpenSession(s) PROVE OneOpen'
  <2>1. PICK cached \in 0..seq[s] : Opening(s, cached)
    BY <1>3 DEF OpenSession
  <2>2. Known(s) /\ machines' = machines
    BY <1>3 DEF OpenSession
  <2>3. QED
    BY <2>1, <2>2, ScreenOpened
<1>4. ASSUME NEW k \in Slots, Created(k) PROVE OneOpen'
  <2> DEFINE s == calls[k].of
  <2>1. s \in Sessions /\ UNCHANGED known
    BY <1>4 DEF Created, Answered, IInv, CallsTyped, CallSet
  <2>2. CASE Known(s)
    <3>1. PICK cached \in Listed(s) : Opening(s, cached)
      BY <1>4, <2>2 DEF Created
    <3>2. QED
      BY <2>1, <2>2, <3>1, ScreenOpened
  <2>3. CASE ~Known(s)
    BY <1>2, <1>4, <2>1, <2>3 DEF Created
  <2>4. QED
    BY <2>2, <2>3
<1>5. CASE OpenOverview
  BY <1>5, ScreenClosed DEF OpenOverview
<1>6. ASSUME NEW m \in Machines, OpenMachine(m) PROVE OneOpen'
  <2>1. CASE active = m
    BY <1>2, <1>6, <2>1 DEF OpenMachine
  <2>2. CASE active # m
    BY <1>6, <2>2, ScreenClosed DEF OpenMachine
  <2>3. QED
    BY <2>1, <2>2
<1>7. ASSUME NEW m \in Machines, RemoveMachine(m) PROVE OneOpen'
  BY <1>7 DEF RemoveMachine, IInv, OneOpen, ShownIsOpenSession, OpenSessionHasMachine, Known
<1>8. ASSUME NEW m \in Machines, RemovalSaved(m) PROVE OneOpen'
  <2>1. CASE current \in OnMachine(m)
    <3>1. active' \in Machines \cup {None}
      <4>1. active = Home[current]
        BY <2>1, NoneAssumption DEF OnMachine, IInv, OneOpen, ShownIsOpenSession
      <4>2. QED
        BY <1>8, <2>1, <4>1 DEF RemovalSaved, OnMachine
    <3>2. QED
      BY <1>8, <2>1, <3>1, ScreenClosed DEF RemovalSaved
  <2>2. CASE current \notin OnMachine(m)
    BY <1>8, <2>2 DEF RemovalSaved, OnMachine, IInv, OneOpen, ShownIsOpenSession, OpenSessionHasMachine, Known
  <2>3. QED
    BY <2>1, <2>2
<1>9. ASSUME NEW k \in Slots, Deleted(k) PROVE OneOpen'
  <2>1. UNCHANGED <<active, known>>
    BY <1>9 DEF Deleted
  <2>2. CASE current = calls[k].of
    BY <1>9, <2>1, <2>2, ScreenClosed, HomeAssumption, NoneAssumption
       DEF Deleted, IInv, OneOpen, ShownIsOpenSession, CallsTyped, CallSet, Answered
  <2>3. CASE current # calls[k].of
    BY <1>2, <1>9, <2>1, <2>3 DEF Deleted
  <2>4. QED
    BY <2>2, <2>3
<1>10. ASSUME NEW s \in Sessions, Got(s) PROVE OneOpen'
  <2>1. UNCHANGED <<active, current, preview, stream, known>> /\ meta' \subseteq {current}
    BY <1>1, <1>10 DEF Got, ShowMeta
  <2>2. QED
    BY <1>1, <2>1, ScreenKept
<1>11. ASSUME NEW k \in Slots, Done(k) \/ Renamed(k) PROVE OneOpen'
  <2>1. UNCHANGED <<active, current, preview, stream, known>> /\ meta' \subseteq {current}
    BY <1>1, <1>11 DEF Done, Renamed, ShowMeta, Patched
  <2>2. QED
    BY <1>1, <2>1, ScreenKept
<1>12. ASSUME NEW s \in Sessions, NEW v \in StreamStates \ {"off"}, stream[s] # "off", StreamOnly(s, v)
       PROVE OneOpen'
  <2>1. /\ UNCHANGED <<active, current, meta, preview, known>>
        /\ stream' \in [Sessions -> StreamStates]
        /\ \A z \in Sessions : stream'[z] = "off" <=> stream[z] = "off"
    BY <1>1, <1>12 DEF StreamOnly
  <2>2. QED
    BY <1>1, <2>1, ScreenKept
<1>13. ASSUME NEW s \in Sessions, StreamOpens(s) \/ StreamRetries(s) \/ StreamFails(s) \/ StreamResyncs(s)
       PROVE OneOpen'
  BY <1>12, <1>13 DEF StreamOpens, StreamRetries, StreamFails, StreamResyncs, StreamStates
<1>14. ASSUME NEW s \in Sessions, NEW n \in 0..MaxSeq[s], OnRender(s, n) PROVE OneOpen'
  <2>1. /\ UNCHANGED <<active, current, meta, known>> /\ preview' \subseteq {current}
        /\ stream' \in [Sessions -> StreamStates]
        /\ \A z \in Sessions : stream'[z] = "off" <=> stream[z] = "off"
    BY <1>1, <1>14 DEF OnRender, StreamStates
  <2>2. QED
    BY <1>1, <2>1, ScreenKept
<1>15. ASSUME NEW s \in Sessions, OnDelta(s) PROVE OneOpen'
  <2>1. UNCHANGED <<active, current, meta, stream, known>> /\ preview' \subseteq {current}
    BY <1>1, <1>15 DEF OnDelta
  <2>2. QED
    BY <1>1, <2>1, ScreenKept
<1>16. CASE Reload
  BY <1>16, NoneAssumption
     DEF Reload, IInv, OneOpen, ShownIsOpenSession, OpenSessionHasMachine, NoStreams, StreamStates
<1>17. ASSUME NEW k \in Slots, Handle(k) \/ Failed(k) PROVE OneOpen'
  BY <1>2, <1>17 DEF Handle, Failed
<1>18. ASSUME NEW s \in Sessions, Commit(s) PROVE OneOpen'
  BY <1>2, <1>18 DEF Commit
<1>19. CASE Ask \/ UNCHANGED vars
  BY <1>2, <1>19 DEF Ask, vars
<1>20. QED
  BY <1>3, <1>4, <1>5, <1>6, <1>7, <1>8, <1>9, <1>10, <1>11, <1>13, <1>14, <1>15, <1>16,
     <1>17, <1>18, <1>19 DEF Next, Streaming

LEMMA ViewStep == IInv /\ [Next]_vars => IInv'
  BY LogsStep, CallsStep, MarksStep, ForgottenStep, ScreenStep DEF IInv

----------------------------------------------------------------------------

\* However the answers are ordered and wherever the user goes meanwhile, what is on
\* screen and the one live stream are the open session's (store.ts 405-475).
THEOREM ShownStaysOpenSession == Spec => []ShownIsOpenSession
<1>1. IInv => ShownIsOpenSession
  BY DEF IInv, OneOpen
<1>2. QED
  BY ViewInit, ViewStep, <1>1, PTL DEF Spec

\* A session stays open only while its machine is listed or its removal is being saved
\* (store.ts 288-301, 393-408).
THEOREM OpenSessionKeepsMachine == Spec => []OpenSessionHasMachine
<1>1. IInv => OpenSessionHasMachine
  BY DEF IInv, OneOpen
<1>2. QED
  BY ViewInit, ViewStep, <1>1, PTL DEF Spec

\* Nothing its user was shown makes a session ask for attention, in this life of the
\* page or a later one, while the user has not deleted it (store.ts 450, 496-502,
\* 560-567; lib/status.ts 11-15).
THEOREM SeenIsNotAttention == Spec => []NothingSeenIsAttention
<1>1. IInv => NothingSeenIsAttention
  <2> SUFFICES ASSUME IInv, NEW s \in Sessions \ dropped, NEW lastSeq \in 0..looked[s]
               PROVE SessionStatus(s, lastSeq) # "attention"
    BY DEF NothingSeenIsAttention
  <2>1. looked[s] \in Nat /\ seen[s] \in Nat /\ looked[s] <= seen[s]
    BY DEF IInv, MarksAgree
  <2>2. QED
    BY <2>1 DEF SessionStatus
<1>2. QED
  BY ViewInit, ViewStep, <1>1, PTL DEF Spec

\* Once a deletion was answered no snapshot of that session is stored again, though it
\* may be listed, and opened, for a while (store.ts 438-452, 490-507).
THEOREM DeletedStaysForgotten == Spec => []DeletedIsForgotten
<1>1. IInv => DeletedIsForgotten
  BY DEF IInv, Forgotten, DeletedIsForgotten
<1>2. QED
  BY ViewInit, ViewStep, <1>1, PTL DEF Spec
=============================================================================
