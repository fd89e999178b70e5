------------------------- MODULE SessionRunsProofs -------------------------
(***************************************************************************)
(* Theorems about SessionRuns, for any set of requests and callers and any *)
(* bounds: type correctness, one owner per session, and, by an inductive   *)
(* invariant that follows the dangling run through every finalizer, that   *)
(* a serving daemon shows no dead run as running.  On these rest the runs  *)
(* table, the session list, the order of the ledger, and the proof that    *)
(* SessionRuns implements SessionActivity.                                 *)
(***************************************************************************)
EXTENDS SessionRuns, SequenceTheorems, TLAPS

----------------------------------------------------------------------------
(* The ledger *)

\* Appending keeps the older positions and adds one.
LEMMA AppendPositions ==
  ASSUME NEW S, NEW l \in Seq(S), NEW e \in S
  PROVE  LET m == Append(l, e)
         IN  /\ m \in Seq(S)
             /\ Len(l) \in Nat
             /\ DOMAIN l = 1..Len(l)
             /\ DOMAIN m = DOMAIN l \cup {Len(l) + 1}
             /\ m[Len(l) + 1] = e
             /\ \A i \in DOMAIN l : m[i] = l[i]
  OBVIOUS

\* After a run_started the tail shows that run, and no other.
LEMMA DanglingStarted ==
  ASSUME NEW S, NEW l \in Seq(S), NEW e \in S, e.type = "run_started"
  PROVE  DanglingRuns(Append(l, e)) = {e.run}
<1> DEFINE m == Append(l, e)
           n == Len(l) + 1
<1>1. /\ n \in DOMAIN m /\ m[n] = e /\ n \in Nat
      /\ \A i \in DOMAIN m : i \in Nat /\ i <= n
  BY AppendPositions
<1>2. DanglingAt(m, n)
  BY <1>1 DEF DanglingAt
<1>3. ASSUME NEW i \in DOMAIN m, DanglingAt(m, i)
      PROVE  i = n
  BY <1>1, <1>3 DEF DanglingAt, Boundary
<1>4. QED
  BY <1>1, <1>2, <1>3 DEF DanglingRuns

\* After a run_finished, whichever run it names, the tail is settled.
LEMMA DanglingFinished ==
  ASSUME NEW S, NEW l \in Seq(S), NEW e \in S, e.type = "run_finished"
  PROVE  DanglingRuns(Append(l, e)) = {}
<1> DEFINE m == Append(l, e)
           n == Len(l) + 1
<1>1. /\ n \in DOMAIN m /\ m[n] = e /\ n \in Nat
      /\ \A i \in DOMAIN m : i \in Nat /\ i <= n
  BY AppendPositions
<1>2. ASSUME NEW i \in DOMAIN m, DanglingAt(m, i)
      PROVE  FALSE
  BY <1>1, <1>2 DEF DanglingAt, Boundary
<1>3. QED
  BY <1>2 DEF DanglingRuns

\* Any other event leaves the tail as it was.
LEMMA DanglingOther ==
  ASSUME NEW S, NEW l \in Seq(S), NEW e \in S, e.type \notin Boundary
  PROVE  DanglingRuns(Append(l, e)) = DanglingRuns(l)
<1> DEFINE m == Append(l, e)
           n == Len(l) + 1
<1>1. /\ DOMAIN m = DOMAIN l \cup {n} /\ n \notin DOMAIN l
      /\ m[n] = e /\ \A i \in DOMAIN l : m[i] = l[i]
  BY AppendPositions
<1>2. ~DanglingAt(m, n)
  BY <1>1 DEF DanglingAt, Boundary
<1>3. ASSUME NEW i \in DOMAIN l
      PROVE  DanglingAt(m, i) <=> DanglingAt(l, i)
  BY <1>1 DEF DanglingAt
<1>4. QED
  BY <1>1, <1>2, <1>3 DEF DanglingRuns

\* An empty ledger shows nothing.
LEMMA DanglingEmpty == DanglingRuns(<<>>) = {}
  BY DEF DanglingRuns

\* History is read back page by page, each time before the oldest event of the page at
\* hand (Store.EventsBefore): a page shows the newest of what is left, in one piece;
\* when it says there is more, what it left out is what the next page is asked of, and
\* when it says there is not, it left out nothing.  So no event is skipped or repeated.
THEOREM PagesCoverHistory ==
  ASSUME NEW S, NEW l \in Seq(S), NEW before \in Nat, NEW limit \in Nat \ {0}
  PROVE  LET page == EventsBefore(l, before, limit)
         IN  /\ ~HasMore(l, before, limit) => page = Older(l, before)
             /\ HasMore(l, before, limit) =>
                  \E oldest \in page :
                    /\ oldest > 1
                    /\ Older(l, before) \ page = Older(l, oldest)
                    /\ page = {i \in Older(l, before) : i >= oldest}
<1> DEFINE top == IF before = 0 \/ before > Len(l) THEN Len(l) ELSE before - 1
           page == EventsBefore(l, before, limit)
<1>1. top \in Nat /\ Older(l, before) = 1..top
  BY DEF Older
<1>2. page = {i \in 1..top : i + limit > top}
  BY <1>1 DEF EventsBefore, NewestOf
<1>3. NewestOf(Older(l, before), limit + 1) = {i \in 1..top : i + limit >= top}
  BY <1>1 DEF NewestOf
<1>4. CASE top <= limit
  <2>1. page = 1..top
    BY <1>1, <1>2, <1>4
  <2>2. NewestOf(Older(l, before), limit + 1) = 1..top
    <3>1. {i \in 1..top : i + limit >= top} = 1..top
      BY <1>1, <1>4
    <3>2. QED
      BY <1>3, <3>1
  <2>3. EventsBefore(l, before, limit) = 1..top
    BY <2>1
  <2>4. ~HasMore(l, before, limit)
    BY <2>2, <2>3 DEF HasMore
  <2>5. QED
    BY <1>1, <2>1, <2>4
<1>5. CASE top > limit
  <2> DEFINE oldest == top - limit + 1
  <2>1. oldest \in page /\ oldest > 1 /\ page = {i \in 1..top : i >= oldest}
    BY <1>1, <1>2, <1>5
  <2>2. top - limit \in NewestOf(Older(l, before), limit + 1) /\ top - limit \notin page
    BY <1>1, <1>2, <1>3, <1>5
  <2>3. HasMore(l, before, limit)
    BY <2>2 DEF HasMore
  <2>4. Older(l, oldest) = 1..(oldest - 1)
    BY <1>1, <1>5 DEF Older
  <2>5. QED
    BY <1>1, <2>1, <2>3, <2>4
<1>6. QED
  BY <1>1, <1>4, <1>5

----------------------------------------------------------------------------
(* Runs *)

\* Every label the actions go to is a label.
LEMMA LabelFacts ==
  /\ "put_intent" \in Labels /\ "user_message" \in Labels /\ "create_run" \in Labels
  /\ "run_started" \in Labels /\ "touch_running" \in Labels /\ "provider" \in Labels
  /\ "error" \in Labels /\ "run_finished" \in Labels /\ "finish_run" \in Labels
  /\ "touch_idle" \in Labels /\ "release" \in Labels /\ "idle" \in Labels
  /\ "ended" \in Labels /\ "lost" \in Labels /\ "refused" \in Labels
  /\ "not_found" \in Labels /\ "replied" \in Labels /\ "busy" \in Labels
  /\ "intent" \in Labels /\ "model" \in Labels /\ "stage" \in Labels
  /\ "lock" \in Labels /\ "cancel" \in Labels /\ "dangling" \in Labels
  /\ "orphan_finished" \in Labels /\ "orphan_row" \in Labels /\ "orphan_clear" \in Labels
  /\ "remove_uploads" \in Labels /\ "delete_rows" \in Labels /\ "running_rows" \in Labels
  /\ "finish_row" \in Labels /\ "clear_row" \in Labels
  BY DEF Labels, Owning, Resting

\* Goto moves one process to a label and leaves the others where they are.
LEMMA GotoFacts ==
  ASSUME pc \in [Procs -> Labels], NEW p \in Procs, NEW l \in Labels, Goto(p, l)
  PROVE  /\ pc' \in [Procs -> Labels] /\ pc'[p] = l
         /\ \A q \in Procs \ {p} : pc'[q] = pc[q]
  BY DEF Goto

\* A commit appends its event, or is one of the failed writes.
LEMMA CommitFacts ==
  ASSUME VarTypes, NEW p \in Procs, NEW e \in EventSet, Commit(p, e)
  PROVE  /\ ledger' \in Seq(EventSet) /\ pend' \in [Procs -> Nat] /\ faults' \in Nat
         /\ \/ ledger' = Append(ledger, e) /\ faults' = faults
            \/ ledger' = ledger /\ faults' > 0
<1>0. ledger \in Seq(EventSet) /\ pend \in [Procs -> Nat] /\ faults \in Nat
  BY DEF VarTypes
<1>1. CASE ledger' = Append(ledger, e) /\ pend' = [pend EXCEPT ![p] = Len(ledger) + 1]
           /\ UNCHANGED faults
  BY <1>0, <1>1, AppendPositions
<1>2. CASE Fault /\ UNCHANGED <<ledger, pend>>
  BY <1>0, <1>2 DEF Fault
<1>3. QED
  BY <1>1, <1>2 DEF Commit, Write

\* A write to the projection keeps its type, and counts when it fails.
LEMMA SetRecentFacts ==
  ASSUME VarTypes, NEW r \in Requests \cup {None}, NEW s \in RunStates \cup {"none"},
         SetRecent(r, s)
  PROVE  recent' \in RecentRow \cup {None} /\ faults' \in Nat
<1>0. recent \in RecentRow \cup {None} /\ faults \in Nat
  BY DEF VarTypes
<1>1. ASSUME recent \in RecentRow
      PROVE  [recent EXCEPT !.activeRun = r, !.lastState = s] \in RecentRow
  BY <1>1 DEF RecentRow
<1>2. QED
  BY <1>0, <1>1 DEF SetRecent, Write, Fault

\* Finishing a run keeps the type of the runs rows, and counts when it fails.
LEMMA FinishRunFacts ==
  ASSUME VarTypes, NEW r \in Requests, NEW s \in RunStates, FinishRun(r, s)
  PROVE  runs' \in [Requests -> RunStates] /\ faults' \in Nat
<1>0. runs \in [Requests -> RunStates] /\ faults \in Nat
  BY DEF VarTypes
<1>1. QED
  BY <1>0 DEF FinishRun, Write, Fault

\* A process that moves to a label at which it holds what it needs breaks no holding.
LEMMA HoldingsFacts ==
  ASSUME VarTypes, Holdings, NEW p \in Procs, NEW l \in Labels, Goto(p, l),
         \A r \in Requests \ {p} : seen'[r] = seen[r] /\ outcome'[r] = outcome[r],
         \A q \in Procs \ {p} : target'[q] = target[q],
         p \in Requests /\ l \in UsesSeen => seen'[p] \in SessionRow,
         p \in Requests /\ l \in UsesOutcome => outcome'[p] \in Terminal,
         l \in UsesTarget => target'[p] \in Requests
  PROVE  Holdings'
<1>1. pc' = [pc EXCEPT ![p] = l] /\ pc \in [Procs -> Labels] /\ Requests \subseteq Procs
  BY DEF Goto, VarTypes, Procs
<1>2. \A q \in Procs : pc'[q] \in UsesTarget => target'[q] \in Requests
  BY <1>1 DEF Holdings
<1>3. \A r \in Requests : pc'[r] \in UsesSeen => seen'[r] \in SessionRow
  BY <1>1 DEF Holdings
<1>4. \A r \in Requests : pc'[r] \in UsesOutcome => outcome'[r] \in Terminal
  BY <1>1 DEF Holdings
<1>5. QED
  BY <1>2, <1>3, <1>4 DEF Holdings

\* Reading the dangling run keeps types, and gives the finalizer a run to settle.
LEMMA OrphanReadFacts ==
  ASSUME VarTypes, NEW p \in Finalizers, OrphanRead(p)
  PROVE  /\ \/ \E l \in {"running_rows", "remove_uploads", "ended"} :
                   Goto(p, l) /\ target' = target
            \/ /\ Goto(p, "orphan_finished")
               /\ \E r \in Requests : target' = [target EXCEPT ![p] = r]
         /\ faults' \in Nat
<1>1. DanglingRuns(ledger) \subseteq Requests
  BY DEF VarTypes, DanglingRuns, EventSet
<1>2. AfterOrphan(p) \in {"running_rows", "remove_uploads", "ended"}
  BY DEF AfterOrphan, AfterInterrupt
<1>3. faults \in Nat
  BY DEF VarTypes
<1>4. QED
  BY <1>1, <1>2, <1>3 DEF OrphanRead, Fault

\* Type correctness: variables keep their types and a process that commits, cancels,
\* finalizes or records an outcome holds the run, row or outcome it uses.
THEOREM TypeCorrect == Spec => []TypeOK
<1>1. Init => TypeOK
  <2> SUFFICES ASSUME Init PROVE TypeOK
    OBVIOUS
  <2>1. sess \in SessionRow
    BY DEF Init, SessionRow
  <2>2. recent \in RecentRow
    BY DEF Init, RecentRow
  <2>3. "absent" \in RunStates /\ "idle" \in Labels
    BY LabelFacts DEF RunStates
  <2>4. VarTypes
    BY <2>1, <2>2, <2>3 DEF VarTypes, Init
  <2>5. Holdings
    BY DEF Init, Holdings, Owning, Procs, UsesSeen, UsesOutcome, UsesTarget
  <2>6. QED
    BY <2>4, <2>5 DEF TypeOK
<1>2. TypeOK /\ [Next]_vars => TypeOK'
  <2> SUFFICES ASSUME TypeOK, [Next]_vars PROVE TypeOK'
    OBVIOUS
  <2>0. /\ \A p \in Requests : p \in Procs
        /\ \A p \in Callers : p \in Procs /\ p \in Finalizers /\ p \notin Requests
        /\ \A p \in Finalizers : p \in Procs /\ p \notin Requests
        /\ Boot \in Procs /\ Boot \in Finalizers /\ Boot \notin Requests
    BY ProcsAssumption DEF Procs, Finalizers
  <2>1. ASSUME NEW r \in Requests, SendBegin(r) PROVE TypeOK'
    <3>1. VarTypes'
      BY <2>0, <2>1, GotoFacts, LabelFacts
      DEF TypeOK, VarTypes, SendBegin, db, daemon, counters, tallies
    <3>2. Holdings'
      BY <2>0, <2>1, GotoFacts, LabelFacts
      DEF TypeOK, VarTypes, Holdings, SendBegin, At, Owning, UsesSeen, UsesOutcome, UsesTarget
    <3>3. QED
      BY <3>1, <3>2 DEF TypeOK
  <2>2. ASSUME NEW r \in Requests, SendCheckIntent(r) PROVE TypeOK'
    <3>1. CASE target' = target /\ Goto(r, "model")
      <4>1. VarTypes'
        BY <2>0, <2>2, <3>1, LabelFacts, GotoFacts
        DEF TypeOK, VarTypes, SendCheckIntent, Fault, db, daemon, tallies
      <4>2. seen' = seen /\ outcome' = outcome /\ seen[r] \in SessionRow
        BY <2>2 DEF TypeOK, SendCheckIntent, At, Holdings, UsesSeen
      <4>3. Holdings'
        BY <2>0, <3>1, <4>2, LabelFacts, HoldingsFacts DEF TypeOK, UsesOutcome, UsesTarget
      <4>4. QED
        BY <4>1, <4>3 DEF TypeOK
    <3>2. ASSUME NEW q \in Requests, target' = [target EXCEPT ![r] = q], Goto(r, "replied")
          PROVE  TypeOK'
      <4>1. VarTypes'
        BY <2>0, <2>2, <3>2, LabelFacts, GotoFacts
        DEF TypeOK, VarTypes, SendCheckIntent, Fault, db, daemon, tallies
      <4>2. seen' = seen /\ outcome' = outcome /\ target'[r] = q
        BY <2>0, <2>2, <3>2 DEF TypeOK, SendCheckIntent, VarTypes
      <4>3. Holdings'
        BY <2>0, <3>2, <4>2, LabelFacts, HoldingsFacts
        DEF TypeOK, VarTypes, UsesOutcome, UsesSeen, Owning
      <4>4. QED
        BY <4>1, <4>3 DEF TypeOK
    <3>3. IntentOf[r] # None => intents[IntentOf[r]] \in Requests \cup {None}
      BY DEF TypeOK, VarTypes, Intents
    <3>4. QED
      BY <2>2, <3>1, <3>2, <3>3 DEF SendCheckIntent
  <2>3. ASSUME NEW r \in Requests, SendUpdateModel(r) PROVE TypeOK'
    <3>1. seen[r] \in SessionRow
      BY <2>3 DEF TypeOK, Holdings, SendUpdateModel, At, UsesSeen
    <3>2. Overridden(r) \in SessionRow
      BY <3>1 DEF Overridden, SessionRow
    <3>3. sess \in SessionRow =>
            [sess EXCEPT !.model = Overridden(r).model,
                         !.effort = Overridden(r).effort] \in SessionRow
      BY <3>2 DEF SessionRow
    <3>4. sess' \in SessionRow \cup {None} /\ faults' \in Nat
      BY <2>3, <3>3 DEF TypeOK, VarTypes, SendUpdateModel, Write, Fault
    <3>5. VarTypes'
      BY <2>0, <2>3, <3>1, <3>2, <3>3, <3>4, GotoFacts, LabelFacts
      DEF TypeOK, VarTypes, SendUpdateModel, daemon, tallies
    <3>6. Holdings'
      BY <2>0, <2>3, <3>1, <3>2, <3>3, <3>4, GotoFacts, LabelFacts
      DEF TypeOK, VarTypes, Holdings, SendUpdateModel, At, Owning, UsesSeen, UsesOutcome, UsesTarget
    <3>7. QED
      BY <3>5, <3>6 DEF TypeOK
  <2>4. ASSUME NEW r \in Requests, SendStageImages(r) PROVE TypeOK'
    <3>1. VarTypes'
      BY <2>0, <2>4, GotoFacts, LabelFacts
      DEF TypeOK, VarTypes, SendStageImages, daemon, locals, tallies, Write, Fault
    <3>2. Holdings'
      BY <2>0, <2>4, GotoFacts, LabelFacts
      DEF TypeOK, VarTypes, Holdings, SendStageImages, At, Owning, UsesSeen, UsesOutcome, UsesTarget, locals
    <3>3. QED
      BY <3>1, <3>2 DEF TypeOK
  <2>5. ASSUME NEW r \in Requests, SendAcquire(r) PROVE TypeOK'
    <3>1. VarTypes'
      BY <2>0, <2>5, GotoFacts, LabelFacts
      DEF TypeOK, VarTypes, SendAcquire, db, locals, counters, tallies
    <3>2. Holdings'
      BY <2>0, <2>5, GotoFacts, LabelFacts
      DEF TypeOK, VarTypes, Holdings, SendAcquire, At, Owning, UsesSeen, UsesOutcome, UsesTarget, locals
    <3>3. QED
      BY <3>1, <3>2 DEF TypeOK
  <2>6. ASSUME NEW r \in Requests, SendPutIntent(r) PROVE TypeOK'
    <3>1. intents \in [Intents -> Requests \cup {None}] /\ faults \in Nat
      BY DEF TypeOK, VarTypes
    <3>2. IF IntentOf[r] = None THEN UNCHANGED <<intents, faults>>
         ELSE Write(intents' = [intents EXCEPT ![IntentOf[r]] = IF @ = None THEN r ELSE @],
                    intents)
      BY <2>6 DEF SendPutIntent
    <3>3. intents' \in [Intents -> Requests \cup {None}] /\ faults' \in Nat
      BY <3>1, <3>2 DEF Write, Fault
    <3>4. VarTypes'
      BY <2>0, <2>6, <3>1, <3>2, <3>3, GotoFacts, LabelFacts
      DEF TypeOK, VarTypes, SendPutIntent, daemon, locals, tallies
    <3>5. Holdings'
      BY <2>0, <2>6, <3>1, <3>2, <3>3, GotoFacts, LabelFacts
      DEF TypeOK, VarTypes, Holdings, SendPutIntent, At, Owning, UsesSeen, UsesOutcome, UsesTarget, locals
    <3>6. QED
      BY <3>4, <3>5 DEF TypeOK
  <2>7. ASSUME NEW r \in Requests, SendUserMessage(r) PROVE TypeOK'
    <3>1. Event("user_message", r) \in EventSet
      BY DEF Event, EventSet
    <3>2. VarTypes'
      BY <2>0, <2>7, <3>1, CommitFacts, GotoFacts, LabelFacts
      DEF TypeOK, VarTypes, SendUserMessage, daemon, locals, tallies
    <3>3. Holdings'
      BY <2>0, <2>7, <3>1, GotoFacts, LabelFacts
      DEF TypeOK, VarTypes, Holdings, SendUserMessage, At, Owning, UsesSeen, UsesOutcome, UsesTarget, locals
    <3>4. QED
      BY <3>2, <3>3 DEF TypeOK
  <2>8. ASSUME NEW r \in Requests, SendCreateRun(r) PROVE TypeOK'
    <3>1. runs \in [Requests -> RunStates] /\ faults \in Nat
      BY DEF TypeOK, VarTypes
    <3>2. Write(runs' = [runs EXCEPT ![r] = "running"], runs)
      BY <2>8 DEF SendCreateRun
    <3>3. runs' \in [Requests -> RunStates] /\ faults' \in Nat
      BY <3>1, <3>2 DEF Write, Fault, RunStates
    <3>4. VarTypes'
      BY <2>0, <2>8, <3>1, <3>2, <3>3, GotoFacts, LabelFacts
      DEF TypeOK, VarTypes, SendCreateRun, daemon, locals, tallies
    <3>5. Holdings'
      BY <2>0, <2>8, <3>1, <3>2, <3>3, GotoFacts, LabelFacts
      DEF TypeOK, VarTypes, Holdings, SendCreateRun, At, Owning, UsesSeen, UsesOutcome, UsesTarget, locals
    <3>6. QED
      BY <3>4, <3>5 DEF TypeOK
  <2>9. ASSUME NEW r \in Requests, SendRunStarted(r) PROVE TypeOK'
    <3>1. Event("run_started", r) \in EventSet
      BY DEF Event, EventSet
    <3>2. VarTypes'
      BY <2>0, <2>9, <3>1, CommitFacts, GotoFacts, LabelFacts
      DEF TypeOK, VarTypes, SendRunStarted, daemon, locals, tallies
    <3>3. Holdings'
      BY <2>0, <2>9, <3>1, GotoFacts, LabelFacts
      DEF TypeOK, VarTypes, Holdings, SendRunStarted, At, Owning, UsesSeen, UsesOutcome, UsesTarget, locals
    <3>4. QED
      BY <3>2, <3>3 DEF TypeOK
  <2>10. ASSUME NEW r \in Requests, SendTouchRunning(r) PROVE TypeOK'
    <3>1. VarTypes'
      BY <2>0, <2>10, SetRecentFacts, GotoFacts, LabelFacts
      DEF TypeOK, VarTypes, SendTouchRunning, daemon, locals, tallies, RunStates
    <3>2. Holdings'
      BY <2>0, <2>10, GotoFacts, LabelFacts
      DEF TypeOK, VarTypes, Holdings, SendTouchRunning, At, Owning, UsesSeen, UsesOutcome, UsesTarget, locals
    <3>3. QED
      BY <3>1, <3>2 DEF TypeOK
  <2>11. ASSUME NEW r \in Requests, ProviderOutput(r) PROVE TypeOK'
    <3>1. Event("output", r) \in EventSet
      BY DEF Event, EventSet
    <3>2. ledger' \in Seq(EventSet) /\ pend' \in [Procs -> Nat] /\ faults' \in Nat
      BY <2>0, <2>11, <3>1, CommitFacts DEF TypeOK, ProviderOutput
    <3>3. outputs' \in [Requests -> Nat]
      BY <2>11 DEF TypeOK, VarTypes, ProviderOutput
    <3>4. VarTypes'
      BY <2>11, <3>2, <3>3 DEF TypeOK, VarTypes, ProviderOutput, daemon, locals
    <3>5. Holdings'
      BY <2>0, <2>11, <3>1
      DEF TypeOK, VarTypes, Holdings, ProviderOutput, At, Owning, UsesSeen, UsesOutcome, UsesTarget, locals
    <3>6. QED
      BY <3>4, <3>5 DEF TypeOK
  <2>12. ASSUME NEW r \in Requests, ProviderSystem(r) PROVE TypeOK'
    <3>1. seen[r] \in SessionRow
      BY <2>12 DEF TypeOK, Holdings, ProviderSystem, At, Owning, UsesSeen
    <3>2. \A row \in SessionRow : [row EXCEPT !.native = r] \in SessionRow
      BY DEF SessionRow
    <3>3. sess' \in SessionRow \cup {None} /\ faults' \in Nat
      BY <2>12, <3>2 DEF TypeOK, VarTypes, ProviderSystem, Write, Fault
    <3>4. VarTypes'
      BY <2>0, <2>12, <3>1, <3>2, <3>3
      DEF TypeOK, VarTypes, ProviderSystem, daemon, tallies
    <3>5. Holdings'
      BY <2>0, <2>12, <3>1, <3>2, <3>3
      DEF TypeOK, VarTypes, Holdings, ProviderSystem, At, Owning, UsesSeen, UsesOutcome, UsesTarget
    <3>6. QED
      BY <3>4, <3>5 DEF TypeOK
  <2>13. ASSUME NEW r \in Requests, ProviderReturn(r) PROVE TypeOK'
    <3>1. VarTypes'
      BY <2>0, <2>13, GotoFacts, LabelFacts
      DEF TypeOK, VarTypes, ProviderReturn, db, daemon, counters, tallies
    <3>2. Holdings'
      BY <2>0, <2>13, GotoFacts, LabelFacts
      DEF TypeOK, VarTypes, Holdings, ProviderReturn, At, Owning, UsesSeen, UsesOutcome, UsesTarget
    <3>3. QED
      BY <3>1, <3>2 DEF TypeOK
  <2>14. ASSUME NEW r \in Requests, FinalizeError(r) PROVE TypeOK'
    <3>1. Event("error", r) \in EventSet
      BY DEF Event, EventSet
    <3>2. VarTypes'
      BY <2>0, <2>14, <3>1, CommitFacts, GotoFacts, LabelFacts
      DEF TypeOK, VarTypes, FinalizeError, daemon, locals, tallies
    <3>3. Holdings'
      BY <2>0, <2>14, <3>1, GotoFacts, LabelFacts
      DEF TypeOK, VarTypes, Holdings, FinalizeError, At, Owning, UsesSeen, UsesOutcome, UsesTarget, locals
    <3>4. QED
      BY <3>2, <3>3 DEF TypeOK
  <2>15. ASSUME NEW r \in Requests, FinalizeRunFinished(r) PROVE TypeOK'
    <3>1. RunFinished(r, outcome[r]) \in EventSet
      BY <2>15 DEF TypeOK, Holdings, FinalizeRunFinished, At, UsesOutcome, RunFinished, EventSet
    <3>2. VarTypes'
      BY <2>0, <2>15, <3>1, CommitFacts, GotoFacts, LabelFacts
      DEF TypeOK, VarTypes, FinalizeRunFinished, daemon, locals, tallies
    <3>3. Holdings'
      BY <2>0, <2>15, <3>1, GotoFacts, LabelFacts
      DEF TypeOK, VarTypes, Holdings, FinalizeRunFinished, At, Owning, UsesSeen, UsesOutcome, UsesTarget, locals
    <3>4. QED
      BY <3>2, <3>3 DEF TypeOK
  <2>16. ASSUME NEW r \in Requests, FinalizeRow(r) PROVE TypeOK'
    <3>1. outcome[r] \in RunStates
      BY <2>16 DEF TypeOK, Holdings, FinalizeRow, At, UsesOutcome, RunStates
    <3>2. VarTypes'
      BY <2>0, <2>16, <3>1, FinishRunFacts, GotoFacts, LabelFacts
      DEF TypeOK, VarTypes, FinalizeRow, daemon, locals, tallies
    <3>3. Holdings'
      BY <2>0, <2>16, <3>1, GotoFacts, LabelFacts
      DEF TypeOK, VarTypes, Holdings, FinalizeRow, At, Owning, UsesSeen, UsesOutcome, UsesTarget, locals
    <3>4. QED
      BY <3>2, <3>3 DEF TypeOK
  <2>17. ASSUME NEW r \in Requests, FinalizeTouchRecent(r) PROVE TypeOK'
    <3>1. outcome[r] \in RunStates
      BY <2>17 DEF TypeOK, Holdings, FinalizeTouchRecent, At, UsesOutcome, RunStates
    <3>2. VarTypes'
      BY <2>0, <2>17, <3>1, SetRecentFacts, GotoFacts, LabelFacts
      DEF TypeOK, VarTypes, FinalizeTouchRecent, daemon, locals, tallies
    <3>3. Holdings'
      BY <2>0, <2>17, <3>1, GotoFacts, LabelFacts
      DEF TypeOK, VarTypes, Holdings, FinalizeTouchRecent, At, Owning, UsesSeen, UsesOutcome, UsesTarget, locals
    <3>4. QED
      BY <3>2, <3>3 DEF TypeOK
  <2>18. ASSUME NEW r \in Requests, FinalizeRelease(r) PROVE TypeOK'
    <3>1. VarTypes'
      BY <2>0, <2>18, GotoFacts, LabelFacts
      DEF TypeOK, VarTypes, FinalizeRelease, db, locals, counters, tallies
    <3>2. Holdings'
      BY <2>0, <2>18, GotoFacts, LabelFacts
      DEF TypeOK, VarTypes, Holdings, FinalizeRelease, At, Owning, UsesSeen, UsesOutcome, UsesTarget, locals
    <3>3. QED
      BY <3>1, <3>2 DEF TypeOK
  <2>19. ASSUME NEW c \in Callers, InterruptRead(c) PROVE TypeOK'
    <3>1. VarTypes'
      BY <2>0, <2>19, GotoFacts, LabelFacts
      DEF TypeOK, VarTypes, InterruptRead, db, daemon, counters, tallies
    <3>2. Holdings'
      BY <2>0, <2>19, GotoFacts, LabelFacts
      DEF TypeOK, VarTypes, Holdings, InterruptRead, At, Owning, UsesSeen, UsesOutcome, UsesTarget
    <3>3. QED
      BY <3>1, <3>2 DEF TypeOK
  <2>20. ASSUME NEW c \in Callers, InterruptCancel(c) PROVE TypeOK'
    <3>1. target[c] \in Requests
      BY <2>20, <2>0 DEF TypeOK, Holdings, InterruptCancel, At, UsesTarget
    <3>2. VarTypes'
      BY <2>0, <2>20, <3>1, GotoFacts, LabelFacts
      DEF TypeOK, VarTypes, InterruptCancel, db, locals, counters, tallies, AfterInterrupt
    <3>3. Holdings'
      BY <2>0, <2>20, <3>1, GotoFacts, LabelFacts
      DEF TypeOK, VarTypes, Holdings, InterruptCancel, At, Owning, UsesSeen, UsesOutcome, UsesTarget, locals, AfterInterrupt
    <3>4. QED
      BY <3>2, <3>3 DEF TypeOK
  <2>21. ASSUME NEW c \in Callers, DeleteUploads(c) PROVE TypeOK'
    <3>1. VarTypes'
      BY <2>0, <2>21, GotoFacts, LabelFacts
      DEF TypeOK, VarTypes, DeleteUploads, daemon, locals, counters, tallies
    <3>2. Holdings'
      BY <2>0, <2>21, GotoFacts, LabelFacts
      DEF TypeOK, VarTypes, Holdings, DeleteUploads, At, Owning, UsesSeen, UsesOutcome, UsesTarget, locals
    <3>3. QED
      BY <3>1, <3>2 DEF TypeOK
  <2>22. ASSUME NEW c \in Callers, DeleteRows(c) PROVE TypeOK'
    <3>1. /\ ledger \in Seq(EventSet) /\ runs \in [Requests -> RunStates]
          /\ sess \in SessionRow \cup {None}
          /\ recent \in RecentRow \cup {None} /\ faults \in Nat
      BY DEF TypeOK, VarTypes
    <3>2. \/ UNCHANGED <<sess, ledger, runs, recent>> /\ Fault
          \/ /\ sess' = None /\ recent' = None /\ ledger' = <<>> /\ UNCHANGED faults
             /\ runs' = [r \in Requests |-> "absent"]
      BY <2>22 DEF DeleteRows, Write
    <3>3. /\ ledger' \in Seq(EventSet) /\ runs' \in [Requests -> RunStates]
          /\ sess' \in SessionRow \cup {None}
          /\ recent' \in RecentRow \cup {None} /\ faults' \in Nat
      <4>1. CASE UNCHANGED <<sess, ledger, runs, recent>> /\ Fault
        BY <3>1, <4>1 DEF Fault
      <4>2. CASE /\ sess' = None /\ recent' = None /\ ledger' = <<>> /\ UNCHANGED faults
                 /\ runs' = [r \in Requests |-> "absent"]
        BY <3>1, <4>2 DEF RunStates
      <4>3. QED
        BY <3>2, <4>1, <4>2
    <3>4. VarTypes'
      BY <2>0, <2>22, <3>3, GotoFacts, LabelFacts
      DEF TypeOK, VarTypes, DeleteRows, daemon, locals, tallies
    <3>5. Holdings'
      BY <2>0, <2>22, LabelFacts, HoldingsFacts
      DEF TypeOK, DeleteRows, locals, UsesSeen, UsesOutcome, UsesTarget, Owning
    <3>6. QED
      BY <3>4, <3>5 DEF TypeOK
  <2>23. ASSUME NEW p \in Finalizers, OrphanRead(p) PROVE TypeOK'
    <3>0. faults' \in Nat
      BY <2>23, OrphanReadFacts DEF TypeOK
    <3>1. ASSUME NEW l \in {"running_rows", "remove_uploads", "ended"},
                 Goto(p, l), target' = target
          PROVE  TypeOK'
      <4>1. VarTypes'
        BY <2>0, <2>23, <3>0, <3>1, LabelFacts, GotoFacts
        DEF TypeOK, VarTypes, OrphanRead, db, daemon, tallies
      <4>2. /\ seen' = seen /\ outcome' = outcome
            /\ l \notin UsesSeen \cup UsesOutcome \cup UsesTarget
        BY <2>23 DEF OrphanRead, UsesSeen, UsesOutcome, UsesTarget, Owning
      <4>3. Holdings'
        BY <2>0, <3>1, <4>2, LabelFacts, HoldingsFacts DEF TypeOK
      <4>4. QED
        BY <4>1, <4>3 DEF TypeOK
    <3>2. ASSUME NEW r \in Requests, Goto(p, "orphan_finished"),
                 target' = [target EXCEPT ![p] = r]
          PROVE  TypeOK'
      <4>1. VarTypes'
        BY <2>0, <2>23, <3>0, <3>2, LabelFacts, GotoFacts
        DEF TypeOK, VarTypes, OrphanRead, db, daemon, tallies
      <4>2. seen' = seen /\ outcome' = outcome /\ target'[p] = r
        BY <2>0, <2>23, <3>2 DEF TypeOK, OrphanRead, VarTypes
      <4>3. Holdings'
        BY <2>0, <3>2, <4>2, LabelFacts, HoldingsFacts DEF TypeOK
      <4>4. QED
        BY <4>1, <4>3 DEF TypeOK
    <3>3. QED
      BY <2>23, <3>1, <3>2, OrphanReadFacts DEF TypeOK
  <2>24. ASSUME NEW p \in Finalizers, OrphanFinished(p) PROVE TypeOK'
    <3>1. RunFinished(target[p], "interrupted") \in EventSet
      BY <2>24, <2>0 DEF TypeOK, Holdings, OrphanFinished, At, UsesTarget, RunFinished, EventSet, Terminal
    <3>2. VarTypes'
      BY <2>0, <2>24, <3>1, CommitFacts, GotoFacts, LabelFacts
      DEF TypeOK, VarTypes, OrphanFinished, daemon, locals, tallies
    <3>3. Holdings'
      BY <2>0, <2>24, <3>1, GotoFacts, LabelFacts
      DEF TypeOK, VarTypes, Holdings, OrphanFinished, At, Owning, UsesSeen, UsesOutcome, UsesTarget, locals
    <3>4. QED
      BY <3>2, <3>3 DEF TypeOK
  <2>25. ASSUME NEW p \in Finalizers, OrphanRow(p) PROVE TypeOK'
    <3>1. target[p] \in Requests /\ "interrupted" \in RunStates
      BY <2>25, <2>0 DEF TypeOK, Holdings, OrphanRow, At, UsesTarget, RunStates, Terminal
    <3>2. VarTypes'
      BY <2>0, <2>25, <3>1, FinishRunFacts, GotoFacts, LabelFacts
      DEF TypeOK, VarTypes, OrphanRow, daemon, locals, tallies
    <3>3. Holdings'
      BY <2>0, <2>25, <3>1, GotoFacts, LabelFacts
      DEF TypeOK, VarTypes, Holdings, OrphanRow, At, Owning, UsesSeen, UsesOutcome, UsesTarget, locals
    <3>4. QED
      BY <3>2, <3>3 DEF TypeOK
  <2>26. ASSUME NEW p \in Finalizers, OrphanClear(p) PROVE TypeOK'
    <3>1. "interrupted" \in RunStates
      BY DEF RunStates, Terminal
    <3>2. VarTypes'
      BY <2>0, <2>26, <3>1, SetRecentFacts, GotoFacts, LabelFacts
      DEF TypeOK, VarTypes, OrphanClear, daemon, locals, tallies, AfterOrphan, AfterInterrupt
    <3>3. Holdings'
      BY <2>0, <2>26, <3>1, GotoFacts, LabelFacts
      DEF TypeOK, VarTypes, Holdings, OrphanClear, At, Owning, UsesSeen, UsesOutcome, UsesTarget, locals, AfterOrphan, AfterInterrupt
    <3>4. QED
      BY <3>2, <3>3 DEF TypeOK
  <2>27. ASSUME BootStart PROVE TypeOK'
    <3>1. VarTypes'
      BY <2>0, <2>27, GotoFacts, LabelFacts
      DEF TypeOK, VarTypes, BootStart, db, daemon, locals
    <3>2. Holdings'
      BY <2>0, <2>27, GotoFacts, LabelFacts
      DEF TypeOK, VarTypes, Holdings, BootStart, At, Owning, UsesSeen, UsesOutcome, UsesTarget, locals
    <3>3. QED
      BY <3>1, <3>2 DEF TypeOK
  <2>28. ASSUME BootListRows PROVE TypeOK'
    <3>1. VarTypes'
      BY <2>0, <2>28, GotoFacts, LabelFacts
      DEF TypeOK, VarTypes, BootListRows, Fault, db, daemon, tallies
    <3>2. Holdings'
      BY <2>0, <2>28, GotoFacts, LabelFacts
      DEF TypeOK, VarTypes, Holdings, BootListRows, At, Owning, UsesSeen, UsesOutcome, UsesTarget
    <3>3. QED
      BY <3>1, <3>2 DEF TypeOK
  <2>29. ASSUME BootFinishRow PROVE TypeOK'
    <3>1. "interrupted" \in RunStates
      BY DEF RunStates, Terminal
    <3>2. VarTypes'
      BY <2>0, <2>29, <3>1, FinishRunFacts, GotoFacts, LabelFacts
      DEF TypeOK, VarTypes, BootFinishRow, daemon, tallies
    <3>3. Holdings'
      BY <2>0, <2>29, <3>1, GotoFacts, LabelFacts
      DEF TypeOK, VarTypes, Holdings, BootFinishRow, At, Owning, UsesSeen, UsesOutcome, UsesTarget
    <3>4. QED
      BY <3>2, <3>3 DEF TypeOK
  <2>30. ASSUME BootClearRow PROVE TypeOK'
    <3>1. "interrupted" \in RunStates
      BY DEF RunStates, Terminal
    <3>2. VarTypes'
      BY <2>0, <2>30, <3>1, SetRecentFacts, GotoFacts, LabelFacts
      DEF TypeOK, VarTypes, BootClearRow, daemon, locals, tallies
    <3>3. Holdings'
      BY <2>0, <2>30, <3>1, GotoFacts, LabelFacts
      DEF TypeOK, VarTypes, Holdings, BootClearRow, At, Owning, UsesSeen, UsesOutcome, UsesTarget, locals
    <3>4. QED
      BY <3>2, <3>3 DEF TypeOK
  <2>31. ASSUME BootListen PROVE TypeOK'
    <3>1. VarTypes'
      BY <2>0, <2>31, GotoFacts, LabelFacts
      DEF TypeOK, VarTypes, BootListen, db, locals, counters, tallies
    <3>2. Holdings'
      BY <2>0, <2>31, GotoFacts, LabelFacts
      DEF TypeOK, VarTypes, Holdings, BootListen, At, Owning, UsesSeen, UsesOutcome, UsesTarget, locals
    <3>3. QED
      BY <3>1, <3>2 DEF TypeOK
  <2>32. ASSUME NEW p \in Procs, Bump(p) PROVE TypeOK'
    <3>1. recent' \in RecentRow \cup {None} /\ faults' \in Nat
      <4>1. recent \in RecentRow \cup {None} /\ faults \in Nat /\ pend[p] \in Nat
        BY DEF TypeOK, VarTypes
      <4>2. recent \in RecentRow => [recent EXCEPT !.lastSeq = pend[p]] \in RecentRow
        BY <4>1 DEF RecentRow
      <4>3. Write(recent' = IF recent = None \/ recent.lastSeq > pend[p] THEN recent
                            ELSE [recent EXCEPT !.lastSeq = pend[p]], recent)
        BY <2>32 DEF Bump
      <4>4. QED
        BY <4>1, <4>2, <4>3 DEF Write, Fault
    <3>2. VarTypes'
      BY <2>32, <3>1 DEF TypeOK, VarTypes, Bump, daemon, locals, tallies
    <3>3. Holdings'
      BY <2>32 DEF TypeOK, Holdings, Bump, locals
    <3>4. QED
      BY <3>2, <3>3 DEF TypeOK
  <2>33. ASSUME Crash PROVE TypeOK'
    <3>1. pc \in [Procs -> Labels] /\ pend \in [Procs -> Nat] /\ crashes \in Nat
      BY DEF TypeOK, VarTypes
    <3>2. /\ pc' = [p \in Procs |-> IF p \notin Requests \cup Callers \/ pc[p] \in Resting
                                   THEN pc[p] ELSE IF p = Boot THEN "idle" ELSE "lost"]
          /\ pend' = [p \in Procs |-> IF p \in Requests \cup Callers THEN 0 ELSE pend[p]]
          /\ crashes' = crashes + 1
      BY <2>33 DEF Crash, Die
    <3>3. pc' \in [Procs -> Labels] /\ pend' \in [Procs -> Nat] /\ crashes' \in Nat
      BY <3>1, <3>2, LabelFacts
    <3>4. VarTypes'
      BY <2>33, <3>3 DEF TypeOK, VarTypes, Crash, db
    <3>5. \A p \in Procs : pc'[p] \in UsesTarget => pc'[p] = pc[p]
      BY <3>2 DEF UsesTarget
    <3>6. \A r \in Requests : pc'[r] \notin UsesSeen \cup UsesOutcome
      BY <2>0, <3>2 DEF UsesSeen, UsesOutcome, Owning, Resting
    <3>7. target' = target
      BY <2>33 DEF Crash
    <3>8. Holdings'
      BY <3>5, <3>6, <3>7 DEF TypeOK, Holdings
    <3>9. QED
      BY <3>4, <3>8 DEF TypeOK
  <2>34. ASSUME BootCrash PROVE TypeOK'
    <3>1. pc \in [Procs -> Labels] /\ pend \in [Procs -> Nat] /\ crashes \in Nat
      BY DEF TypeOK, VarTypes
    <3>2. /\ pc' = [p \in Procs |-> IF p \notin {Boot} \/ pc[p] \in Resting
                                   THEN pc[p] ELSE IF p = Boot THEN "idle" ELSE "lost"]
          /\ pend' = [p \in Procs |-> IF p \in {Boot} THEN 0 ELSE pend[p]]
          /\ crashes' = crashes + 1
      BY <2>34 DEF BootCrash, Die
    <3>3. pc' \in [Procs -> Labels] /\ pend' \in [Procs -> Nat] /\ crashes' \in Nat
      BY <3>1, <3>2, LabelFacts
    <3>4. VarTypes'
      BY <2>34, <3>3 DEF TypeOK, VarTypes, BootCrash, db, daemon, locals
    <3>5. \A p \in Procs : pc'[p] = pc[p] \/ pc'[p] = "idle"
      BY <3>2
    <3>6. seen' = seen /\ outcome' = outcome /\ target' = target
      BY <2>34 DEF BootCrash, locals
    <3>7. Holdings'
      BY <2>0, <3>5, <3>6 DEF TypeOK, Holdings, UsesSeen, UsesOutcome, UsesTarget, Owning
    <3>8. QED
      BY <3>4, <3>7 DEF TypeOK
  <2>35. CASE UNCHANGED vars
    BY <2>35 DEF TypeOK, VarTypes, Holdings, vars, db, daemon, locals, counters, tallies
  <2>36. QED
    <3>1. ASSUME NEW r \in Requests, Send(r) PROVE TypeOK'
      BY <3>1, <2>1, <2>2, <2>3, <2>4, <2>5, <2>6, <2>7, <2>8, <2>9, <2>10 DEF Send
    <3>2. ASSUME NEW r \in Requests, RunProvider(r) PROVE TypeOK'
      BY <3>2, <2>11, <2>12, <2>13, <2>14, <2>15, <2>16, <2>17, <2>18
      DEF RunProvider, Finalize
    <3>3. ASSUME NEW p \in Finalizers, FinalizeOrphan(p) PROVE TypeOK'
      BY <3>3, <2>23, <2>24, <2>25, <2>26 DEF FinalizeOrphan
    <3>4. ASSUME NEW c \in Callers, Interrupt(c) PROVE TypeOK'
      BY <3>4, <2>0, <2>19, <2>20, <2>21, <2>22, <3>3 DEF Interrupt
    <3>5. ASSUME Reconcile PROVE TypeOK'
      BY <3>5, <2>0, <2>27, <2>28, <2>29, <2>30, <2>31, <3>3 DEF Reconcile
    <3>6. QED
      BY <2>32, <2>33, <2>34, <2>35, <3>1, <3>2, <3>4, <3>5 DEF Next
<1>3. QED
  BY <1>1, <1>2, PTL DEF Spec

\* One run at a time, for any number of sends, interrupts, deletions and deaths: the
\* map's entry is the run that will give it back.  With the types it is inductive.
THEOREM OneOwnerHolds == Spec => []OneOwner
<1>1. Init => OneOwner
  BY ProcsAssumption DEF Init, OneOwner, Owning, Procs
<1>2. TypeOK /\ OneOwner /\ [Next]_vars => OneOwner'
  <2> SUFFICES ASSUME TypeOK, OneOwner, [Next]_vars PROVE OneOwner'
    OBVIOUS
  <2>0. /\ pc \in [Procs -> Labels] /\ Requests \subseteq Procs /\ None \notin Requests
        /\ \A c \in Callers : c \in Procs \ Requests
        /\ \A p \in Finalizers : p \in Procs \ Requests
        /\ Boot \in Procs \ Requests
    BY ProcsAssumption DEF TypeOK, VarTypes, Procs, Finalizers
  <2>1. ASSUME NEW r \in Requests, SendBegin(r) PROVE OneOwner'
    BY <2>0, <2>1 DEF SendBegin, Goto, At, OneOwner, Owning, daemon
  <2>2. ASSUME NEW r \in Requests, SendCheckIntent(r) PROVE OneOwner'
    BY <2>0, <2>2 DEF SendCheckIntent, Goto, At, OneOwner, Owning, daemon
  <2>3. ASSUME NEW r \in Requests, SendUpdateModel(r) PROVE OneOwner'
    BY <2>0, <2>3 DEF SendUpdateModel, Goto, At, OneOwner, Owning, daemon
  <2>4. ASSUME NEW r \in Requests, SendStageImages(r) PROVE OneOwner'
    BY <2>0, <2>4 DEF SendStageImages, Goto, At, OneOwner, Owning, daemon
  <2>5. ASSUME NEW r \in Requests, SendAcquire(r) PROVE OneOwner'
    BY <2>0, <2>5 DEF SendAcquire, Goto, At, OneOwner, Owning, daemon
  <2>6. ASSUME NEW r \in Requests, SendPutIntent(r) PROVE OneOwner'
    BY <2>0, <2>6 DEF SendPutIntent, Goto, At, OneOwner, Owning, daemon
  <2>7. ASSUME NEW r \in Requests, SendUserMessage(r) PROVE OneOwner'
    BY <2>0, <2>7 DEF SendUserMessage, Goto, At, OneOwner, Owning, daemon
  <2>8. ASSUME NEW r \in Requests, SendCreateRun(r) PROVE OneOwner'
    BY <2>0, <2>8 DEF SendCreateRun, Goto, At, OneOwner, Owning, daemon
  <2>9. ASSUME NEW r \in Requests, SendRunStarted(r) PROVE OneOwner'
    BY <2>0, <2>9 DEF SendRunStarted, Goto, At, OneOwner, Owning, daemon
  <2>10. ASSUME NEW r \in Requests, SendTouchRunning(r) PROVE OneOwner'
    BY <2>0, <2>10 DEF SendTouchRunning, Goto, At, OneOwner, Owning, daemon
  <2>11. ASSUME NEW r \in Requests, ProviderOutput(r) PROVE OneOwner'
    BY <2>0, <2>11 DEF ProviderOutput, Goto, At, OneOwner, Owning, daemon
  <2>12. ASSUME NEW r \in Requests, ProviderSystem(r) PROVE OneOwner'
    BY <2>0, <2>12 DEF ProviderSystem, Goto, At, OneOwner, Owning, daemon
  <2>13. ASSUME NEW r \in Requests, ProviderReturn(r) PROVE OneOwner'
    BY <2>0, <2>13 DEF ProviderReturn, Goto, At, OneOwner, Owning, daemon
  <2>14. ASSUME NEW r \in Requests, FinalizeError(r) PROVE OneOwner'
    BY <2>0, <2>14 DEF FinalizeError, Goto, At, OneOwner, Owning, daemon
  <2>15. ASSUME NEW r \in Requests, FinalizeRunFinished(r) PROVE OneOwner'
    BY <2>0, <2>15 DEF FinalizeRunFinished, Goto, At, OneOwner, Owning, daemon
  <2>16. ASSUME NEW r \in Requests, FinalizeRow(r) PROVE OneOwner'
    BY <2>0, <2>16 DEF FinalizeRow, Goto, At, OneOwner, Owning, daemon
  <2>17. ASSUME NEW r \in Requests, FinalizeTouchRecent(r) PROVE OneOwner'
    BY <2>0, <2>17 DEF FinalizeTouchRecent, Goto, At, OneOwner, Owning, daemon
  <2>18. ASSUME NEW r \in Requests, FinalizeRelease(r) PROVE OneOwner'
    BY <2>0, <2>18 DEF FinalizeRelease, Goto, At, OneOwner, Owning, daemon
  <2>19. ASSUME NEW c \in Callers, InterruptRead(c) PROVE OneOwner'
    BY <2>0, <2>19 DEF InterruptRead, Goto, At, OneOwner, Owning, daemon
  <2>20. ASSUME NEW c \in Callers, InterruptCancel(c) PROVE OneOwner'
    BY <2>0, <2>20 DEF InterruptCancel, Goto, At, OneOwner, Owning, daemon
  <2>21. ASSUME NEW c \in Callers, DeleteUploads(c) PROVE OneOwner'
    BY <2>0, <2>21 DEF DeleteUploads, Goto, At, OneOwner, Owning, daemon
  <2>22. ASSUME NEW c \in Callers, DeleteRows(c) PROVE OneOwner'
    BY <2>0, <2>22 DEF DeleteRows, Goto, At, OneOwner, Owning, daemon
  <2>23. ASSUME NEW p \in Finalizers, OrphanRead(p) PROVE OneOwner'
    BY <2>0, <2>23 DEF OrphanRead, Goto, At, OneOwner, Owning, daemon
  <2>24. ASSUME NEW p \in Finalizers, OrphanFinished(p) PROVE OneOwner'
    BY <2>0, <2>24 DEF OrphanFinished, Goto, At, OneOwner, Owning, daemon
  <2>25. ASSUME NEW p \in Finalizers, OrphanRow(p) PROVE OneOwner'
    BY <2>0, <2>25 DEF OrphanRow, Goto, At, OneOwner, Owning, daemon
  <2>26. ASSUME NEW p \in Finalizers, OrphanClear(p) PROVE OneOwner'
    BY <2>0, <2>26 DEF OrphanClear, Goto, At, OneOwner, Owning, daemon
  <2>27. ASSUME BootStart PROVE OneOwner'
    BY <2>0, <2>27 DEF BootStart, Goto, At, OneOwner, Owning, daemon
  <2>28. ASSUME BootListRows PROVE OneOwner'
    BY <2>0, <2>28 DEF BootListRows, Goto, At, OneOwner, Owning, daemon
  <2>29. ASSUME BootFinishRow PROVE OneOwner'
    BY <2>0, <2>29 DEF BootFinishRow, Goto, At, OneOwner, Owning, daemon
  <2>30. ASSUME BootClearRow PROVE OneOwner'
    BY <2>0, <2>30 DEF BootClearRow, Goto, At, OneOwner, Owning, daemon
  <2>31. ASSUME BootListen PROVE OneOwner'
    BY <2>0, <2>31 DEF BootListen, Goto, At, OneOwner, Owning, daemon
  <2>32. ASSUME NEW p \in Procs, Bump(p) PROVE OneOwner'
    BY <2>0, <2>32 DEF Bump, Goto, At, OneOwner, Owning, daemon
  <2>33. ASSUME Crash PROVE OneOwner'
    BY <2>0, <2>33 DEF Crash, Goto, At, OneOwner, Owning, daemon, Die, Resting
  <2>34. ASSUME BootCrash PROVE OneOwner'
    BY <2>0, <2>34 DEF BootCrash, Goto, At, OneOwner, Owning, daemon, Die
  <2>35. CASE UNCHANGED vars
    BY <2>35 DEF OneOwner, vars, daemon
  <2>36. QED
    <3>1. ASSUME NEW r \in Requests, Send(r) PROVE OneOwner'
      BY <3>1, <2>1, <2>2, <2>3, <2>4, <2>5, <2>6, <2>7, <2>8, <2>9, <2>10 DEF Send
    <3>2. ASSUME NEW r \in Requests, RunProvider(r) PROVE OneOwner'
      BY <3>2, <2>11, <2>12, <2>13, <2>14, <2>15, <2>16, <2>17, <2>18
      DEF RunProvider, Finalize
    <3>3. ASSUME NEW p \in Finalizers, FinalizeOrphan(p) PROVE OneOwner'
      BY <3>3, <2>23, <2>24, <2>25, <2>26 DEF FinalizeOrphan
    <3>4. ASSUME NEW c \in Callers, Interrupt(c) PROVE OneOwner'
      BY <3>4, <2>19, <2>20, <2>21, <2>22, <3>3 DEF Interrupt, Finalizers
    <3>5. ASSUME Reconcile PROVE OneOwner'
      BY <3>5, <2>27, <2>28, <2>29, <2>30, <2>31, <3>3 DEF Reconcile, Finalizers
    <3>6. QED
      BY <2>32, <2>33, <2>34, <2>35, <3>1, <3>2, <3>4, <3>5 DEF Next
<1>3. QED
  BY <1>1, <1>2, TypeCorrect, PTL DEF Spec

\* Where a run is while the ledger's tail shows it, in a daemon that serves.
Settling == {"touch_running", "provider", "error", "run_finished"}

\* Where a starting process is once its first pass has settled the ledger.
Reconciled == {"orphan_row", "orphan_clear", "running_rows", "finish_row", "clear_row"}

\* The invariant behind DanglingRunIsLive.  A run the tail shows is in the part of
\* its life between its two boundaries (OneOwner makes it the active run); after a
\* death no request is under way, so nothing can begin a run between the first pass
\* of reconciliation and Listen.
Quiet == up \/ \A r \in Requests : pc[r] \in Resting
Settled ==
  (faults = 0 /\ duplicates = 0) =>
    /\ up => pc[Boot] = "idle"
    /\ up => \A r \in DanglingRuns(ledger) : pc[r] \in Settling
    /\ pc[Boot] \in Reconciled => DanglingRuns(ledger) = {}
LiveInv == Quiet /\ Settled

\* LiveInv holds in every reachable state.
THEOREM LiveInvHolds == Spec => []LiveInv
<1>1. Init => LiveInv
  BY DanglingEmpty, ProcsAssumption
  DEF Init, LiveInv, Quiet, Settled, Resting, Reconciled, Procs
<1>2. TypeOK /\ LiveInv /\ [Next]_vars => LiveInv'
  <2> SUFFICES ASSUME TypeOK, LiveInv, [Next]_vars PROVE LiveInv'
    OBVIOUS
  <2>0. /\ pc \in [Procs -> Labels] /\ ledger \in Seq(EventSet)
        /\ faults \in Nat /\ duplicates \in Nat
        /\ DanglingRuns(ledger) \subseteq Requests /\ Requests \subseteq Procs
        /\ \A c \in Callers : c \in Procs /\ c \notin Requests /\ c # Boot
        /\ \A p \in Finalizers : p \in Procs /\ p \notin Requests
        /\ Boot \in Procs /\ Boot \notin Requests
    BY ProcsAssumption
    DEF TypeOK, VarTypes, Procs, Finalizers, DanglingRuns, EventSet
  <2>1. ASSUME NEW r \in Requests, SendBegin(r) PROVE LiveInv'
    BY <2>0, <2>1 DEF LiveInv, Quiet, Settled, Settling, Reconciled, Resting, Goto, At, SendBegin, db, daemon, counters, tallies
  <2>2. ASSUME NEW r \in Requests, SendCheckIntent(r) PROVE LiveInv'
    BY <2>0, <2>2 DEF LiveInv, Quiet, Settled, Settling, Reconciled, Resting, Goto, At, SendCheckIntent, db, daemon, tallies, Fault
  <2>3. ASSUME NEW r \in Requests, SendUpdateModel(r) PROVE LiveInv'
    BY <2>0, <2>3 DEF LiveInv, Quiet, Settled, Settling, Reconciled, Resting, Goto, At, SendUpdateModel, daemon, tallies, Write, Fault
  <2>4. ASSUME NEW r \in Requests, SendStageImages(r) PROVE LiveInv'
    BY <2>0, <2>4 DEF LiveInv, Quiet, Settled, Settling, Reconciled, Resting, Goto, At, SendStageImages, daemon, locals, tallies, Write, Fault
  <2>5. ASSUME NEW r \in Requests, SendAcquire(r) PROVE LiveInv'
    BY <2>0, <2>5 DEF LiveInv, Quiet, Settled, Settling, Reconciled, Resting, Goto, At, SendAcquire, db, locals, counters, tallies
  <2>6. ASSUME NEW r \in Requests, SendPutIntent(r) PROVE LiveInv'
    BY <2>0, <2>6 DEF LiveInv, Quiet, Settled, Settling, Reconciled, Resting, Goto, At, SendPutIntent, daemon, locals, tallies, Write, Fault
  <2>7. ASSUME NEW r \in Requests, SendUserMessage(r) PROVE LiveInv'
    <3>1. Event("user_message", r) \in EventSet /\ Commit(r, Event("user_message", r))
      BY <2>0, <2>7 DEF TypeOK, Holdings, SendUserMessage, At, UsesOutcome, UsesTarget, Event, EventSet, Terminal
    <3>2. Event("user_message", r).type \notin Boundary
      BY DEF Event, Boundary
    <3>3. CASE ledger' = Append(ledger, Event("user_message", r)) /\ faults' = faults
      <4>1. DanglingRuns(ledger') = DanglingRuns(ledger)
        BY <2>0, <3>1, <3>2, <3>3, DanglingOther
      <4>2. QED
        BY <2>0, <2>7, <3>3, <4>1
        DEF SendUserMessage, LiveInv, Quiet, Settled, Settling, Reconciled, Resting, Goto, At, daemon, tallies
    <3>4. CASE ledger' = ledger /\ faults' > 0
      BY <2>0, <2>7, <3>4 DEF SendUserMessage, LiveInv, Quiet, Settled, Resting, Goto, At, daemon, tallies
    <3>5. QED
      BY <2>0, <3>1, <3>3, <3>4, CommitFacts DEF TypeOK
  <2>8. ASSUME NEW r \in Requests, SendCreateRun(r) PROVE LiveInv'
    BY <2>0, <2>8 DEF LiveInv, Quiet, Settled, Settling, Reconciled, Resting, Goto, At, SendCreateRun, daemon, locals, tallies, Write, Fault
  <2>9. ASSUME NEW r \in Requests, SendRunStarted(r) PROVE LiveInv'
    <3>1. Event("run_started", r) \in EventSet /\ Commit(r, Event("run_started", r))
      BY <2>0, <2>9 DEF TypeOK, Holdings, SendRunStarted, At, UsesOutcome, UsesTarget, Event, EventSet, Terminal
    <3>2. Event("run_started", r).type = "run_started" /\ Event("run_started", r).run = r
      BY DEF Event, Boundary
    <3>3. CASE ledger' = Append(ledger, Event("run_started", r)) /\ faults' = faults
      <4>1. DanglingRuns(ledger') = {r}
        BY <2>0, <3>1, <3>2, <3>3, DanglingStarted
      <4>2. QED
        BY <2>0, <2>9, <3>3, <4>1
        DEF SendRunStarted, LiveInv, Quiet, Settled, Settling, Reconciled, Resting, Goto, At, daemon, tallies
    <3>4. CASE ledger' = ledger /\ faults' > 0
      BY <2>0, <2>9, <3>4 DEF SendRunStarted, LiveInv, Quiet, Settled, Resting, Goto, At, daemon, tallies
    <3>5. QED
      BY <2>0, <3>1, <3>3, <3>4, CommitFacts DEF TypeOK
  <2>10. ASSUME NEW r \in Requests, SendTouchRunning(r) PROVE LiveInv'
    BY <2>0, <2>10 DEF LiveInv, Quiet, Settled, Settling, Reconciled, Resting, Goto, At, SendTouchRunning, daemon, locals, tallies, SetRecent, Write, Fault
  <2>11. ASSUME NEW r \in Requests, ProviderOutput(r) PROVE LiveInv'
    <3>1. Event("output", r) \in EventSet /\ Commit(r, Event("output", r))
      BY <2>0, <2>11 DEF TypeOK, Holdings, ProviderOutput, At, UsesOutcome, UsesTarget, Event, EventSet, Terminal
    <3>2. Event("output", r).type \notin Boundary
      BY DEF Event, Boundary
    <3>3. CASE ledger' = Append(ledger, Event("output", r)) /\ faults' = faults
      <4>1. DanglingRuns(ledger') = DanglingRuns(ledger)
        BY <2>0, <3>1, <3>2, <3>3, DanglingOther
      <4>2. QED
        BY <2>0, <2>11, <3>3, <4>1
        DEF ProviderOutput, LiveInv, Quiet, Settled, Settling, Reconciled, Resting, Goto, At, daemon, tallies
    <3>4. CASE ledger' = ledger /\ faults' > 0
      BY <2>0, <2>11, <3>4 DEF ProviderOutput, LiveInv, Quiet, Settled, Resting, Goto, At, daemon, tallies
    <3>5. QED
      BY <2>0, <3>1, <3>3, <3>4, CommitFacts DEF TypeOK
  <2>12. ASSUME NEW r \in Requests, ProviderSystem(r) PROVE LiveInv'
    BY <2>0, <2>12 DEF LiveInv, Quiet, Settled, Settling, Reconciled, Resting, Goto, At, ProviderSystem, daemon, tallies, Write, Fault
  <2>13. ASSUME NEW r \in Requests, ProviderReturn(r) PROVE LiveInv'
    BY <2>0, <2>13 DEF LiveInv, Quiet, Settled, Settling, Reconciled, Resting, Goto, At, ProviderReturn, db, daemon, counters, tallies
  <2>14. ASSUME NEW r \in Requests, FinalizeError(r) PROVE LiveInv'
    <3>1. Event("error", r) \in EventSet /\ Commit(r, Event("error", r))
      BY <2>0, <2>14 DEF TypeOK, Holdings, FinalizeError, At, UsesOutcome, UsesTarget, Event, EventSet, Terminal
    <3>2. Event("error", r).type \notin Boundary
      BY DEF Event, Boundary
    <3>3. CASE ledger' = Append(ledger, Event("error", r)) /\ faults' = faults
      <4>1. DanglingRuns(ledger') = DanglingRuns(ledger)
        BY <2>0, <3>1, <3>2, <3>3, DanglingOther
      <4>2. QED
        BY <2>0, <2>14, <3>3, <4>1
        DEF FinalizeError, LiveInv, Quiet, Settled, Settling, Reconciled, Resting, Goto, At, daemon, tallies
    <3>4. CASE ledger' = ledger /\ faults' > 0
      BY <2>0, <2>14, <3>4 DEF FinalizeError, LiveInv, Quiet, Settled, Resting, Goto, At, daemon, tallies
    <3>5. QED
      BY <2>0, <3>1, <3>3, <3>4, CommitFacts DEF TypeOK
  <2>15. ASSUME NEW r \in Requests, FinalizeRunFinished(r) PROVE LiveInv'
    <3>1. RunFinished(r, outcome[r]) \in EventSet /\ Commit(r, RunFinished(r, outcome[r]))
      BY <2>0, <2>15 DEF TypeOK, Holdings, FinalizeRunFinished, At, UsesOutcome, UsesTarget, RunFinished, EventSet, Terminal
    <3>2. RunFinished(r, outcome[r]).type = "run_finished"
      BY DEF RunFinished, Boundary
    <3>3. CASE ledger' = Append(ledger, RunFinished(r, outcome[r])) /\ faults' = faults
      <4>1. DanglingRuns(ledger') = {}
        BY <2>0, <3>1, <3>2, <3>3, DanglingFinished
      <4>2. QED
        BY <2>0, <2>15, <3>3, <4>1
        DEF FinalizeRunFinished, LiveInv, Quiet, Settled, Settling, Reconciled, Resting, Goto, At, daemon, tallies
    <3>4. CASE ledger' = ledger /\ faults' > 0
      BY <2>0, <2>15, <3>4 DEF FinalizeRunFinished, LiveInv, Quiet, Settled, Resting, Goto, At, daemon, tallies
    <3>5. QED
      BY <2>0, <3>1, <3>3, <3>4, CommitFacts DEF TypeOK
  <2>16. ASSUME NEW r \in Requests, FinalizeRow(r) PROVE LiveInv'
    BY <2>0, <2>16 DEF LiveInv, Quiet, Settled, Settling, Reconciled, Resting, Goto, At, FinalizeRow, daemon, locals, tallies, FinishRun, Write, Fault
  <2>17. ASSUME NEW r \in Requests, FinalizeTouchRecent(r) PROVE LiveInv'
    BY <2>0, <2>17 DEF LiveInv, Quiet, Settled, Settling, Reconciled, Resting, Goto, At, FinalizeTouchRecent, daemon, locals, tallies, SetRecent, Write, Fault
  <2>18. ASSUME NEW r \in Requests, FinalizeRelease(r) PROVE LiveInv'
    BY <2>0, <2>18 DEF LiveInv, Quiet, Settled, Settling, Reconciled, Resting, Goto, At, FinalizeRelease, db, locals, counters, tallies
  <2>19. ASSUME NEW c \in Callers, InterruptRead(c) PROVE LiveInv'
    BY <2>0, <2>19 DEF LiveInv, Quiet, Settled, Settling, Reconciled, Resting, Goto, At, InterruptRead, db, daemon, counters, tallies
  <2>20. ASSUME NEW c \in Callers, InterruptCancel(c) PROVE LiveInv'
    BY <2>0, <2>20 DEF LiveInv, Quiet, Settled, Settling, Reconciled, Resting, Goto, At, InterruptCancel, db, locals, counters, tallies
  <2>21. ASSUME NEW c \in Callers, DeleteUploads(c) PROVE LiveInv'
    BY <2>0, <2>21 DEF LiveInv, Quiet, Settled, Settling, Reconciled, Resting, Goto, At, DeleteUploads, daemon, locals, counters, tallies
  <2>22. ASSUME NEW c \in Callers, DeleteRows(c) PROVE LiveInv'
    <3>1. \/ ledger' = <<>> /\ faults' = faults
          \/ ledger' = ledger /\ faults' > 0
      BY <2>0, <2>22 DEF DeleteRows, Write, Fault
    <3>2. QED
      BY <2>0, <2>22, <3>1, DanglingEmpty
      DEF DeleteRows, LiveInv, Quiet, Settled, Reconciled, Resting, Goto, At, daemon, tallies
  <2>23. ASSUME NEW p \in Finalizers, OrphanRead(p) PROVE LiveInv'
    BY <2>0, <2>23 DEF LiveInv, Quiet, Settled, Settling, Reconciled, Resting, Goto, At, OrphanRead, db, daemon, tallies, Fault, AfterOrphan, AfterInterrupt
  <2>24. ASSUME NEW p \in Finalizers, OrphanFinished(p) PROVE LiveInv'
    <3>1. RunFinished(target[p], "interrupted") \in EventSet /\ Commit(p, RunFinished(target[p], "interrupted"))
      BY <2>0, <2>24 DEF TypeOK, Holdings, OrphanFinished, At, UsesOutcome, UsesTarget, RunFinished, EventSet, Terminal
    <3>2. RunFinished(target[p], "interrupted").type = "run_finished"
      BY DEF RunFinished, Boundary
    <3>3. CASE ledger' = Append(ledger, RunFinished(target[p], "interrupted")) /\ faults' = faults
      <4>1. DanglingRuns(ledger') = {}
        BY <2>0, <3>1, <3>2, <3>3, DanglingFinished
      <4>2. QED
        BY <2>0, <2>24, <3>3, <4>1
        DEF OrphanFinished, LiveInv, Quiet, Settled, Settling, Reconciled, Resting, Goto, At, daemon, tallies
    <3>4. CASE ledger' = ledger /\ faults' > 0
      BY <2>0, <2>24, <3>4 DEF OrphanFinished, LiveInv, Quiet, Settled, Resting, Goto, At, daemon, tallies
    <3>5. QED
      BY <2>0, <3>1, <3>3, <3>4, CommitFacts DEF TypeOK
  <2>25. ASSUME NEW p \in Finalizers, OrphanRow(p) PROVE LiveInv'
    BY <2>0, <2>25 DEF LiveInv, Quiet, Settled, Settling, Reconciled, Resting, Goto, At, OrphanRow, daemon, locals, tallies, FinishRun, Write, Fault
  <2>26. ASSUME NEW p \in Finalizers, OrphanClear(p) PROVE LiveInv'
    BY <2>0, <2>26 DEF LiveInv, Quiet, Settled, Settling, Reconciled, Resting, Goto, At, OrphanClear, daemon, locals, tallies, SetRecent, Write, Fault, AfterOrphan, AfterInterrupt
  <2>27. ASSUME BootStart PROVE LiveInv'
    BY <2>0, <2>27 DEF LiveInv, Quiet, Settled, Settling, Reconciled, Resting, Goto, At, BootStart, db, daemon, locals
  <2>28. ASSUME BootListRows PROVE LiveInv'
    BY <2>0, <2>28 DEF LiveInv, Quiet, Settled, Settling, Reconciled, Resting, Goto, At, BootListRows, db, daemon, tallies, Fault
  <2>29. ASSUME BootFinishRow PROVE LiveInv'
    BY <2>0, <2>29 DEF LiveInv, Quiet, Settled, Settling, Reconciled, Resting, Goto, At, BootFinishRow, daemon, tallies, FinishRun, Write, Fault
  <2>30. ASSUME BootClearRow PROVE LiveInv'
    BY <2>0, <2>30 DEF LiveInv, Quiet, Settled, Settling, Reconciled, Resting, Goto, At, BootClearRow, daemon, locals, tallies, SetRecent, Write, Fault
  <2>31. ASSUME BootListen PROVE LiveInv'
    BY <2>0, <2>31 DEF LiveInv, Quiet, Settled, Settling, Reconciled, Resting, Goto, At, BootListen, db, locals, counters, tallies
  <2>32. ASSUME NEW p \in Procs, Bump(p) PROVE LiveInv'
    BY <2>0, <2>32 DEF LiveInv, Quiet, Settled, Settling, Reconciled, Resting, Goto, At, Bump, daemon, locals, tallies, Write, Fault
  <2>33. ASSUME Crash PROVE LiveInv'
    BY <2>0, <2>33 DEF LiveInv, Quiet, Settled, Reconciled, Resting, Crash, Die, db
  <2>34. ASSUME BootCrash PROVE LiveInv'
    BY <2>0, <2>34 DEF LiveInv, Quiet, Settled, Reconciled, Resting, BootCrash, Die, db, daemon
  <2>35. CASE UNCHANGED vars
    BY <2>35 DEF LiveInv, Quiet, Settled, vars, db, daemon, counters, tallies
  <2>36. QED
    <3>1. ASSUME NEW r \in Requests, Send(r) PROVE LiveInv'
      BY <3>1, <2>1, <2>2, <2>3, <2>4, <2>5, <2>6, <2>7, <2>8, <2>9, <2>10 DEF Send
    <3>2. ASSUME NEW r \in Requests, RunProvider(r) PROVE LiveInv'
      BY <3>2, <2>11, <2>12, <2>13, <2>14, <2>15, <2>16, <2>17, <2>18
      DEF RunProvider, Finalize
    <3>3. ASSUME NEW p \in Finalizers, FinalizeOrphan(p) PROVE LiveInv'
      BY <3>3, <2>23, <2>24, <2>25, <2>26 DEF FinalizeOrphan
    <3>4. ASSUME NEW c \in Callers, Interrupt(c) PROVE LiveInv'
      BY <3>4, <2>19, <2>20, <2>21, <2>22, <3>3 DEF Interrupt, Finalizers
    <3>5. ASSUME Reconcile PROVE LiveInv'
      BY <3>5, <2>27, <2>28, <2>29, <2>30, <2>31, <3>3 DEF Reconcile, Finalizers
    <3>6. QED
      BY <2>32, <2>33, <2>34, <2>35, <3>1, <3>2, <3>4, <3>5 DEF Next
<1>3. QED
  BY <1>1, <1>2, TypeCorrect, PTL DEF Spec

\* A serving daemon shows no dead run as running, whatever the order in which sends,
\* interrupts, deletions and deaths happen, as long as writes succeed and no second
\* daemon is started beside it.
THEOREM DanglingRunIsLiveHolds == Spec => []DanglingRunIsLive
<1>1. TypeOK /\ OneOwner /\ LiveInv => DanglingRunIsLive
  <2>1. TypeOK => DanglingRuns(ledger) \subseteq Requests
    BY DEF TypeOK, VarTypes, DanglingRuns, EventSet
  <2>2. QED
    BY <2>1 DEF OneOwner, LiveInv, Settled, Settling, Owning, DanglingRunIsLive
<1>2. QED
  BY <1>1, TypeCorrect, OneOwnerHolds, LiveInvHolds, PTL

----------------------------------------------------------------------------
(* The runs table *)

\* Where a run is while its runs row says running, in a daemon that serves.
RowLive == Settling \cup {"run_started", "finish_run"}

\* The invariant behind RunningRowIsLive.  While a daemon serves, a running row is of a
\* run between CreateRun and FinishRun; while none does, no row can become running, so
\* once the second pass has listed the rows it holds every one that is left.
RowsSettled ==
  (faults = 0 /\ duplicates = 0) =>
    /\ up => \A r \in Requests : runs[r] = "running" => pc[r] \in RowLive
    /\ pc[Boot] \in {"finish_row", "clear_row"} =>
         \A r \in Requests : runs[r] = "running" => r \in todo

\* RowsSettled holds in every reachable state.
THEOREM RowsSettledHolds == Spec => []RowsSettled
<1>1. Init => RowsSettled
  BY ProcsAssumption DEF Init, RowsSettled, Procs
<1>2. TypeOK /\ LiveInv /\ RowsSettled /\ [Next]_vars => RowsSettled'
  <2> SUFFICES ASSUME TypeOK, LiveInv, RowsSettled, [Next]_vars PROVE RowsSettled'
    OBVIOUS
  <2>0. /\ pc \in [Procs -> Labels] /\ runs \in [Requests -> RunStates]
        /\ pend \in [Procs -> Nat] /\ faults \in Nat /\ duplicates \in Nat /\ crashes \in Nat
        /\ Requests \subseteq Procs
        /\ \A c \in Callers : c \in Procs /\ c \notin Requests /\ c # Boot
        /\ \A p \in Finalizers : p \in Procs /\ p \notin Requests
        /\ Boot \in Procs /\ Boot \notin Requests /\ None \notin Procs
        /\ \A r \in Requests : pc[r] \in UsesOutcome => outcome[r] \in Terminal
    BY ProcsAssumption DEF TypeOK, VarTypes, Holdings, Procs, Finalizers
  <2>1. ASSUME NEW r \in Requests, SendBegin(r) PROVE RowsSettled'
    BY <2>0, <2>1
    DEF RowsSettled, RowLive, Settling, Goto, At, SendBegin, db, daemon, counters, tallies
  <2>2. ASSUME NEW r \in Requests, SendCheckIntent(r) PROVE RowsSettled'
    BY <2>0, <2>2
    DEF RowsSettled, RowLive, Settling, Goto, At, SendCheckIntent, db, daemon, tallies,
        Fault
  <2>3. ASSUME NEW r \in Requests, SendUpdateModel(r) PROVE RowsSettled'
    BY <2>0, <2>3
    DEF RowsSettled, RowLive, Settling, Goto, At, SendUpdateModel, daemon, tallies, Write,
        Fault
  <2>4. ASSUME NEW r \in Requests, SendStageImages(r) PROVE RowsSettled'
    BY <2>0, <2>4
    DEF RowsSettled, RowLive, Settling, Goto, At, SendStageImages, daemon, locals, tallies,
        Write, Fault
  <2>5. ASSUME NEW r \in Requests, SendAcquire(r) PROVE RowsSettled'
    BY <2>0, <2>5
    DEF RowsSettled, RowLive, Settling, Goto, At, SendAcquire, db, locals, counters, tallies
  <2>6. ASSUME NEW r \in Requests, SendPutIntent(r) PROVE RowsSettled'
    BY <2>0, <2>6
    DEF RowsSettled, RowLive, Settling, Goto, At, SendPutIntent, daemon, locals, tallies,
        Write, Fault
  <2>7. ASSUME NEW r \in Requests, SendUserMessage(r) PROVE RowsSettled'
    BY <2>0, <2>7
    DEF RowsSettled, RowLive, Settling, Goto, At, SendUserMessage, daemon, locals, tallies,
        Commit, Write, Fault
  <2>8. ASSUME NEW r \in Requests, SendCreateRun(r) PROVE RowsSettled'
    BY <2>0, <2>8
    DEF RowsSettled, RowLive, Settling, Goto, At, SendCreateRun, daemon, locals, tallies,
        Write, Fault, LiveInv, Quiet, Settled, Resting
  <2>9. ASSUME NEW r \in Requests, SendRunStarted(r) PROVE RowsSettled'
    BY <2>0, <2>9
    DEF RowsSettled, RowLive, Settling, Goto, At, SendRunStarted, daemon, locals, tallies,
        Commit, Write, Fault
  <2>10. ASSUME NEW r \in Requests, SendTouchRunning(r) PROVE RowsSettled'
    BY <2>0, <2>10
    DEF RowsSettled, RowLive, Settling, Goto, At, SendTouchRunning, daemon, locals, tallies,
        SetRecent, Write, Fault
  <2>11. ASSUME NEW r \in Requests, ProviderOutput(r) PROVE RowsSettled'
    BY <2>0, <2>11
    DEF RowsSettled, RowLive, Settling, Goto, At, ProviderOutput, daemon, locals, Commit,
        Write, Fault
  <2>12. ASSUME NEW r \in Requests, ProviderSystem(r) PROVE RowsSettled'
    BY <2>0, <2>12
    DEF RowsSettled, RowLive, Settling, Goto, At, ProviderSystem, daemon, tallies, Write,
        Fault
  <2>13. ASSUME NEW r \in Requests, ProviderReturn(r) PROVE RowsSettled'
    BY <2>0, <2>13
    DEF RowsSettled, RowLive, Settling, Goto, At, ProviderReturn, db, daemon, counters,
        tallies
  <2>14. ASSUME NEW r \in Requests, FinalizeError(r) PROVE RowsSettled'
    BY <2>0, <2>14
    DEF RowsSettled, RowLive, Settling, Goto, At, FinalizeError, daemon, locals, tallies,
        Commit, Write, Fault
  <2>15. ASSUME NEW r \in Requests, FinalizeRunFinished(r) PROVE RowsSettled'
    BY <2>0, <2>15
    DEF RowsSettled, RowLive, Settling, Goto, At, FinalizeRunFinished, daemon, locals,
        tallies, Commit, Write, Fault
  <2>16. ASSUME NEW r \in Requests, FinalizeRow(r) PROVE RowsSettled'
    BY <2>0, <2>16
    DEF RowsSettled, RowLive, Settling, Goto, At, FinalizeRow, daemon, locals, tallies,
        FinishRun, Write, Fault, UsesOutcome, Terminal
  <2>17. ASSUME NEW r \in Requests, FinalizeTouchRecent(r) PROVE RowsSettled'
    BY <2>0, <2>17
    DEF RowsSettled, RowLive, Settling, Goto, At, FinalizeTouchRecent, daemon, locals,
        tallies, SetRecent, Write, Fault
  <2>18. ASSUME NEW r \in Requests, FinalizeRelease(r) PROVE RowsSettled'
    BY <2>0, <2>18
    DEF RowsSettled, RowLive, Settling, Goto, At, FinalizeRelease, db, locals, counters,
        tallies
  <2>19. ASSUME NEW c \in Callers, InterruptRead(c) PROVE RowsSettled'
    BY <2>0, <2>19
    DEF RowsSettled, RowLive, Settling, Goto, At, InterruptRead, db, daemon, counters,
        tallies
  <2>20. ASSUME NEW c \in Callers, InterruptCancel(c) PROVE RowsSettled'
    BY <2>0, <2>20
    DEF RowsSettled, RowLive, Settling, Goto, At, InterruptCancel, db, locals, counters,
        tallies, AfterInterrupt
  <2>21. ASSUME NEW c \in Callers, DeleteUploads(c) PROVE RowsSettled'
    BY <2>0, <2>21
    DEF RowsSettled, RowLive, Settling, Goto, At, DeleteUploads, daemon, locals, counters,
        tallies
  <2>22. ASSUME NEW c \in Callers, DeleteRows(c) PROVE RowsSettled'
    BY <2>0, <2>22
    DEF RowsSettled, RowLive, Settling, Goto, At, DeleteRows, daemon, locals, tallies,
        Write, Fault
  <2>23. ASSUME NEW p \in Finalizers, OrphanRead(p) PROVE RowsSettled'
    BY <2>0, <2>23
    DEF RowsSettled, RowLive, Settling, Goto, At, OrphanRead, db, daemon, tallies, Fault,
        AfterOrphan, AfterInterrupt
  <2>24. ASSUME NEW p \in Finalizers, OrphanFinished(p) PROVE RowsSettled'
    BY <2>0, <2>24
    DEF RowsSettled, RowLive, Settling, Goto, At, OrphanFinished, daemon, locals, tallies,
        Commit, Write, Fault
  <2>25. ASSUME NEW p \in Finalizers, OrphanRow(p) PROVE RowsSettled'
    BY <2>0, <2>25
    DEF RowsSettled, RowLive, Settling, Goto, At, OrphanRow, daemon, locals, tallies,
        FinishRun, Write, Fault
  <2>26. ASSUME NEW p \in Finalizers, OrphanClear(p) PROVE RowsSettled'
    BY <2>0, <2>26
    DEF RowsSettled, RowLive, Settling, Goto, At, OrphanClear, daemon, locals, tallies,
        SetRecent, Write, Fault, AfterOrphan, AfterInterrupt
  <2>27. ASSUME BootStart PROVE RowsSettled'
    BY <2>0, <2>27
    DEF RowsSettled, RowLive, Settling, Goto, At, BootStart, db, daemon, locals, LiveInv,
        Quiet, Settled, Resting
  <2>28. ASSUME BootListRows PROVE RowsSettled'
    BY <2>0, <2>28
    DEF RowsSettled, RowLive, Settling, Goto, At, BootListRows, db, daemon, tallies, Fault,
        LiveInv, Quiet, Settled, Resting
  <2>29. ASSUME BootFinishRow PROVE RowsSettled'
    BY <2>0, <2>29
    DEF RowsSettled, RowLive, Settling, Goto, At, BootFinishRow, daemon, tallies, FinishRun,
        Write, Fault, LiveInv, Quiet, Settled, Resting
  <2>30. ASSUME BootClearRow PROVE RowsSettled'
    BY <2>0, <2>30
    DEF RowsSettled, RowLive, Settling, Goto, At, BootClearRow, daemon, locals, tallies,
        SetRecent, Write, Fault
  <2>31. ASSUME BootListen PROVE RowsSettled'
    BY <2>0, <2>31
    DEF RowsSettled, RowLive, Settling, Goto, At, BootListen, db, locals, counters, tallies,
        LiveInv, Quiet, Settled, Resting
  <2>32. ASSUME NEW p \in Procs, Bump(p) PROVE RowsSettled'
    BY <2>0, <2>32
    DEF RowsSettled, RowLive, Settling, Goto, At, Bump, daemon, locals, tallies, Write,
        Fault
  <2>33. ASSUME Crash PROVE RowsSettled'
    BY <2>0, <2>33
    DEF RowsSettled, RowLive, Settling, Goto, At, Crash, db, Die, LiveInv, Quiet, Settled,
        Resting
  <2>34. ASSUME BootCrash PROVE RowsSettled'
    BY <2>0, <2>34
    DEF RowsSettled, RowLive, Settling, Goto, At, BootCrash, db, daemon, locals, Die,
        LiveInv, Quiet, Settled, Resting
  <2>35. CASE UNCHANGED vars
    BY <2>35
    DEF RowsSettled, RowLive, Settling, vars, db, daemon, locals, counters, tallies
  <2>36. QED
    <3>1. ASSUME NEW r \in Requests, Send(r) PROVE RowsSettled'
      BY <3>1, <2>1, <2>2, <2>3, <2>4, <2>5, <2>6, <2>7, <2>8, <2>9, <2>10 DEF Send
    <3>2. ASSUME NEW r \in Requests, RunProvider(r) PROVE RowsSettled'
      BY <3>2, <2>11, <2>12, <2>13, <2>14, <2>15, <2>16, <2>17, <2>18
      DEF RunProvider, Finalize
    <3>3. ASSUME NEW p \in Finalizers, FinalizeOrphan(p) PROVE RowsSettled'
      BY <3>3, <2>23, <2>24, <2>25, <2>26 DEF FinalizeOrphan
    <3>4. ASSUME NEW c \in Callers, Interrupt(c) PROVE RowsSettled'
      BY <3>4, <2>19, <2>20, <2>21, <2>22, <3>3 DEF Interrupt, Finalizers
    <3>5. ASSUME Reconcile PROVE RowsSettled'
      BY <3>5, <2>27, <2>28, <2>29, <2>30, <2>31, <3>3 DEF Reconcile, Finalizers
    <3>6. QED
      BY <2>32, <2>33, <2>34, <2>35, <3>1, <3>2, <3>4, <3>5 DEF Next
<1>3. QED
  BY <1>1, <1>2, TypeCorrect, LiveInvHolds, PTL DEF Spec

\* A serving daemon has no row of a dead run that says running: what reconciliation
\* leaves is the live run's, through every interrupt, deletion and death.
THEOREM RunningRowIsLiveHolds == Spec => []RunningRowIsLive
<1>1. OneOwner /\ RowsSettled => RunningRowIsLive
  BY DEF OneOwner, RowsSettled, RowLive, Settling, Owning, RunningRowIsLive
<1>2. QED
  BY <1>1, OneOwnerHolds, RowsSettledHolds, PTL

\* Where a request is before it has created its row.
BeforeRow == {"idle", "intent", "model", "stage", "lock", "put_intent", "user_message",
              "create_run"}

\* The invariant behind TerminalRowIsFinal, when nobody calls Interrupt or
\* DeleteSession: whoever is about to create a row finds none, and whoever is about to
\* finish one (the run, the first pass of reconciliation, its second pass) finds it
\* running.
RowsAhead ==
  (faults = 0 /\ duplicates = 0) =>
    /\ \A r \in Requests : /\ pc[r] \in BeforeRow => runs[r] = "absent"
                           /\ pc[r] \in RowLive => runs[r] = "running"
    /\ \A r \in DanglingRuns(ledger) : runs[r] = "running"
    /\ pc[Boot] = "orphan_finished" => target[Boot] \in DanglingRuns(ledger)
    /\ pc[Boot] = "orphan_row" => runs[target[Boot]] = "running"
    /\ pc[Boot] \in {"finish_row", "clear_row"} => \A r \in todo : runs[r] = "running"

\* A commit, as far as the tail goes: a boundary event is what the tail shows next, and
\* any other event leaves it.
LEMMA CommitShows ==
  ASSUME VarTypes, NEW p \in Procs, NEW e \in EventSet, Commit(p, e)
  PROVE  \/ faults' > 0
         \/ /\ faults' = faults /\ ledger' = Append(ledger, e)
            /\ e.type = "run_started" => DanglingRuns(ledger') = {e.run}
            /\ e.type = "run_finished" => DanglingRuns(ledger') = {}
            /\ e.type \notin Boundary => DanglingRuns(ledger') = DanglingRuns(ledger)
<1>1. ledger \in Seq(EventSet) /\ faults \in Nat
  BY DEF VarTypes
<1>2. CASE ledger' = Append(ledger, e) /\ faults' = faults
  BY <1>1, <1>2, DanglingStarted, DanglingFinished, DanglingOther
<1>3. CASE Fault
  BY <1>1, <1>3 DEF Fault
<1>4. QED
  BY <1>2, <1>3 DEF Commit, Write

\* The events that are committed are events, and say what they are.
LEMMA EventFacts ==
  ASSUME NEW r \in Requests
  PROVE  /\ \A t \in {"user_message", "run_started", "output", "error"} :
              /\ Event(t, r) \in EventSet /\ Event(t, r).run = r /\ Event(t, r).type = t
         /\ \A s \in Terminal :
              /\ RunFinished(r, s) \in EventSet /\ RunFinished(r, s).run = r
              /\ RunFinished(r, s).type = "run_finished"
  BY DEF Event, RunFinished, EventSet

\* RowsAhead holds in every reachable state.
THEOREM RowsAheadHolds == ASSUME Callers = {} PROVE Spec => []RowsAhead
<1>1. Init => RowsAhead
  BY DanglingEmpty, ProcsAssumption DEF Init, RowsAhead, RowLive, Settling, Procs
<1>2. TypeOK /\ LiveInv /\ RowsAhead /\ [Next]_vars => RowsAhead'
  <2> SUFFICES ASSUME TypeOK, LiveInv, RowsAhead, [Next]_vars PROVE RowsAhead'
    OBVIOUS
  <2>0. /\ pc \in [Procs -> Labels] /\ runs \in [Requests -> RunStates]
        /\ pend \in [Procs -> Nat] /\ faults \in Nat /\ duplicates \in Nat /\ crashes \in Nat
        /\ Requests \subseteq Procs
        /\ \A c \in Callers : c \in Procs /\ c \notin Requests /\ c # Boot
        /\ \A p \in Finalizers : p \in Procs /\ p \notin Requests
        /\ Boot \in Procs /\ Boot \notin Requests /\ None \notin Procs
        /\ \A r \in Requests : pc[r] \in UsesOutcome => outcome[r] \in Terminal
        /\ pc[Boot] \in UsesTarget => target[Boot] \in Requests
        /\ DanglingRuns(ledger) \subseteq Requests /\ VarTypes
        /\ target \in [Procs -> Requests \cup {None}] /\ Finalizers = {Boot}
    BY ProcsAssumption
    DEF TypeOK, VarTypes, Holdings, Procs, Finalizers, DanglingRuns, EventSet
  <2>a. \A r \in Requests : faults = 0 /\ duplicates = 0 /\ pc[r] \notin Resting =>
          /\ up /\ pc[Boot] = "idle"
          /\ r \in DanglingRuns(ledger) => pc[r] \in Settling
    BY DEF LiveInv, Quiet, Settled
  <2>b. up /\ faults = 0 /\ duplicates = 0 => pc[Boot] = "idle"
    BY DEF LiveInv, Settled
  <2>c. pc[Boot] # "idle" /\ faults = 0 /\ duplicates = 0 =>
          /\ \A r \in Requests : pc[r] \in Resting
          /\ pc[Boot] \in Reconciled => DanglingRuns(ledger) = {}
    BY DEF LiveInv, Quiet, Settled
  <2>1. ASSUME NEW r \in Requests, SendBegin(r) PROVE RowsAhead'
    BY <2>0, <2>1, <2>a, <2>b, <2>c
    DEF RowsAhead, RowLive, Settling, BeforeRow, Goto, At, SendBegin, db, daemon, counters,
        tallies, Resting
  <2>2. ASSUME NEW r \in Requests, SendCheckIntent(r) PROVE RowsAhead'
    BY <2>0, <2>2, <2>a, <2>b, <2>c
    DEF RowsAhead, RowLive, Settling, BeforeRow, Goto, At, SendCheckIntent, db, daemon,
        tallies, Fault, Resting
  <2>3. ASSUME NEW r \in Requests, SendUpdateModel(r) PROVE RowsAhead'
    BY <2>0, <2>3, <2>a, <2>b, <2>c
    DEF RowsAhead, RowLive, Settling, BeforeRow, Goto, At, SendUpdateModel, daemon, tallies,
        Write, Fault, Resting
  <2>4. ASSUME NEW r \in Requests, SendStageImages(r) PROVE RowsAhead'
    BY <2>0, <2>4, <2>a, <2>b, <2>c
    DEF RowsAhead, RowLive, Settling, BeforeRow, Goto, At, SendStageImages, daemon, locals,
        tallies, Write, Fault, Resting
  <2>5. ASSUME NEW r \in Requests, SendAcquire(r) PROVE RowsAhead'
    BY <2>0, <2>5, <2>a, <2>b, <2>c
    DEF RowsAhead, RowLive, Settling, BeforeRow, Goto, At, SendAcquire, db, locals,
        counters, tallies, Resting
  <2>6. ASSUME NEW r \in Requests, SendPutIntent(r) PROVE RowsAhead'
    BY <2>0, <2>6, <2>a, <2>b, <2>c
    DEF RowsAhead, RowLive, Settling, BeforeRow, Goto, At, SendPutIntent, daemon, locals,
        tallies, Write, Fault, Resting
  <2>7. ASSUME NEW r \in Requests, SendUserMessage(r) PROVE RowsAhead'
    <3> DEFINE e == Event("user_message", r)
    <3>1. e \in EventSet /\ e.type = "user_message" /\ e.run = r /\ Commit(r, e)
      BY <2>0, <2>7, EventFacts DEF SendUserMessage, At, UsesOutcome, UsesTarget
    <3>2. /\ Goto(r, "create_run") /\ pend[r] = 0 /\ pc[r] = "user_message"
          /\ UNCHANGED <<runs, target, todo, duplicates, up>>
      BY <2>7 DEF SendUserMessage, At, daemon, locals, tallies
    <3> HIDE DEF e
    <3>3. QED
      BY <2>0, <2>a, <2>b, <2>c, <3>1, <3>2, CommitShows
      DEF RowsAhead, RowLive, Settling, BeforeRow, Goto, Resting, Boundary
  <2>8. ASSUME NEW r \in Requests, SendCreateRun(r) PROVE RowsAhead'
    BY <2>0, <2>8, <2>a, <2>b, <2>c
    DEF RowsAhead, RowLive, Settling, BeforeRow, Goto, At, SendCreateRun, daemon, locals,
        tallies, Write, Fault, Resting
  <2>9. ASSUME NEW r \in Requests, SendRunStarted(r) PROVE RowsAhead'
    <3> DEFINE e == Event("run_started", r)
    <3>1. e \in EventSet /\ e.type = "run_started" /\ e.run = r /\ Commit(r, e)
      BY <2>0, <2>9, EventFacts DEF SendRunStarted, At, UsesOutcome, UsesTarget
    <3>2. /\ Goto(r, "touch_running") /\ pend[r] = 0 /\ pc[r] = "run_started"
          /\ UNCHANGED <<runs, target, todo, duplicates, up>>
      BY <2>9 DEF SendRunStarted, At, daemon, locals, tallies
    <3> HIDE DEF e
    <3>3. CASE faults' > 0
      BY <2>0, <3>3 DEF RowsAhead
    <3>4. CASE faults' = faults /\ DanglingRuns(ledger') = {r}
      <4>1. SUFFICES ASSUME faults = 0, duplicates = 0 PROVE RowsAhead'
        BY <3>2, <3>4 DEF RowsAhead
      <4>2. pc[Boot] = "idle" /\ pc'[Boot] = "idle"
        BY <2>0, <2>a, <3>2, <4>1 DEF Goto, Resting
      <4>3. runs[r] = "running"
        BY <3>2, <4>1 DEF RowsAhead, RowLive
      <4>4. QED
        BY <2>0, <3>2, <3>4, <4>1, <4>2, <4>3
        DEF RowsAhead, RowLive, Settling, BeforeRow, Goto
    <3>5. QED
      BY <2>0, <3>1, <3>3, <3>4, CommitShows
  <2>10. ASSUME NEW r \in Requests, SendTouchRunning(r) PROVE RowsAhead'
    BY <2>0, <2>10, <2>a, <2>b, <2>c
    DEF RowsAhead, RowLive, Settling, BeforeRow, Goto, At, SendTouchRunning, daemon, locals,
        tallies, SetRecent, Write, Fault, Resting
  <2>11. ASSUME NEW r \in Requests, ProviderOutput(r) PROVE RowsAhead'
    <3> DEFINE e == Event("output", r)
    <3>1. e \in EventSet /\ e.type = "output" /\ e.run = r /\ Commit(r, e)
      BY <2>0, <2>11, EventFacts DEF ProviderOutput, At, UsesOutcome, UsesTarget
    <3>2. /\ pc' = pc /\ pend[r] = 0 /\ pc[r] = "provider"
          /\ UNCHANGED <<runs, target, todo, duplicates, up>>
      BY <2>11 DEF ProviderOutput, At, daemon, locals
    <3> HIDE DEF e
    <3>3. QED
      BY <2>0, <2>a, <2>b, <2>c, <3>1, <3>2, CommitShows
      DEF RowsAhead, RowLive, Settling, BeforeRow, Goto, Resting, Boundary
  <2>12. ASSUME NEW r \in Requests, ProviderSystem(r) PROVE RowsAhead'
    BY <2>0, <2>12, <2>a, <2>b, <2>c
    DEF RowsAhead, RowLive, Settling, BeforeRow, Goto, At, ProviderSystem, daemon, tallies,
        Write, Fault, Resting
  <2>13. ASSUME NEW r \in Requests, ProviderReturn(r) PROVE RowsAhead'
    BY <2>0, <2>13, <2>a, <2>b, <2>c
    DEF RowsAhead, RowLive, Settling, BeforeRow, Goto, At, ProviderReturn, db, daemon,
        counters, tallies, Resting
  <2>14. ASSUME NEW r \in Requests, FinalizeError(r) PROVE RowsAhead'
    <3> DEFINE e == Event("error", r)
    <3>1. e \in EventSet /\ e.type = "error" /\ e.run = r /\ Commit(r, e)
      BY <2>0, <2>14, EventFacts DEF FinalizeError, At, UsesOutcome, UsesTarget
    <3>2. /\ Goto(r, "run_finished") /\ pend[r] = 0 /\ pc[r] = "error"
          /\ UNCHANGED <<runs, target, todo, duplicates, up>>
      BY <2>14 DEF FinalizeError, At, daemon, locals, tallies
    <3> HIDE DEF e
    <3>3. CASE faults' > 0
      BY <3>3 DEF RowsAhead
    <3>4. CASE faults' = faults /\ DanglingRuns(ledger') = DanglingRuns(ledger)
      BY <2>0, <2>a, <2>b, <2>c, <3>2, <3>4
      DEF RowsAhead, RowLive, Settling, BeforeRow, Goto, Resting
    <3>5. QED
      BY <2>0, <3>1, <3>3, <3>4, CommitShows DEF Boundary
  <2>15. ASSUME NEW r \in Requests, FinalizeRunFinished(r) PROVE RowsAhead'
    <3> DEFINE e == RunFinished(r, outcome[r])
    <3>1. e \in EventSet /\ e.type = "run_finished" /\ e.run = r /\ Commit(r, e)
      BY <2>0, <2>15, EventFacts DEF FinalizeRunFinished, At, UsesOutcome, UsesTarget
    <3>2. /\ Goto(r, "finish_run") /\ pend[r] = 0 /\ pc[r] = "run_finished"
          /\ UNCHANGED <<runs, target, todo, duplicates, up>>
      BY <2>15 DEF FinalizeRunFinished, At, daemon, locals, tallies
    <3> HIDE DEF e
    <3>3. CASE faults' > 0
      BY <3>3 DEF RowsAhead
    <3>4. CASE faults' = faults /\ DanglingRuns(ledger') = {}
      BY <2>0, <2>a, <2>b, <2>c, <3>2, <3>4
      DEF RowsAhead, RowLive, Settling, BeforeRow, Goto, Resting
    <3>5. QED
      BY <2>0, <3>1, <3>3, <3>4, CommitShows
  <2>16. ASSUME NEW r \in Requests, FinalizeRow(r) PROVE RowsAhead'
    BY <2>0, <2>16, <2>a, <2>b, <2>c
    DEF RowsAhead, RowLive, Settling, BeforeRow, Goto, At, FinalizeRow, daemon, locals,
        tallies, FinishRun, Write, Fault, Resting, UsesOutcome, Terminal
  <2>17. ASSUME NEW r \in Requests, FinalizeTouchRecent(r) PROVE RowsAhead'
    BY <2>0, <2>17, <2>a, <2>b, <2>c
    DEF RowsAhead, RowLive, Settling, BeforeRow, Goto, At, FinalizeTouchRecent, daemon,
        locals, tallies, SetRecent, Write, Fault, Resting
  <2>18. ASSUME NEW r \in Requests, FinalizeRelease(r) PROVE RowsAhead'
    BY <2>0, <2>18, <2>a, <2>b, <2>c
    DEF RowsAhead, RowLive, Settling, BeforeRow, Goto, At, FinalizeRelease, db, locals,
        counters, tallies, Resting
  <2>19. ASSUME NEW c \in Callers, InterruptRead(c) PROVE RowsAhead'
    BY <2>0, <2>19
    DEF RowsAhead, RowLive, Settling, BeforeRow, Goto, At, InterruptRead, db, daemon,
        counters, tallies
  <2>20. ASSUME NEW c \in Callers, InterruptCancel(c) PROVE RowsAhead'
    BY <2>0, <2>20
    DEF RowsAhead, RowLive, Settling, BeforeRow, Goto, At, InterruptCancel, db, locals,
        counters, tallies, AfterInterrupt
  <2>21. ASSUME NEW c \in Callers, DeleteUploads(c) PROVE RowsAhead'
    BY <2>0, <2>21
    DEF RowsAhead, RowLive, Settling, BeforeRow, Goto, At, DeleteUploads, daemon, locals,
        counters, tallies
  <2>22. ASSUME NEW c \in Callers, DeleteRows(c) PROVE RowsAhead'
    BY <2>0, <2>22
    DEF RowsAhead, RowLive, Settling, BeforeRow, Goto, At, DeleteRows, daemon, locals,
        tallies, Write, Fault
  <2>23. ASSUME NEW p \in Finalizers, OrphanRead(p) PROVE RowsAhead'
    BY <2>0, <2>23, <2>a, <2>b, <2>c
    DEF RowsAhead, RowLive, Settling, BeforeRow, Goto, At, OrphanRead, db, daemon, tallies,
        Fault, AfterOrphan, AfterInterrupt, Resting, Reconciled
  <2>24. ASSUME NEW p \in Finalizers, OrphanFinished(p) PROVE RowsAhead'
    <3> DEFINE e == RunFinished(target[p], "interrupted")
    <3>1. e \in EventSet /\ e.type = "run_finished" /\ e.run = target[p] /\ Commit(p, e)
      BY <2>0, <2>24, EventFacts DEF OrphanFinished, At, UsesTarget, Terminal
    <3>2. /\ Goto(p, "orphan_row") /\ pend[p] = 0 /\ pc[p] = "orphan_finished"
          /\ UNCHANGED <<runs, target, todo, duplicates, up>>
      BY <2>24 DEF OrphanFinished, At, daemon, locals, tallies
    <3> HIDE DEF e
    <3>3. QED
      BY <2>0, <2>a, <2>b, <2>c, <3>1, <3>2, CommitShows
      DEF RowsAhead, RowLive, Settling, BeforeRow, Goto, Resting, Boundary
  <2>25. ASSUME NEW p \in Finalizers, OrphanRow(p) PROVE RowsAhead'
    BY <2>0, <2>25, <2>a, <2>b, <2>c
    DEF RowsAhead, RowLive, Settling, BeforeRow, Goto, At, OrphanRow, daemon, locals,
        tallies, FinishRun, Write, Fault, Resting, Reconciled, UsesTarget
  <2>26. ASSUME NEW p \in Finalizers, OrphanClear(p) PROVE RowsAhead'
    BY <2>0, <2>26, <2>a, <2>b, <2>c
    DEF RowsAhead, RowLive, Settling, BeforeRow, Goto, At, OrphanClear, daemon, locals,
        tallies, SetRecent, Write, Fault, AfterOrphan, AfterInterrupt, Resting
  <2>27. ASSUME BootStart PROVE RowsAhead'
    BY <2>0, <2>27, <2>a, <2>b, <2>c
    DEF RowsAhead, RowLive, Settling, BeforeRow, Goto, At, BootStart, db, daemon, locals,
        Resting
  <2>28. ASSUME BootListRows PROVE RowsAhead'
    BY <2>0, <2>28, <2>a, <2>b, <2>c
    DEF RowsAhead, RowLive, Settling, BeforeRow, Goto, At, BootListRows, db, daemon,
        tallies, Fault, Resting
  <2>29. ASSUME BootFinishRow PROVE RowsAhead'
    <3>1. SUFFICES ASSUME faults' = 0, duplicates' = 0 PROVE RowsAhead'
      BY DEF RowsAhead
    <3>2. PICK r \in todo : FinishRun(r, "interrupted") /\ todo' = todo \ {r}
      BY <2>29 DEF BootFinishRow
    <3>3. /\ Goto(Boot, "clear_row") /\ pc[Boot] = "finish_row"
          /\ UNCHANGED <<ledger, target, duplicates>>
      BY <2>29 DEF BootFinishRow, At, tallies
    <3>4. faults = 0 /\ duplicates = 0 /\ runs' = [runs EXCEPT ![r] = "interrupted"]
      <4>1. faults = 0 /\ runs' = IF runs[r] = "absent" THEN runs
                                  ELSE [runs EXCEPT ![r] = "interrupted"]
        BY <2>0, <3>1, <3>2 DEF FinishRun, Write, Fault
      <4>2. duplicates = 0 /\ runs[r] = "running"
        BY <3>1, <3>2, <3>3, <4>1 DEF RowsAhead
      <4>3. QED
        BY <4>1, <4>2
    <3>5. r \in Requests /\ runs[r] = "running"
      BY <2>0, <3>2, <3>3, <3>4 DEF RowsAhead, VarTypes
    <3>6. DanglingRuns(ledger) = {} /\ pc[r] \in Resting
      BY <2>c, <3>3, <3>4, <3>5 DEF Reconciled
    <3>7. /\ pc' = [pc EXCEPT ![Boot] = "clear_row"]
          /\ \A q \in Requests : pc'[q] = pc[q]
          /\ pc[r] \notin BeforeRow /\ pc[r] \notin RowLive
      BY <2>0, <3>3, <3>4, <3>5, <3>6
      DEF RowsAhead, Goto, RowLive, Settling, Resting
    <3>8. QED
      BY <2>0, <3>2, <3>3, <3>4, <3>5, <3>6, <3>7 DEF RowsAhead
  <2>30. ASSUME BootClearRow PROVE RowsAhead'
    BY <2>0, <2>30, <2>a, <2>b, <2>c
    DEF RowsAhead, RowLive, Settling, BeforeRow, Goto, At, BootClearRow, daemon, locals,
        tallies, SetRecent, Write, Fault, Resting
  <2>31. ASSUME BootListen PROVE RowsAhead'
    BY <2>0, <2>31, <2>a, <2>b, <2>c
    DEF RowsAhead, RowLive, Settling, BeforeRow, Goto, At, BootListen, db, locals, counters,
        tallies, Resting
  <2>32. ASSUME NEW p \in Procs, Bump(p) PROVE RowsAhead'
    BY <2>0, <2>32, <2>a, <2>b, <2>c
    DEF RowsAhead, RowLive, Settling, BeforeRow, Goto, At, Bump, daemon, locals, tallies,
        Write, Fault, Resting
  <2>33. ASSUME Crash PROVE RowsAhead'
    BY <2>0, <2>33, <2>a, <2>b, <2>c
    DEF RowsAhead, RowLive, Settling, BeforeRow, Goto, At, Crash, db, Die, Resting
  <2>34. ASSUME BootCrash PROVE RowsAhead'
    BY <2>0, <2>34, <2>a, <2>b, <2>c
    DEF RowsAhead, RowLive, Settling, BeforeRow, Goto, At, BootCrash, db, daemon, locals,
        Die, Resting
  <2>35. CASE UNCHANGED vars
    BY <2>35
    DEF RowsAhead, RowLive, Settling, BeforeRow, vars, db, daemon, locals, counters, tallies
  <2>36. QED
    <3>1. ASSUME NEW r \in Requests, Send(r) PROVE RowsAhead'
      BY <3>1, <2>1, <2>2, <2>3, <2>4, <2>5, <2>6, <2>7, <2>8, <2>9, <2>10 DEF Send
    <3>2. ASSUME NEW r \in Requests, RunProvider(r) PROVE RowsAhead'
      BY <3>2, <2>11, <2>12, <2>13, <2>14, <2>15, <2>16, <2>17, <2>18
      DEF RunProvider, Finalize
    <3>3. ASSUME NEW p \in Finalizers, FinalizeOrphan(p) PROVE RowsAhead'
      BY <3>3, <2>23, <2>24, <2>25, <2>26 DEF FinalizeOrphan
    <3>4. ASSUME NEW c \in Callers, Interrupt(c) PROVE RowsAhead'
      BY <3>4, <2>19, <2>20, <2>21, <2>22, <3>3 DEF Interrupt, Finalizers
    <3>5. ASSUME Reconcile PROVE RowsAhead'
      BY <3>5, <2>27, <2>28, <2>29, <2>30, <2>31, <3>3 DEF Reconcile, Finalizers
    <3>6. QED
      BY <2>32, <2>33, <2>34, <2>35, <3>1, <3>2, <3>4, <3>5 DEF Next
<1>3. QED
  BY <1>1, <1>2, TypeCorrect, LiveInvHolds, PTL DEF Spec

\* Without interrupts and deletions, how a run ended is decided once: its finalizer
\* writes it, or, if that died with its process, reconciliation does.
THEOREM TerminalRowStays == ASSUME Callers = {} PROVE Spec => TerminalRowIsFinal
<1> DEFINE Final == (faults = 0 /\ duplicates = 0) =>
                      \A r \in Requests : runs[r] \in Terminal => runs'[r] \in {runs[r], "absent"}
<1>1. TypeOK /\ RowsAhead /\ [Next]_vars => Final
  <2> SUFFICES ASSUME TypeOK, RowsAhead, [Next]_vars PROVE Final
    OBVIOUS
  <2>0. /\ runs \in [Requests -> RunStates] /\ todo \subseteq Requests
        /\ Finalizers = {Boot}
        /\ pc[Boot] \in UsesTarget => target[Boot] \in Requests
    BY DEF TypeOK, VarTypes, Holdings, Finalizers, Procs
  <2> HIDE DEF Final
  <2>1. ASSUME NEW r \in Requests, SendBegin(r) PROVE Final
    BY <2>0, <2>1
    DEF Final, Goto, At, SendBegin, db, daemon, counters, tallies, Terminal
  <2>2. ASSUME NEW r \in Requests, SendCheckIntent(r) PROVE Final
    BY <2>0, <2>2
    DEF Final, Goto, At, SendCheckIntent, db, daemon, tallies, Fault, Terminal
  <2>3. ASSUME NEW r \in Requests, SendUpdateModel(r) PROVE Final
    BY <2>0, <2>3
    DEF Final, Goto, At, SendUpdateModel, daemon, tallies, Write, Fault, Terminal
  <2>4. ASSUME NEW r \in Requests, SendStageImages(r) PROVE Final
    BY <2>0, <2>4
    DEF Final, Goto, At, SendStageImages, daemon, locals, tallies, Write, Fault, Terminal
  <2>5. ASSUME NEW r \in Requests, SendAcquire(r) PROVE Final
    BY <2>0, <2>5
    DEF Final, Goto, At, SendAcquire, db, locals, counters, tallies, Terminal
  <2>6. ASSUME NEW r \in Requests, SendPutIntent(r) PROVE Final
    BY <2>0, <2>6
    DEF Final, Goto, At, SendPutIntent, daemon, locals, tallies, Write, Fault, Terminal
  <2>7. ASSUME NEW r \in Requests, SendUserMessage(r) PROVE Final
    BY <2>0, <2>7
    DEF Final, Goto, At, SendUserMessage, daemon, locals, tallies, Terminal
  <2>8. ASSUME NEW r \in Requests, SendCreateRun(r) PROVE Final
    BY <2>0, <2>8
    DEF Final, Goto, At, SendCreateRun, daemon, locals, tallies, Write, Fault, Terminal,
        RowsAhead, BeforeRow, RowLive, UsesTarget
  <2>9. ASSUME NEW r \in Requests, SendRunStarted(r) PROVE Final
    BY <2>0, <2>9
    DEF Final, Goto, At, SendRunStarted, daemon, locals, tallies, Terminal
  <2>10. ASSUME NEW r \in Requests, SendTouchRunning(r) PROVE Final
    BY <2>0, <2>10
    DEF Final, Goto, At, SendTouchRunning, daemon, locals, tallies, SetRecent, Write, Fault,
        Terminal
  <2>11. ASSUME NEW r \in Requests, ProviderOutput(r) PROVE Final
    BY <2>0, <2>11
    DEF Final, Goto, At, ProviderOutput, daemon, locals, Terminal
  <2>12. ASSUME NEW r \in Requests, ProviderSystem(r) PROVE Final
    BY <2>0, <2>12
    DEF Final, Goto, At, ProviderSystem, daemon, tallies, Write, Fault, Terminal
  <2>13. ASSUME NEW r \in Requests, ProviderReturn(r) PROVE Final
    BY <2>0, <2>13
    DEF Final, Goto, At, ProviderReturn, db, daemon, counters, tallies, Terminal
  <2>14. ASSUME NEW r \in Requests, FinalizeError(r) PROVE Final
    BY <2>0, <2>14
    DEF Final, Goto, At, FinalizeError, daemon, locals, tallies, Terminal
  <2>15. ASSUME NEW r \in Requests, FinalizeRunFinished(r) PROVE Final
    BY <2>0, <2>15
    DEF Final, Goto, At, FinalizeRunFinished, daemon, locals, tallies, Terminal
  <2>16. ASSUME NEW r \in Requests, FinalizeRow(r) PROVE Final
    BY <2>0, <2>16
    DEF Final, Goto, At, FinalizeRow, daemon, locals, tallies, FinishRun, Write, Fault,
        Terminal, RowsAhead, BeforeRow, RowLive, UsesTarget
  <2>17. ASSUME NEW r \in Requests, FinalizeTouchRecent(r) PROVE Final
    BY <2>0, <2>17
    DEF Final, Goto, At, FinalizeTouchRecent, daemon, locals, tallies, SetRecent, Write,
        Fault, Terminal
  <2>18. ASSUME NEW r \in Requests, FinalizeRelease(r) PROVE Final
    BY <2>0, <2>18
    DEF Final, Goto, At, FinalizeRelease, db, locals, counters, tallies, Terminal
  <2>19. ASSUME NEW c \in Callers, InterruptRead(c) PROVE Final
    BY <2>0, <2>19
    DEF Final, Goto, At, InterruptRead, db, daemon, counters, tallies, Terminal
  <2>20. ASSUME NEW c \in Callers, InterruptCancel(c) PROVE Final
    BY <2>0, <2>20
    DEF Final, Goto, At, InterruptCancel, db, locals, counters, tallies, AfterInterrupt,
        Terminal
  <2>21. ASSUME NEW c \in Callers, DeleteUploads(c) PROVE Final
    BY <2>0, <2>21
    DEF Final, Goto, At, DeleteUploads, daemon, locals, counters, tallies, Terminal
  <2>22. ASSUME NEW c \in Callers, DeleteRows(c) PROVE Final
    BY <2>0, <2>22
    DEF Final, Goto, At, DeleteRows, daemon, locals, tallies, Write, Fault, Terminal
  <2>23. ASSUME NEW p \in Finalizers, OrphanRead(p) PROVE Final
    BY <2>0, <2>23
    DEF Final, Goto, At, OrphanRead, db, daemon, tallies, Fault, AfterOrphan,
        AfterInterrupt, Terminal
  <2>24. ASSUME NEW p \in Finalizers, OrphanFinished(p) PROVE Final
    BY <2>0, <2>24
    DEF Final, Goto, At, OrphanFinished, daemon, locals, tallies, Terminal
  <2>25. ASSUME NEW p \in Finalizers, OrphanRow(p) PROVE Final
    BY <2>0, <2>25
    DEF Final, Goto, At, OrphanRow, daemon, locals, tallies, FinishRun, Write, Fault,
        Terminal, RowsAhead, BeforeRow, RowLive, UsesTarget
  <2>26. ASSUME NEW p \in Finalizers, OrphanClear(p) PROVE Final
    BY <2>0, <2>26
    DEF Final, Goto, At, OrphanClear, daemon, locals, tallies, SetRecent, Write, Fault,
        AfterOrphan, AfterInterrupt, Terminal
  <2>27. ASSUME BootStart PROVE Final
    BY <2>0, <2>27
    DEF Final, Goto, At, BootStart, db, daemon, locals, Terminal
  <2>28. ASSUME BootListRows PROVE Final
    BY <2>0, <2>28
    DEF Final, Goto, At, BootListRows, db, daemon, tallies, Fault, Terminal
  <2>29. ASSUME BootFinishRow PROVE Final
    BY <2>0, <2>29
    DEF Final, Goto, At, BootFinishRow, daemon, tallies, FinishRun, Write, Fault, Terminal,
        RowsAhead, BeforeRow, RowLive, UsesTarget
  <2>30. ASSUME BootClearRow PROVE Final
    BY <2>0, <2>30
    DEF Final, Goto, At, BootClearRow, daemon, locals, tallies, SetRecent, Write, Fault,
        Terminal
  <2>31. ASSUME BootListen PROVE Final
    BY <2>0, <2>31
    DEF Final, Goto, At, BootListen, db, locals, counters, tallies, Terminal
  <2>32. ASSUME NEW p \in Procs, Bump(p) PROVE Final
    BY <2>0, <2>32
    DEF Final, Goto, At, Bump, daemon, locals, tallies, Write, Fault, Terminal
  <2>33. ASSUME Crash PROVE Final
    BY <2>0, <2>33
    DEF Final, Goto, At, Crash, db, Die, Terminal
  <2>34. ASSUME BootCrash PROVE Final
    BY <2>0, <2>34
    DEF Final, Goto, At, BootCrash, db, daemon, locals, Die, Terminal
  <2>35. CASE UNCHANGED vars
    BY <2>35
    DEF Final, vars, db, daemon, locals, counters, tallies
  <2>36. QED
    <3>1. ASSUME NEW r \in Requests, Send(r) PROVE Final
      BY <3>1, <2>1, <2>2, <2>3, <2>4, <2>5, <2>6, <2>7, <2>8, <2>9, <2>10 DEF Send
    <3>2. ASSUME NEW r \in Requests, RunProvider(r) PROVE Final
      BY <3>2, <2>11, <2>12, <2>13, <2>14, <2>15, <2>16, <2>17, <2>18
      DEF RunProvider, Finalize
    <3>3. ASSUME NEW p \in Finalizers, FinalizeOrphan(p) PROVE Final
      BY <3>3, <2>23, <2>24, <2>25, <2>26 DEF FinalizeOrphan
    <3>4. ASSUME NEW c \in Callers, Interrupt(c) PROVE Final
      BY <3>4, <2>19, <2>20, <2>21, <2>22, <3>3 DEF Interrupt, Finalizers
    <3>5. ASSUME Reconcile PROVE Final
      BY <3>5, <2>27, <2>28, <2>29, <2>30, <2>31, <3>3 DEF Reconcile, Finalizers
    <3>6. QED
      BY <2>32, <2>33, <2>34, <2>35, <3>1, <3>2, <3>4, <3>5 DEF Next
<1>2. QED
  BY <1>1, TypeCorrect, RowsAheadHolds, PTL DEF Spec, TerminalRowIsFinal

----------------------------------------------------------------------------
(* The session list *)

\* Where a run is while the session list names it as the active one.
ListedAt == {"provider", "error", "run_finished", "finish_run", "touch_idle"}

\* The invariant behind ListedRunIsLive: the run the list names is between its two
\* calls of touchRecent.
Listed ==
  (faults = 0 /\ crashes = 0 /\ recent # None) =>
    recent.activeRun = None \/ pc[recent.activeRun] \in ListedAt

\* A write to the projection changes the run it names and keeps its tail.
LEMMA SetRecentTail ==
  ASSUME VarTypes, NEW r, NEW s, SetRecent(r, s)
  PROVE  \/ faults' > 0
         \/ /\ faults' = faults
            /\ recent = None => recent' = None
            /\ recent # None => recent'.activeRun = r /\ recent'.lastSeq = recent.lastSeq
<1>1. (recent = None \/ recent \in RecentRow) /\ faults \in Nat
  BY DEF VarTypes
<1>2. ASSUME recent \in RecentRow
      PROVE  LET w == [recent EXCEPT !.activeRun = r, !.lastState = s]
             IN  w.activeRun = r /\ w.lastSeq = recent.lastSeq
  BY <1>2 DEF RecentRow
<1>3. CASE recent = None
  BY <1>1, <1>3 DEF SetRecent, Write, Fault
<1>4. CASE recent # None
  <2> DEFINE w == [recent EXCEPT !.activeRun = r, !.lastState = s]
  <2>1. w.activeRun = r /\ w.lastSeq = recent.lastSeq
    BY <1>1, <1>2, <1>4
  <2>2. (recent' = w /\ faults' = faults) \/ faults' = faults + 1
    BY <1>4 DEF SetRecent, Write, Fault
  <2> HIDE DEF w
  <2>3. QED
    BY <1>1, <1>4, <2>1, <2>2
<1>5. QED
  BY <1>3, <1>4

\* Listed holds in every reachable state.
THEOREM ListedHolds == Spec => []Listed
<1>1. Init => Listed
  BY DEF Init, Listed
<1>2. TypeOK /\ Listed /\ [Next]_vars => Listed'
  <2> SUFFICES ASSUME TypeOK, Listed, [Next]_vars PROVE Listed'
    OBVIOUS
  <2>0. /\ pc \in [Procs -> Labels] /\ runs \in [Requests -> RunStates]
        /\ pend \in [Procs -> Nat] /\ faults \in Nat /\ duplicates \in Nat /\ crashes \in Nat
        /\ Requests \subseteq Procs
        /\ \A c \in Callers : c \in Procs /\ c \notin Requests /\ c # Boot
        /\ \A p \in Finalizers : p \in Procs /\ p \notin Requests
        /\ Boot \in Procs /\ Boot \notin Requests /\ None \notin Procs
        /\ VarTypes
        /\ recent # None => /\ recent \in [lastSeq : Nat, activeRun : Requests \cup {None},
                                           lastState : RunStates \cup {"none"}]
                            /\ recent.activeRun \in Requests \cup {None}
    BY ProcsAssumption DEF TypeOK, VarTypes, Procs, Finalizers, RecentRow
  <2>1. ASSUME NEW r \in Requests, SendBegin(r) PROVE Listed'
    BY <2>0, <2>1
    DEF Listed, ListedAt, Goto, At, SendBegin, db, daemon, counters, tallies
  <2>2. ASSUME NEW r \in Requests, SendCheckIntent(r) PROVE Listed'
    BY <2>0, <2>2
    DEF Listed, ListedAt, Goto, At, SendCheckIntent, db, daemon, tallies, Fault
  <2>3. ASSUME NEW r \in Requests, SendUpdateModel(r) PROVE Listed'
    BY <2>0, <2>3
    DEF Listed, ListedAt, Goto, At, SendUpdateModel, daemon, tallies, Write, Fault
  <2>4. ASSUME NEW r \in Requests, SendStageImages(r) PROVE Listed'
    BY <2>0, <2>4
    DEF Listed, ListedAt, Goto, At, SendStageImages, daemon, locals, tallies, Write, Fault
  <2>5. ASSUME NEW r \in Requests, SendAcquire(r) PROVE Listed'
    BY <2>0, <2>5
    DEF Listed, ListedAt, Goto, At, SendAcquire, db, locals, counters, tallies
  <2>6. ASSUME NEW r \in Requests, SendPutIntent(r) PROVE Listed'
    BY <2>0, <2>6
    DEF Listed, ListedAt, Goto, At, SendPutIntent, daemon, locals, tallies, Write, Fault
  <2>7. ASSUME NEW r \in Requests, SendUserMessage(r) PROVE Listed'
    BY <2>0, <2>7
    DEF Listed, ListedAt, Goto, At, SendUserMessage, daemon, locals, tallies, Commit, Write,
        Fault
  <2>8. ASSUME NEW r \in Requests, SendCreateRun(r) PROVE Listed'
    BY <2>0, <2>8
    DEF Listed, ListedAt, Goto, At, SendCreateRun, daemon, locals, tallies, Write, Fault
  <2>9. ASSUME NEW r \in Requests, SendRunStarted(r) PROVE Listed'
    BY <2>0, <2>9
    DEF Listed, ListedAt, Goto, At, SendRunStarted, daemon, locals, tallies, Commit, Write,
        Fault
  <2>10. ASSUME NEW r \in Requests, SendTouchRunning(r) PROVE Listed'
    BY <2>0, <2>10, SetRecentTail
    DEF Listed, ListedAt, Goto, At, SendTouchRunning, daemon, locals, tallies
  <2>11. ASSUME NEW r \in Requests, ProviderOutput(r) PROVE Listed'
    BY <2>0, <2>11
    DEF Listed, ListedAt, Goto, At, ProviderOutput, daemon, locals, Commit, Write, Fault
  <2>12. ASSUME NEW r \in Requests, ProviderSystem(r) PROVE Listed'
    BY <2>0, <2>12
    DEF Listed, ListedAt, Goto, At, ProviderSystem, daemon, tallies, Write, Fault
  <2>13. ASSUME NEW r \in Requests, ProviderReturn(r) PROVE Listed'
    BY <2>0, <2>13
    DEF Listed, ListedAt, Goto, At, ProviderReturn, db, daemon, counters, tallies
  <2>14. ASSUME NEW r \in Requests, FinalizeError(r) PROVE Listed'
    BY <2>0, <2>14
    DEF Listed, ListedAt, Goto, At, FinalizeError, daemon, locals, tallies, Commit, Write,
        Fault
  <2>15. ASSUME NEW r \in Requests, FinalizeRunFinished(r) PROVE Listed'
    BY <2>0, <2>15
    DEF Listed, ListedAt, Goto, At, FinalizeRunFinished, daemon, locals, tallies, Commit,
        Write, Fault
  <2>16. ASSUME NEW r \in Requests, FinalizeRow(r) PROVE Listed'
    BY <2>0, <2>16
    DEF Listed, ListedAt, Goto, At, FinalizeRow, daemon, locals, tallies, FinishRun, Write,
        Fault
  <2>17. ASSUME NEW r \in Requests, FinalizeTouchRecent(r) PROVE Listed'
    BY <2>0, <2>17, SetRecentTail
    DEF Listed, ListedAt, Goto, At, FinalizeTouchRecent, daemon, locals, tallies
  <2>18. ASSUME NEW r \in Requests, FinalizeRelease(r) PROVE Listed'
    BY <2>0, <2>18
    DEF Listed, ListedAt, Goto, At, FinalizeRelease, db, locals, counters, tallies
  <2>19. ASSUME NEW c \in Callers, InterruptRead(c) PROVE Listed'
    BY <2>0, <2>19
    DEF Listed, ListedAt, Goto, At, InterruptRead, db, daemon, counters, tallies
  <2>20. ASSUME NEW c \in Callers, InterruptCancel(c) PROVE Listed'
    BY <2>0, <2>20
    DEF Listed, ListedAt, Goto, At, InterruptCancel, db, locals, counters, tallies,
        AfterInterrupt
  <2>21. ASSUME NEW c \in Callers, DeleteUploads(c) PROVE Listed'
    BY <2>0, <2>21
    DEF Listed, ListedAt, Goto, At, DeleteUploads, daemon, locals, counters, tallies
  <2>22. ASSUME NEW c \in Callers, DeleteRows(c) PROVE Listed'
    BY <2>0, <2>22
    DEF Listed, ListedAt, Goto, At, DeleteRows, daemon, locals, tallies, Write, Fault
  <2>23. ASSUME NEW p \in Finalizers, OrphanRead(p) PROVE Listed'
    BY <2>0, <2>23
    DEF Listed, ListedAt, Goto, At, OrphanRead, db, daemon, tallies, Fault, AfterOrphan,
        AfterInterrupt
  <2>24. ASSUME NEW p \in Finalizers, OrphanFinished(p) PROVE Listed'
    BY <2>0, <2>24
    DEF Listed, ListedAt, Goto, At, OrphanFinished, daemon, locals, tallies, Commit, Write,
        Fault
  <2>25. ASSUME NEW p \in Finalizers, OrphanRow(p) PROVE Listed'
    BY <2>0, <2>25
    DEF Listed, ListedAt, Goto, At, OrphanRow, daemon, locals, tallies, FinishRun, Write,
        Fault
  <2>26. ASSUME NEW p \in Finalizers, OrphanClear(p) PROVE Listed'
    BY <2>0, <2>26, SetRecentTail
    DEF Listed, ListedAt, Goto, At, OrphanClear, daemon, locals, tallies, AfterOrphan,
        AfterInterrupt
  <2>27. ASSUME BootStart PROVE Listed'
    BY <2>0, <2>27
    DEF Listed, ListedAt, Goto, At, BootStart, db, daemon, locals
  <2>28. ASSUME BootListRows PROVE Listed'
    BY <2>0, <2>28
    DEF Listed, ListedAt, Goto, At, BootListRows, db, daemon, tallies, Fault
  <2>29. ASSUME BootFinishRow PROVE Listed'
    BY <2>0, <2>29
    DEF Listed, ListedAt, Goto, At, BootFinishRow, daemon, tallies, FinishRun, Write, Fault
  <2>30. ASSUME BootClearRow PROVE Listed'
    BY <2>0, <2>30, SetRecentTail
    DEF Listed, ListedAt, Goto, At, BootClearRow, daemon, locals, tallies
  <2>31. ASSUME BootListen PROVE Listed'
    BY <2>0, <2>31
    DEF Listed, ListedAt, Goto, At, BootListen, db, locals, counters, tallies
  <2>32. ASSUME NEW p \in Procs, Bump(p) PROVE Listed'
    BY <2>0, <2>32
    DEF Listed, ListedAt, Goto, At, Bump, daemon, locals, tallies, Write, Fault
  <2>33. ASSUME Crash PROVE Listed'
    BY <2>0, <2>33
    DEF Listed, ListedAt, Goto, At, Crash, db, Die
  <2>34. ASSUME BootCrash PROVE Listed'
    BY <2>0, <2>34
    DEF Listed, ListedAt, Goto, At, BootCrash, db, daemon, locals, Die
  <2>35. CASE UNCHANGED vars
    BY <2>35
    DEF Listed, ListedAt, vars, db, daemon, locals, counters, tallies
  <2>36. QED
    <3>1. ASSUME NEW r \in Requests, Send(r) PROVE Listed'
      BY <3>1, <2>1, <2>2, <2>3, <2>4, <2>5, <2>6, <2>7, <2>8, <2>9, <2>10 DEF Send
    <3>2. ASSUME NEW r \in Requests, RunProvider(r) PROVE Listed'
      BY <3>2, <2>11, <2>12, <2>13, <2>14, <2>15, <2>16, <2>17, <2>18
      DEF RunProvider, Finalize
    <3>3. ASSUME NEW p \in Finalizers, FinalizeOrphan(p) PROVE Listed'
      BY <3>3, <2>23, <2>24, <2>25, <2>26 DEF FinalizeOrphan
    <3>4. ASSUME NEW c \in Callers, Interrupt(c) PROVE Listed'
      BY <3>4, <2>19, <2>20, <2>21, <2>22, <3>3 DEF Interrupt, Finalizers
    <3>5. ASSUME Reconcile PROVE Listed'
      BY <3>5, <2>27, <2>28, <2>29, <2>30, <2>31, <3>3 DEF Reconcile, Finalizers
    <3>6. QED
      BY <2>32, <2>33, <2>34, <2>35, <3>1, <3>2, <3>4, <3>5 DEF Next
<1>3. QED
  BY <1>1, <1>2, TypeCorrect, PTL DEF Spec

\* As long as no process dies, the session list names no run but the live one.
THEOREM ListedRunIsLiveHolds == Spec => []ListedRunIsLive
<1>1. TypeOK /\ OneOwner /\ Listed => ListedRunIsLive
  BY DEF TypeOK, VarTypes, RecentRow, OneOwner, Listed, ListedAt, Owning, ListedRunIsLive
<1>2. QED
  BY <1>1, TypeCorrect, OneOwnerHolds, ListedHolds, PTL

\* A commit that succeeds makes the ledger one longer and leaves its end to project.
LEMMA CommitTail ==
  ASSUME VarTypes, NEW p \in Procs, NEW e, Commit(p, e)
  PROVE  \/ faults' > 0
         \/ /\ faults' = faults /\ Len(ledger') = Len(ledger) + 1
            /\ pend' = [pend EXCEPT ![p] = Len(ledger) + 1]
<1>1. ledger \in Seq(EventSet) /\ faults \in Nat
  BY DEF VarTypes
<1>2. Len(Append(ledger, e)) = Len(ledger) + 1
  BY <1>1
<1>3. QED
  BY <1>1, <1>2 DEF Commit, Write, Fault

\* The invariant behind LastSeqExact.  A commit that is under way carries a seq the
\* ledger has; the projection is not ahead of the ledger, and as long as it is behind,
\* the commit of the last event is under way and will bring it up: MAX sees to that in
\* whichever order the commits project.
TailIsUnderWay ==
  (recent # None /\ faults = 0 /\ crashes = 0) =>
    /\ \A p \in Procs : pend[p] <= Len(ledger)
    /\ recent.lastSeq <= Len(ledger)
    /\ recent.lastSeq = Len(ledger) \/ \E p \in Procs : pend[p] = Len(ledger)

\* A commit leaves it so: if it succeeds, the new last event is the one under way.
LEMMA CommitUnderWay ==
  ASSUME VarTypes, TailIsUnderWay, NEW p \in Procs, NEW e, Commit(p, e),
         UNCHANGED <<recent, crashes>>
  PROVE  TailIsUnderWay'
<1>1. /\ pend \in [Procs -> Nat] /\ Len(ledger) \in Nat /\ faults \in Nat
      /\ recent # None => recent.lastSeq \in Nat
  BY DEF VarTypes, RecentRow
<1>2. QED
  BY <1>1, CommitTail DEF TailIsUnderWay

\* TailIsUnderWay holds in every reachable state.
THEOREM TailIsUnderWayHolds == Spec => []TailIsUnderWay
<1>1. Init => TailIsUnderWay
  BY DEF Init, TailIsUnderWay
<1>2. TypeOK /\ TailIsUnderWay /\ [Next]_vars => TailIsUnderWay'
  <2> SUFFICES ASSUME TypeOK, TailIsUnderWay, [Next]_vars PROVE TailIsUnderWay'
    OBVIOUS
  <2>0. /\ pc \in [Procs -> Labels] /\ runs \in [Requests -> RunStates]
        /\ pend \in [Procs -> Nat] /\ faults \in Nat /\ duplicates \in Nat /\ crashes \in Nat
        /\ Requests \subseteq Procs
        /\ \A c \in Callers : c \in Procs /\ c \notin Requests /\ c # Boot
        /\ \A p \in Finalizers : p \in Procs /\ p \notin Requests
        /\ Boot \in Procs /\ Boot \notin Requests /\ None \notin Procs
        /\ Len(ledger) \in Nat /\ VarTypes
        /\ recent # None => /\ recent \in [lastSeq : Nat, activeRun : Requests \cup {None},
                                           lastState : RunStates \cup {"none"}]
                            /\ recent.lastSeq \in Nat
    BY ProcsAssumption DEF TypeOK, VarTypes, Procs, Finalizers, RecentRow
  <2>1. ASSUME NEW r \in Requests, SendBegin(r) PROVE TailIsUnderWay'
    BY <2>0, <2>1
    DEF TailIsUnderWay, Goto, At, SendBegin, db, daemon, counters, tallies
  <2>2. ASSUME NEW r \in Requests, SendCheckIntent(r) PROVE TailIsUnderWay'
    BY <2>0, <2>2
    DEF TailIsUnderWay, Goto, At, SendCheckIntent, db, daemon, tallies, Fault
  <2>3. ASSUME NEW r \in Requests, SendUpdateModel(r) PROVE TailIsUnderWay'
    BY <2>0, <2>3
    DEF TailIsUnderWay, Goto, At, SendUpdateModel, daemon, tallies, Write, Fault
  <2>4. ASSUME NEW r \in Requests, SendStageImages(r) PROVE TailIsUnderWay'
    BY <2>0, <2>4
    DEF TailIsUnderWay, Goto, At, SendStageImages, daemon, locals, tallies, Write, Fault
  <2>5. ASSUME NEW r \in Requests, SendAcquire(r) PROVE TailIsUnderWay'
    BY <2>0, <2>5
    DEF TailIsUnderWay, Goto, At, SendAcquire, db, locals, counters, tallies
  <2>6. ASSUME NEW r \in Requests, SendPutIntent(r) PROVE TailIsUnderWay'
    BY <2>0, <2>6
    DEF TailIsUnderWay, Goto, At, SendPutIntent, daemon, locals, tallies, Write, Fault
  <2>7. ASSUME NEW r \in Requests, SendUserMessage(r) PROVE TailIsUnderWay'
    <3>1. Commit(r, Event("user_message", r)) /\ UNCHANGED <<recent, crashes>>
      BY <2>7 DEF SendUserMessage, tallies
    <3>2. QED
      BY <2>0, <3>1, CommitUnderWay
  <2>8. ASSUME NEW r \in Requests, SendCreateRun(r) PROVE TailIsUnderWay'
    BY <2>0, <2>8
    DEF TailIsUnderWay, Goto, At, SendCreateRun, daemon, locals, tallies, Write, Fault
  <2>9. ASSUME NEW r \in Requests, SendRunStarted(r) PROVE TailIsUnderWay'
    <3>1. Commit(r, Event("run_started", r)) /\ UNCHANGED <<recent, crashes>>
      BY <2>9 DEF SendRunStarted, tallies
    <3>2. QED
      BY <2>0, <3>1, CommitUnderWay
  <2>10. ASSUME NEW r \in Requests, SendTouchRunning(r) PROVE TailIsUnderWay'
    BY <2>0, <2>10, SetRecentTail
    DEF TailIsUnderWay, Goto, At, SendTouchRunning, daemon, locals, tallies
  <2>11. ASSUME NEW r \in Requests, ProviderOutput(r) PROVE TailIsUnderWay'
    <3>1. Commit(r, Event("output", r)) /\ UNCHANGED <<recent, crashes>>
      BY <2>11 DEF ProviderOutput, tallies
    <3>2. QED
      BY <2>0, <3>1, CommitUnderWay
  <2>12. ASSUME NEW r \in Requests, ProviderSystem(r) PROVE TailIsUnderWay'
    BY <2>0, <2>12
    DEF TailIsUnderWay, Goto, At, ProviderSystem, daemon, tallies, Write, Fault
  <2>13. ASSUME NEW r \in Requests, ProviderReturn(r) PROVE TailIsUnderWay'
    BY <2>0, <2>13
    DEF TailIsUnderWay, Goto, At, ProviderReturn, db, daemon, counters, tallies
  <2>14. ASSUME NEW r \in Requests, FinalizeError(r) PROVE TailIsUnderWay'
    <3>1. Commit(r, Event("error", r)) /\ UNCHANGED <<recent, crashes>>
      BY <2>14 DEF FinalizeError, tallies
    <3>2. QED
      BY <2>0, <3>1, CommitUnderWay
  <2>15. ASSUME NEW r \in Requests, FinalizeRunFinished(r) PROVE TailIsUnderWay'
    <3>1. Commit(r, RunFinished(r, outcome[r])) /\ UNCHANGED <<recent, crashes>>
      BY <2>15 DEF FinalizeRunFinished, tallies
    <3>2. QED
      BY <2>0, <3>1, CommitUnderWay
  <2>16. ASSUME NEW r \in Requests, FinalizeRow(r) PROVE TailIsUnderWay'
    BY <2>0, <2>16
    DEF TailIsUnderWay, Goto, At, FinalizeRow, daemon, locals, tallies, FinishRun, Write,
        Fault
  <2>17. ASSUME NEW r \in Requests, FinalizeTouchRecent(r) PROVE TailIsUnderWay'
    BY <2>0, <2>17, SetRecentTail
    DEF TailIsUnderWay, Goto, At, FinalizeTouchRecent, daemon, locals, tallies
  <2>18. ASSUME NEW r \in Requests, FinalizeRelease(r) PROVE TailIsUnderWay'
    BY <2>0, <2>18
    DEF TailIsUnderWay, Goto, At, FinalizeRelease, db, locals, counters, tallies
  <2>19. ASSUME NEW c \in Callers, InterruptRead(c) PROVE TailIsUnderWay'
    BY <2>0, <2>19
    DEF TailIsUnderWay, Goto, At, InterruptRead, db, daemon, counters, tallies
  <2>20. ASSUME NEW c \in Callers, InterruptCancel(c) PROVE TailIsUnderWay'
    BY <2>0, <2>20
    DEF TailIsUnderWay, Goto, At, InterruptCancel, db, locals, counters, tallies,
        AfterInterrupt
  <2>21. ASSUME NEW c \in Callers, DeleteUploads(c) PROVE TailIsUnderWay'
    BY <2>0, <2>21
    DEF TailIsUnderWay, Goto, At, DeleteUploads, daemon, locals, counters, tallies
  <2>22. ASSUME NEW c \in Callers, DeleteRows(c) PROVE TailIsUnderWay'
    BY <2>0, <2>22
    DEF TailIsUnderWay, Goto, At, DeleteRows, daemon, locals, tallies, Write, Fault
  <2>23. ASSUME NEW p \in Finalizers, OrphanRead(p) PROVE TailIsUnderWay'
    BY <2>0, <2>23
    DEF TailIsUnderWay, Goto, At, OrphanRead, db, daemon, tallies, Fault, AfterOrphan,
        AfterInterrupt
  <2>24. ASSUME NEW p \in Finalizers, OrphanFinished(p) PROVE TailIsUnderWay'
    <3>1. Commit(p, RunFinished(target[p], "interrupted")) /\ UNCHANGED <<recent, crashes>>
      BY <2>24 DEF OrphanFinished, tallies
    <3>2. QED
      BY <2>0, <3>1, CommitUnderWay
  <2>25. ASSUME NEW p \in Finalizers, OrphanRow(p) PROVE TailIsUnderWay'
    BY <2>0, <2>25
    DEF TailIsUnderWay, Goto, At, OrphanRow, daemon, locals, tallies, FinishRun, Write,
        Fault
  <2>26. ASSUME NEW p \in Finalizers, OrphanClear(p) PROVE TailIsUnderWay'
    BY <2>0, <2>26, SetRecentTail
    DEF TailIsUnderWay, Goto, At, OrphanClear, daemon, locals, tallies, AfterOrphan,
        AfterInterrupt
  <2>27. ASSUME BootStart PROVE TailIsUnderWay'
    BY <2>0, <2>27
    DEF TailIsUnderWay, Goto, At, BootStart, db, daemon, locals
  <2>28. ASSUME BootListRows PROVE TailIsUnderWay'
    BY <2>0, <2>28
    DEF TailIsUnderWay, Goto, At, BootListRows, db, daemon, tallies, Fault
  <2>29. ASSUME BootFinishRow PROVE TailIsUnderWay'
    BY <2>0, <2>29
    DEF TailIsUnderWay, Goto, At, BootFinishRow, daemon, tallies, FinishRun, Write, Fault
  <2>30. ASSUME BootClearRow PROVE TailIsUnderWay'
    BY <2>0, <2>30, SetRecentTail
    DEF TailIsUnderWay, Goto, At, BootClearRow, daemon, locals, tallies
  <2>31. ASSUME BootListen PROVE TailIsUnderWay'
    BY <2>0, <2>31
    DEF TailIsUnderWay, Goto, At, BootListen, db, locals, counters, tallies
  <2>32. ASSUME NEW p \in Procs, Bump(p) PROVE TailIsUnderWay'
    BY <2>0, <2>32
    DEF TailIsUnderWay, Goto, At, Bump, daemon, locals, tallies, Write, Fault
  <2>33. ASSUME Crash PROVE TailIsUnderWay'
    BY <2>0, <2>33
    DEF TailIsUnderWay, Goto, At, Crash, db, Die
  <2>34. ASSUME BootCrash PROVE TailIsUnderWay'
    BY <2>0, <2>34
    DEF TailIsUnderWay, Goto, At, BootCrash, db, daemon, locals, Die
  <2>35. CASE UNCHANGED vars
    BY <2>35
    DEF TailIsUnderWay, vars, db, daemon, locals, counters, tallies
  <2>36. QED
    <3>1. ASSUME NEW r \in Requests, Send(r) PROVE TailIsUnderWay'
      BY <3>1, <2>1, <2>2, <2>3, <2>4, <2>5, <2>6, <2>7, <2>8, <2>9, <2>10 DEF Send
    <3>2. ASSUME NEW r \in Requests, RunProvider(r) PROVE TailIsUnderWay'
      BY <3>2, <2>11, <2>12, <2>13, <2>14, <2>15, <2>16, <2>17, <2>18
      DEF RunProvider, Finalize
    <3>3. ASSUME NEW p \in Finalizers, FinalizeOrphan(p) PROVE TailIsUnderWay'
      BY <3>3, <2>23, <2>24, <2>25, <2>26 DEF FinalizeOrphan
    <3>4. ASSUME NEW c \in Callers, Interrupt(c) PROVE TailIsUnderWay'
      BY <3>4, <2>19, <2>20, <2>21, <2>22, <3>3 DEF Interrupt, Finalizers
    <3>5. ASSUME Reconcile PROVE TailIsUnderWay'
      BY <3>5, <2>27, <2>28, <2>29, <2>30, <2>31, <3>3 DEF Reconcile, Finalizers
    <3>6. QED
      BY <2>32, <2>33, <2>34, <2>35, <3>1, <3>2, <3>4, <3>5 DEF Next
<1>3. QED
  BY <1>1, <1>2, TypeCorrect, PTL DEF Spec

\* While nobody is inside commit, the projection's tail is the ledger's.
THEOREM LastSeqExactHolds == Spec => []LastSeqExact
<1>1. TypeOK /\ TailIsUnderWay => LastSeqExact
  <2> SUFFICES ASSUME TypeOK, TailIsUnderWay, recent # None, faults = 0, crashes = 0,
                      \A p \in Procs : pend[p] = 0
               PROVE  recent.lastSeq = Len(ledger)
    BY DEF LastSeqExact
  <2>1. recent.lastSeq \in Nat /\ Len(ledger) \in Nat
    BY DEF TypeOK, VarTypes, RecentRow
  <2>2. QED
    BY <2>1 DEF TailIsUnderWay
<1>2. QED
  BY <1>1, TypeCorrect, TailIsUnderWayHolds, PTL

----------------------------------------------------------------------------
(* The order of the ledger *)

\* The tail shows one run at most.
LEMMA DanglingOne ==
  ASSUME NEW S, NEW l \in Seq(S), NEW q \in DanglingRuns(l), NEW r \in DanglingRuns(l)
  PROVE  q = r
<1>1. PICK i \in DOMAIN l : DanglingAt(l, i) /\ q = l[i].run
  BY DEF DanglingRuns
<1>2. PICK j \in DOMAIN l : DanglingAt(l, j) /\ r = l[j].run
  BY DEF DanglingRuns
<1>3. i \in Nat /\ j \in Nat /\ ~(i < j) /\ ~(j < i)
  BY <1>1, <1>2 DEF DanglingAt, Boundary
<1>4. QED
  BY <1>1, <1>2, <1>3

\* What a request appends belongs to the run the tail shows, if it shows one: that run
\* holds Service.active, and so does the request.
LEMMA OnlyOwnRunShows ==
  ASSUME OneOwner, LiveInv, faults = 0, duplicates = 0, DanglingRuns(ledger) \subseteq Requests,
         NEW r \in Requests, pc[r] \in Owning
  PROVE  /\ DanglingRuns(ledger) \subseteq {r}
         /\ pc[r] \notin Settling => DanglingRuns(ledger) = {}
<1>1. up
  BY DEF LiveInv, Quiet, Resting, Owning
<1>2. ASSUME NEW q \in DanglingRuns(ledger) PROVE q = r /\ pc[r] \in Settling
  <2>1. pc[q] \in Settling
    BY <1>1 DEF LiveInv, Settled
  <2>2. active = q /\ active = r
    BY <2>1 DEF OneOwner, Settling, Owning
  <2>3. QED
    BY <2>1, <2>2
<1>3. QED
  BY <1>2

\* The ledger l is a sequence of runs: nothing of another run appears between a
\* run_started and its run_finished, and a run_started that has none is the tail's.
FinishedBetween(l, i, j) ==
  \E k \in i..j : l[k].type = "run_finished" /\ l[k].run = l[i].run
Sequential(l) ==
  /\ \A i, j \in DOMAIN l :
       (i < j /\ l[i].type = "run_started" /\ l[j].run # l[i].run) => FinishedBetween(l, i, j)
  /\ \A i \in DOMAIN l :
       l[i].type = "run_started" =>
         FinishedBetween(l, i, Len(l)) \/ l[i].run \in DanglingRuns(l)

\* It stays one as long as what is appended is of the run the tail shows, if any.
LEMMA SequentialAppend ==
  ASSUME NEW S, NEW l \in Seq(S), NEW e \in S, Sequential(l),
         DanglingRuns(l) \subseteq {e.run}
  PROVE  Sequential(Append(l, e))
<1> DEFINE m == Append(l, e)
           n == Len(l) + 1
<1>1. /\ DOMAIN l = 1..Len(l) /\ DOMAIN m = 1..n /\ Len(l) \in Nat /\ Len(m) = n
      /\ m[n] = e /\ \A i \in 1..Len(l) : m[i] = l[i]
  <2>1. m \in Seq(S) /\ Len(m) = n
    OBVIOUS
  <2>2. QED
    BY <2>1, AppendPositions
<1> HIDE DEF m
<1>2. ASSUME NEW i \in 1..Len(l), NEW j \in 1..Len(l), FinishedBetween(l, i, j)
      PROVE  FinishedBetween(m, i, j) /\ FinishedBetween(m, i, n)
  <2>1. PICK k \in i..j : l[k].type = "run_finished" /\ l[k].run = l[i].run
    BY <1>2 DEF FinishedBetween
  <2>2. k \in 1..Len(l) /\ k \in i..n /\ m[k] = l[k] /\ m[i] = l[i]
    BY <1>1
  <2>3. QED
    BY <2>1, <2>2 DEF FinishedBetween
<1>3. ASSUME NEW i \in 1..Len(l), l[i].type = "run_started"
      PROVE  \/ FinishedBetween(m, i, n)
             \/ m[i].run = e.run /\ m[i].run \in DanglingRuns(m)
  <2>1. CASE FinishedBetween(l, i, Len(l))
    BY <1>1, <1>2, <2>1
  <2>2. CASE l[i].run \in DanglingRuns(l)
    <3>1. m[i] = l[i] /\ l[i].run = e.run
      BY <1>1, <2>2
    <3>2. CASE e.type = "run_finished"
      BY <1>1, <3>1, <3>2 DEF FinishedBetween
    <3>3. CASE e.type = "run_started"
      BY <3>1, <3>3, DanglingStarted DEF m
    <3>4. CASE e.type \notin Boundary
      BY <2>2, <3>1, <3>4, DanglingOther DEF m
    <3>5. QED
      BY <3>2, <3>3, <3>4 DEF Boundary
  <2>3. QED
    BY <1>1, <1>3, <2>1, <2>2 DEF Sequential
<1>4. ASSUME NEW i \in 1..n, NEW j \in 1..n, i < j, m[i].type = "run_started",
             m[j].run # m[i].run
      PROVE  FinishedBetween(m, i, j)
  <2>1. i \in 1..Len(l) /\ m[i] = l[i]
    BY <1>1, <1>4
  <2>2. CASE j \in 1..Len(l)
    BY <1>1, <1>2, <1>4, <2>1, <2>2 DEF Sequential
  <2>3. CASE j = n
    BY <1>1, <1>3, <1>4, <2>1, <2>3
  <2>4. QED
    BY <1>1, <2>2, <2>3
<1>5. ASSUME NEW i \in 1..n, m[i].type = "run_started"
      PROVE  FinishedBetween(m, i, n) \/ m[i].run \in DanglingRuns(m)
  <2>1. CASE i = n
    BY <1>1, <1>5, <2>1, DanglingStarted DEF m
  <2>2. CASE i \in 1..Len(l)
    BY <1>1, <1>3, <1>5, <2>2
  <2>3. QED
    BY <1>1, <2>1, <2>2
<1>6. QED
  BY <1>1, <1>4, <1>5 DEF Sequential, m

\* The invariant behind RunsDoNotInterleave.
LedgerSequential == (faults = 0 /\ duplicates = 0) => Sequential(ledger)

\* A commit of an event of the run the tail shows, if any, keeps it.
LEMMA CommitSequential ==
  ASSUME VarTypes, LedgerSequential, NEW p \in Procs, NEW e \in EventSet, Commit(p, e),
         faults = 0 /\ duplicates = 0 => DanglingRuns(ledger) \subseteq {e.run},
         UNCHANGED duplicates
  PROVE  LedgerSequential'
<1>1. ledger \in Seq(EventSet) /\ faults \in Nat
  BY DEF VarTypes
<1>2. CASE ledger' = Append(ledger, e) /\ faults' = faults
  <2>1. faults = 0 /\ duplicates = 0 => Sequential(Append(ledger, e))
    BY <1>1, SequentialAppend DEF LedgerSequential
  <2>2. QED
    BY <1>2, <2>1 DEF LedgerSequential
<1>3. CASE faults' > 0
  BY <1>3 DEF LedgerSequential
<1>4. QED
  BY <1>2, <1>3, CommitFacts

\* LedgerSequential holds in every reachable state, when nobody calls Interrupt or
\* DeleteSession.
THEOREM LedgerSequentialHolds == ASSUME Callers = {} PROVE Spec => []LedgerSequential
<1>1. Init => LedgerSequential
  BY DEF Init, LedgerSequential, Sequential
<1>2. TypeOK /\ OneOwner /\ LiveInv /\ RowsAhead /\ LedgerSequential /\ [Next]_vars
        => LedgerSequential'
  <2> SUFFICES ASSUME TypeOK, OneOwner, LiveInv, RowsAhead, LedgerSequential, [Next]_vars
               PROVE  LedgerSequential'
    OBVIOUS
  <2>0. /\ Finalizers = {Boot} /\ VarTypes /\ faults \in Nat /\ duplicates \in Nat
        /\ ledger \in Seq(EventSet) /\ DanglingRuns(ledger) \subseteq Requests
        /\ Requests \subseteq Procs /\ Boot \in Procs
        /\ \A r \in Requests : pc[r] \in UsesOutcome => outcome[r] \in Terminal
        /\ pc[Boot] \in UsesTarget => target[Boot] \in Requests
    BY DEF TypeOK, VarTypes, Holdings, Procs, Finalizers, DanglingRuns, EventSet
  <2>1. ASSUME NEW r \in Requests, SendBegin(r) PROVE LedgerSequential'
    BY <2>0, <2>1
    DEF LedgerSequential, Goto, At, SendBegin, db, daemon, counters, tallies
  <2>2. ASSUME NEW r \in Requests, SendCheckIntent(r) PROVE LedgerSequential'
    BY <2>0, <2>2
    DEF LedgerSequential, Goto, At, SendCheckIntent, db, daemon, tallies, Fault
  <2>3. ASSUME NEW r \in Requests, SendUpdateModel(r) PROVE LedgerSequential'
    BY <2>0, <2>3
    DEF LedgerSequential, Goto, At, SendUpdateModel, daemon, tallies, Write, Fault
  <2>4. ASSUME NEW r \in Requests, SendStageImages(r) PROVE LedgerSequential'
    BY <2>0, <2>4
    DEF LedgerSequential, Goto, At, SendStageImages, daemon, locals, tallies, Write, Fault
  <2>5. ASSUME NEW r \in Requests, SendAcquire(r) PROVE LedgerSequential'
    BY <2>0, <2>5
    DEF LedgerSequential, Goto, At, SendAcquire, db, locals, counters, tallies
  <2>6. ASSUME NEW r \in Requests, SendPutIntent(r) PROVE LedgerSequential'
    BY <2>0, <2>6
    DEF LedgerSequential, Goto, At, SendPutIntent, daemon, locals, tallies, Write, Fault
  <2>7. ASSUME NEW r \in Requests, SendUserMessage(r) PROVE LedgerSequential'
    <3> DEFINE e == Event("user_message", r)
    <3>1. /\ e \in EventSet /\ e.run = r /\ Commit(r, e) /\ r \in Procs /\ pc[r] = "user_message"
          /\ UNCHANGED duplicates
      BY <2>0, <2>7, EventFacts DEF SendUserMessage, At, tallies, UsesOutcome, UsesTarget, Terminal
    <3> HIDE DEF e
    <3>2. faults = 0 /\ duplicates = 0 => DanglingRuns(ledger) \subseteq {e.run}
      BY <2>0, <3>1, OnlyOwnRunShows DEF Owning
    <3>3. QED
      BY <2>0, <3>1, <3>2, CommitSequential
  <2>8. ASSUME NEW r \in Requests, SendCreateRun(r) PROVE LedgerSequential'
    BY <2>0, <2>8
    DEF LedgerSequential, Goto, At, SendCreateRun, daemon, locals, tallies, Write, Fault
  <2>9. ASSUME NEW r \in Requests, SendRunStarted(r) PROVE LedgerSequential'
    <3> DEFINE e == Event("run_started", r)
    <3>1. /\ e \in EventSet /\ e.run = r /\ Commit(r, e) /\ r \in Procs /\ pc[r] = "run_started"
          /\ UNCHANGED duplicates
      BY <2>0, <2>9, EventFacts DEF SendRunStarted, At, tallies, UsesOutcome, UsesTarget, Terminal
    <3> HIDE DEF e
    <3>2. faults = 0 /\ duplicates = 0 => DanglingRuns(ledger) \subseteq {e.run}
      BY <2>0, <3>1, OnlyOwnRunShows DEF Owning
    <3>3. QED
      BY <2>0, <3>1, <3>2, CommitSequential
  <2>10. ASSUME NEW r \in Requests, SendTouchRunning(r) PROVE LedgerSequential'
    BY <2>0, <2>10
    DEF LedgerSequential, Goto, At, SendTouchRunning, daemon, locals, tallies, SetRecent,
        Write, Fault
  <2>11. ASSUME NEW r \in Requests, ProviderOutput(r) PROVE LedgerSequential'
    <3> DEFINE e == Event("output", r)
    <3>1. /\ e \in EventSet /\ e.run = r /\ Commit(r, e) /\ r \in Procs /\ pc[r] = "provider"
          /\ UNCHANGED duplicates
      BY <2>0, <2>11, EventFacts DEF ProviderOutput, At, tallies, UsesOutcome, UsesTarget, Terminal
    <3> HIDE DEF e
    <3>2. faults = 0 /\ duplicates = 0 => DanglingRuns(ledger) \subseteq {e.run}
      BY <2>0, <3>1, OnlyOwnRunShows DEF Owning
    <3>3. QED
      BY <2>0, <3>1, <3>2, CommitSequential
  <2>12. ASSUME NEW r \in Requests, ProviderSystem(r) PROVE LedgerSequential'
    BY <2>0, <2>12
    DEF LedgerSequential, Goto, At, ProviderSystem, daemon, tallies, Write, Fault
  <2>13. ASSUME NEW r \in Requests, ProviderReturn(r) PROVE LedgerSequential'
    BY <2>0, <2>13
    DEF LedgerSequential, Goto, At, ProviderReturn, db, daemon, counters, tallies
  <2>14. ASSUME NEW r \in Requests, FinalizeError(r) PROVE LedgerSequential'
    <3> DEFINE e == Event("error", r)
    <3>1. /\ e \in EventSet /\ e.run = r /\ Commit(r, e) /\ r \in Procs /\ pc[r] = "error"
          /\ UNCHANGED duplicates
      BY <2>0, <2>14, EventFacts DEF FinalizeError, At, tallies, UsesOutcome, UsesTarget, Terminal
    <3> HIDE DEF e
    <3>2. faults = 0 /\ duplicates = 0 => DanglingRuns(ledger) \subseteq {e.run}
      BY <2>0, <3>1, OnlyOwnRunShows DEF Owning
    <3>3. QED
      BY <2>0, <3>1, <3>2, CommitSequential
  <2>15. ASSUME NEW r \in Requests, FinalizeRunFinished(r) PROVE LedgerSequential'
    <3> DEFINE e == RunFinished(r, outcome[r])
    <3>1. /\ e \in EventSet /\ e.run = r /\ Commit(r, e) /\ r \in Procs /\ pc[r] = "run_finished"
          /\ UNCHANGED duplicates
      BY <2>0, <2>15, EventFacts DEF FinalizeRunFinished, At, tallies, UsesOutcome, UsesTarget, Terminal
    <3> HIDE DEF e
    <3>2. faults = 0 /\ duplicates = 0 => DanglingRuns(ledger) \subseteq {e.run}
      BY <2>0, <3>1, OnlyOwnRunShows DEF Owning
    <3>3. QED
      BY <2>0, <3>1, <3>2, CommitSequential
  <2>16. ASSUME NEW r \in Requests, FinalizeRow(r) PROVE LedgerSequential'
    BY <2>0, <2>16
    DEF LedgerSequential, Goto, At, FinalizeRow, daemon, locals, tallies, FinishRun, Write,
        Fault
  <2>17. ASSUME NEW r \in Requests, FinalizeTouchRecent(r) PROVE LedgerSequential'
    BY <2>0, <2>17
    DEF LedgerSequential, Goto, At, FinalizeTouchRecent, daemon, locals, tallies, SetRecent,
        Write, Fault
  <2>18. ASSUME NEW r \in Requests, FinalizeRelease(r) PROVE LedgerSequential'
    BY <2>0, <2>18
    DEF LedgerSequential, Goto, At, FinalizeRelease, db, locals, counters, tallies
  <2>19. ASSUME NEW c \in Callers, InterruptRead(c) PROVE LedgerSequential'
    BY <2>0, <2>19
    DEF LedgerSequential, Goto, At, InterruptRead, db, daemon, counters, tallies
  <2>20. ASSUME NEW c \in Callers, InterruptCancel(c) PROVE LedgerSequential'
    BY <2>0, <2>20
    DEF LedgerSequential, Goto, At, InterruptCancel, db, locals, counters, tallies,
        AfterInterrupt
  <2>21. ASSUME NEW c \in Callers, DeleteUploads(c) PROVE LedgerSequential'
    BY <2>0, <2>21
    DEF LedgerSequential, Goto, At, DeleteUploads, daemon, locals, counters, tallies
  <2>22. ASSUME NEW c \in Callers, DeleteRows(c) PROVE LedgerSequential'
    BY <2>0, <2>22
    DEF LedgerSequential, Goto, At, DeleteRows, daemon, locals, tallies, Write, Fault
  <2>23. ASSUME NEW p \in Finalizers, OrphanRead(p) PROVE LedgerSequential'
    BY <2>0, <2>23
    DEF LedgerSequential, Goto, At, OrphanRead, db, daemon, tallies, Fault, AfterOrphan,
        AfterInterrupt
  <2>24. ASSUME NEW p \in Finalizers, OrphanFinished(p) PROVE LedgerSequential'
    <3> DEFINE e == RunFinished(target[p], "interrupted")
    <3>1. /\ e \in EventSet /\ e.run = target[p] /\ Commit(p, e) /\ p \in Procs /\ pc[p] = "orphan_finished"
          /\ UNCHANGED duplicates
      BY <2>0, <2>24, EventFacts DEF OrphanFinished, At, tallies, UsesOutcome, UsesTarget, Terminal
    <3> HIDE DEF e
    <3>2. faults = 0 /\ duplicates = 0 => DanglingRuns(ledger) \subseteq {e.run}
      BY <2>0, <2>24, <3>1, DanglingOne DEF RowsAhead
    <3>3. QED
      BY <2>0, <3>1, <3>2, CommitSequential
  <2>25. ASSUME NEW p \in Finalizers, OrphanRow(p) PROVE LedgerSequential'
    BY <2>0, <2>25
    DEF LedgerSequential, Goto, At, OrphanRow, daemon, locals, tallies, FinishRun, Write,
        Fault
  <2>26. ASSUME NEW p \in Finalizers, OrphanClear(p) PROVE LedgerSequential'
    BY <2>0, <2>26
    DEF LedgerSequential, Goto, At, OrphanClear, daemon, locals, tallies, SetRecent, Write,
        Fault, AfterOrphan, AfterInterrupt
  <2>27. ASSUME BootStart PROVE LedgerSequential'
    BY <2>0, <2>27
    DEF LedgerSequential, Goto, At, BootStart, db, daemon, locals
  <2>28. ASSUME BootListRows PROVE LedgerSequential'
    BY <2>0, <2>28
    DEF LedgerSequential, Goto, At, BootListRows, db, daemon, tallies, Fault
  <2>29. ASSUME BootFinishRow PROVE LedgerSequential'
    BY <2>0, <2>29
    DEF LedgerSequential, Goto, At, BootFinishRow, daemon, tallies, FinishRun, Write, Fault
  <2>30. ASSUME BootClearRow PROVE LedgerSequential'
    BY <2>0, <2>30
    DEF LedgerSequential, Goto, At, BootClearRow, daemon, locals, tallies, SetRecent, Write,
        Fault
  <2>31. ASSUME BootListen PROVE LedgerSequential'
    BY <2>0, <2>31
    DEF LedgerSequential, Goto, At, BootListen, db, locals, counters, tallies
  <2>32. ASSUME NEW p \in Procs, Bump(p) PROVE LedgerSequential'
    BY <2>0, <2>32
    DEF LedgerSequential, Goto, At, Bump, daemon, locals, tallies, Write, Fault
  <2>33. ASSUME Crash PROVE LedgerSequential'
    BY <2>0, <2>33
    DEF LedgerSequential, Goto, At, Crash, db, Die
  <2>34. ASSUME BootCrash PROVE LedgerSequential'
    BY <2>0, <2>34
    DEF LedgerSequential, Goto, At, BootCrash, db, daemon, locals, Die
  <2>35. CASE UNCHANGED vars
    BY <2>35
    DEF LedgerSequential, vars, db, daemon, locals, counters, tallies
  <2>36. QED
    <3>1. ASSUME NEW r \in Requests, Send(r) PROVE LedgerSequential'
      BY <3>1, <2>1, <2>2, <2>3, <2>4, <2>5, <2>6, <2>7, <2>8, <2>9, <2>10 DEF Send
    <3>2. ASSUME NEW r \in Requests, RunProvider(r) PROVE LedgerSequential'
      BY <3>2, <2>11, <2>12, <2>13, <2>14, <2>15, <2>16, <2>17, <2>18
      DEF RunProvider, Finalize
    <3>3. ASSUME NEW p \in Finalizers, FinalizeOrphan(p) PROVE LedgerSequential'
      BY <3>3, <2>23, <2>24, <2>25, <2>26 DEF FinalizeOrphan
    <3>4. ASSUME NEW c \in Callers, Interrupt(c) PROVE LedgerSequential'
      BY <3>4, <2>19, <2>20, <2>21, <2>22, <3>3 DEF Interrupt, Finalizers
    <3>5. ASSUME Reconcile PROVE LedgerSequential'
      BY <3>5, <2>27, <2>28, <2>29, <2>30, <2>31, <3>3 DEF Reconcile, Finalizers
    <3>6. QED
      BY <2>32, <2>33, <2>34, <2>35, <3>1, <3>2, <3>4, <3>5 DEF Next
<1>3. QED
  BY <1>1, <1>2, TypeCorrect, OneOwnerHolds, LiveInvHolds, RowsAheadHolds, PTL DEF Spec

\* Without interrupts and deletions the ledger is one run after another, through deaths
\* and what reconciliation settles after them.
THEOREM RunsStaySequential == ASSUME Callers = {} PROVE Spec => []RunsDoNotInterleave
<1>1. LedgerSequential => RunsDoNotInterleave
  BY DEF LedgerSequential, Sequential, FinishedBetween, RunsDoNotInterleave
<1>2. QED
  BY <1>1, LedgerSequentialHolds, PTL

----------------------------------------------------------------------------
(* The end of a run *)

\* A run that ended, in the ledger; and what a ledger says of the ends of all runs.
HasEnded(l, r) == \E i \in DOMAIN l : l[i].type = "run_finished" /\ l[i].run = r
EndsOnce(l) ==
  \A i, j \in DOMAIN l :
    (/\ l[i].type = "run_finished" /\ l[j].type = "run_finished"
     /\ l[i].run = l[j].run) => i = j

\* Where a request is before its run_finished, and where its row cannot say running.
Unended == BeforeRow \cup {"run_started"} \cup Settling
RowSaid == (Resting \ {"lost"}) \cup {"touch_idle", "release"}

\* The invariant behind RunEndsOnce, when nobody calls Interrupt or DeleteSession.
\* Whoever is about to announce an end (the run, or the first pass of reconciliation
\* after a death) finds none, whoever is about to write it in the row has announced it,
\* and the rows the second pass writes are of runs that died with their process.
EndInv ==
  (faults = 0 /\ duplicates = 0) =>
    /\ EndsOnce(ledger)
    /\ \A r \in DanglingRuns(ledger) : ~HasEnded(ledger, r)
    /\ \A r \in Requests :
         /\ pc[r] \in Unended => ~HasEnded(ledger, r)
         /\ pc[r] = "finish_run" => EndedAs(ledger, r, outcome[r])
         /\ pc[r] \in RowSaid => runs[r] # "running"
         /\ runs[r] \in Terminal =>
              EndedAs(ledger, r, runs[r]) \/ (runs[r] = "interrupted" /\ pc[r] = "lost")
    /\ pc[Boot] = "orphan_row" => EndedAs(ledger, target[Boot], "interrupted")

\* A commit, as far as ends go: nothing that ended is forgotten, and only a run_finished
\* ends a run, once if it had not ended.
CommitEnding(e) ==
  \/ faults' > 0
  \/ /\ faults' = faults /\ ledger' = Append(ledger, e)
     /\ e.type = "run_started" => DanglingRuns(ledger') = {e.run}
     /\ e.type = "run_finished" => DanglingRuns(ledger') = {}
     /\ e.type \notin Boundary => DanglingRuns(ledger') = DanglingRuns(ledger)
     /\ \A q : HasEnded(ledger', q) <=>
                 HasEnded(ledger, q) \/ (e.type = "run_finished" /\ e.run = q)
     /\ \A q, s : EndedAs(ledger', q, s) <=> EndedAs(ledger, q, s) \/ e = RunFinished(q, s)
     /\ EndsOnce(ledger) /\ (e.type = "run_finished" => ~HasEnded(ledger, e.run))
          => EndsOnce(ledger')

LEMMA AppendEnds ==
  ASSUME NEW S, NEW l \in Seq(S), NEW e \in S
  PROVE  LET m == Append(l, e)
         IN  /\ \A q : HasEnded(m, q) <=>
                         HasEnded(l, q) \/ (e.type = "run_finished" /\ e.run = q)
             /\ \A q, s : EndedAs(m, q, s) <=> EndedAs(l, q, s) \/ e = RunFinished(q, s)
             /\ EndsOnce(l) /\ (e.type = "run_finished" => ~HasEnded(l, e.run)) => EndsOnce(m)
<1> DEFINE m == Append(l, e)
           n == Len(l) + 1
<1>1. /\ DOMAIN m = DOMAIN l \cup {n} /\ n \notin DOMAIN l
      /\ m[n] = e /\ \A i \in DOMAIN l : m[i] = l[i]
  BY AppendPositions
<1> HIDE DEF m, n
<1>2. \A q : HasEnded(m, q) <=> HasEnded(l, q) \/ (e.type = "run_finished" /\ e.run = q)
  BY <1>1 DEF HasEnded
<1>3. \A q, s : EndedAs(m, q, s) <=> EndedAs(l, q, s) \/ e = RunFinished(q, s)
  BY <1>1 DEF EndedAs
<1>4. ASSUME EndsOnce(l), e.type = "run_finished" => ~HasEnded(l, e.run) PROVE EndsOnce(m)
  BY <1>1, <1>4 DEF EndsOnce, HasEnded
<1>5. QED
  BY <1>2, <1>3, <1>4 DEF m

LEMMA CommitEnds ==
  ASSUME VarTypes, NEW p \in Procs, NEW e \in EventSet, Commit(p, e)
  PROVE  CommitEnding(e)
<1>1. ledger \in Seq(EventSet)
  BY DEF VarTypes
<1>2. faults' > 0 \/ (faults' = faults /\ ledger' = Append(ledger, e))
  BY CommitShows
<1>3. CASE faults' > 0
  BY <1>3 DEF CommitEnding
<1>4. CASE faults' = faults /\ ledger' = Append(ledger, e)
  <2>1. faults \in Nat
    BY DEF VarTypes
  <2>2. \/ faults' > 0
        \/ /\ e.type = "run_started" => DanglingRuns(ledger') = {e.run}
           /\ e.type = "run_finished" => DanglingRuns(ledger') = {}
           /\ e.type \notin Boundary => DanglingRuns(ledger') = DanglingRuns(ledger)
    BY CommitShows
  <2>3. QED
    BY <1>1, <1>4, <2>2, AppendEnds DEF CommitEnding
<1>5. QED
  BY <1>2, <1>3, <1>4

\* EndInv holds in every reachable state.
THEOREM EndInvHolds == ASSUME Callers = {} PROVE Spec => []EndInv
<1>1. Init => EndInv
  BY DanglingEmpty, ProcsAssumption
  DEF Init, EndInv, HasEnded, EndsOnce, EndedAs, Terminal, Procs
<1>2. TypeOK /\ LiveInv /\ RowsAhead /\ EndInv /\ [Next]_vars => EndInv'
  <2> SUFFICES ASSUME TypeOK, LiveInv, RowsAhead, EndInv, [Next]_vars
               PROVE  EndInv'
    OBVIOUS
  <2>0. /\ Finalizers = {Boot} /\ VarTypes /\ faults \in Nat /\ duplicates \in Nat
        /\ ledger \in Seq(EventSet) /\ DanglingRuns(ledger) \subseteq Requests
        /\ pc \in [Procs -> Labels] /\ runs \in [Requests -> RunStates]
        /\ outcome \in [Requests -> Terminal \cup {"none"}]
        /\ Requests \subseteq Procs /\ Boot \in Procs /\ Boot \notin Requests
        /\ todo \subseteq Requests /\ target \in [Procs -> Requests \cup {None}]
        /\ \A r \in Requests : pc[r] \in UsesOutcome => outcome[r] \in Terminal
        /\ pc[Boot] \in UsesTarget => target[Boot] \in Requests
    BY ProcsAssumption
    DEF TypeOK, VarTypes, Holdings, Procs, Finalizers, DanglingRuns, EventSet
  <2>1. ASSUME NEW r \in Requests, SendBegin(r) PROVE EndInv'
    BY <2>0, <2>1
    DEF EndInv, Unended, RowSaid, BeforeRow, Settling, Resting, Goto, At, SendBegin, db,
        daemon, counters, tallies
  <2>2. ASSUME NEW r \in Requests, SendCheckIntent(r) PROVE EndInv'
    BY <2>0, <2>2
    DEF EndInv, Unended, RowSaid, BeforeRow, Settling, Resting, Goto, At, SendCheckIntent,
        db, daemon, tallies, Fault, RowsAhead
  <2>3. ASSUME NEW r \in Requests, SendUpdateModel(r) PROVE EndInv'
    BY <2>0, <2>3
    DEF EndInv, Unended, RowSaid, BeforeRow, Settling, Resting, Goto, At, SendUpdateModel,
        daemon, tallies, Write, Fault
  <2>4. ASSUME NEW r \in Requests, SendStageImages(r) PROVE EndInv'
    BY <2>0, <2>4
    DEF EndInv, Unended, RowSaid, BeforeRow, Settling, Resting, Goto, At, SendStageImages,
        daemon, locals, tallies, Write, Fault
  <2>5. ASSUME NEW r \in Requests, SendAcquire(r) PROVE EndInv'
    BY <2>0, <2>5
    DEF EndInv, Unended, RowSaid, BeforeRow, Settling, Resting, Goto, At, SendAcquire, db,
        locals, counters, tallies, RowsAhead
  <2>6. ASSUME NEW r \in Requests, SendPutIntent(r) PROVE EndInv'
    BY <2>0, <2>6
    DEF EndInv, Unended, RowSaid, BeforeRow, Settling, Resting, Goto, At, SendPutIntent,
        daemon, locals, tallies, Write, Fault
  <2>7. ASSUME NEW r \in Requests, SendUserMessage(r) PROVE EndInv'
    <3> DEFINE e == Event("user_message", r)
    <3>1. /\ e \in EventSet /\ e.run = r /\ e.type = "user_message" /\ Commit(r, e)
          /\ r \in Procs /\ pc[r] = "user_message" /\ pc' = [pc EXCEPT ![r] = "create_run"]
          /\ UNCHANGED <<runs, outcome, target, duplicates>>
      BY <2>0, <2>7, EventFacts DEF SendUserMessage, At, Goto, tallies, locals
    <3> HIDE DEF e
    <3>2. CommitEnding(e)
      BY <2>0, <3>1, CommitEnds
    <3>3. QED
      BY <2>0, <3>1, <3>2
      DEF CommitEnding, EndInv, Unended, RowSaid, BeforeRow, Settling, Resting, Boundary
  <2>8. ASSUME NEW r \in Requests, SendCreateRun(r) PROVE EndInv'
    BY <2>0, <2>8
    DEF EndInv, Unended, RowSaid, BeforeRow, Settling, Resting, Goto, At, SendCreateRun,
        daemon, locals, tallies, Write, Fault, RowsAhead, Terminal
  <2>9. ASSUME NEW r \in Requests, SendRunStarted(r) PROVE EndInv'
    <3> DEFINE e == Event("run_started", r)
    <3>1. /\ e \in EventSet /\ e.run = r /\ e.type = "run_started" /\ Commit(r, e)
          /\ r \in Procs /\ pc[r] = "run_started" /\ pc' = [pc EXCEPT ![r] = "touch_running"]
          /\ UNCHANGED <<runs, outcome, target, duplicates>>
      BY <2>0, <2>9, EventFacts DEF SendRunStarted, At, Goto, tallies, locals
    <3> HIDE DEF e
    <3>2. CommitEnding(e)
      BY <2>0, <3>1, CommitEnds
    <3>3. QED
      BY <2>0, <3>1, <3>2
      DEF CommitEnding, EndInv, Unended, RowSaid, BeforeRow, Settling, Resting, Boundary
  <2>10. ASSUME NEW r \in Requests, SendTouchRunning(r) PROVE EndInv'
    BY <2>0, <2>10
    DEF EndInv, Unended, RowSaid, BeforeRow, Settling, Resting, Goto, At, SendTouchRunning,
        daemon, locals, tallies, SetRecent,
        Write, Fault
  <2>11. ASSUME NEW r \in Requests, ProviderOutput(r) PROVE EndInv'
    <3> DEFINE e == Event("output", r)
    <3>1. /\ e \in EventSet /\ e.run = r /\ e.type = "output" /\ Commit(r, e)
          /\ r \in Procs /\ pc[r] = "provider" /\ pc' = [pc EXCEPT ![r] = "provider"]
          /\ UNCHANGED <<runs, outcome, target, duplicates>>
      BY <2>0, <2>11, EventFacts DEF ProviderOutput, At, Goto, tallies, locals
    <3> HIDE DEF e
    <3>2. CommitEnding(e)
      BY <2>0, <3>1, CommitEnds
    <3>3. QED
      BY <2>0, <3>1, <3>2
      DEF CommitEnding, EndInv, Unended, RowSaid, BeforeRow, Settling, Resting, Boundary
  <2>12. ASSUME NEW r \in Requests, ProviderSystem(r) PROVE EndInv'
    BY <2>0, <2>12
    DEF EndInv, Unended, RowSaid, BeforeRow, Settling, Resting, Goto, At, ProviderSystem,
        daemon, tallies, Write, Fault
  <2>13. ASSUME NEW r \in Requests, ProviderReturn(r) PROVE EndInv'
    BY <2>0, <2>13
    DEF EndInv, Unended, RowSaid, BeforeRow, Settling, Resting, Goto, At, ProviderReturn,
        db, daemon, counters, tallies
  <2>14. ASSUME NEW r \in Requests, FinalizeError(r) PROVE EndInv'
    <3> DEFINE e == Event("error", r)
    <3>1. /\ e \in EventSet /\ e.run = r /\ e.type = "error" /\ Commit(r, e)
          /\ r \in Procs /\ pc[r] = "error" /\ pc' = [pc EXCEPT ![r] = "run_finished"]
          /\ UNCHANGED <<runs, outcome, target, duplicates>>
      BY <2>0, <2>14, EventFacts DEF FinalizeError, At, Goto, tallies, locals
    <3> HIDE DEF e
    <3>2. CommitEnding(e)
      BY <2>0, <3>1, CommitEnds
    <3>3. QED
      BY <2>0, <3>1, <3>2
      DEF CommitEnding, EndInv, Unended, RowSaid, BeforeRow, Settling, Resting, Boundary
  <2>15. ASSUME NEW r \in Requests, FinalizeRunFinished(r) PROVE EndInv'
    <3> DEFINE e == RunFinished(r, outcome[r])
    <3>1. /\ e \in EventSet /\ e.run = r /\ e.type = "run_finished" /\ Commit(r, e)
          /\ r \in Procs /\ pc[r] = "run_finished" /\ pc' = [pc EXCEPT ![r] = "finish_run"]
          /\ UNCHANGED <<runs, outcome, target, duplicates>>
      BY <2>0, <2>15, EventFacts DEF FinalizeRunFinished, At, Goto, tallies, locals, UsesOutcome
    <3>2. CommitEnding(e)
      BY <2>0, <3>1, CommitEnds
    <3> HIDE DEF e
    <3>3. faults' = 0 => EndedAs(ledger', r, outcome[r])
      BY <3>2 DEF CommitEnding, e
    <3>4. QED
      BY <2>0, <3>1, <3>2, <3>3
      DEF CommitEnding, EndInv, Unended, RowSaid, BeforeRow, Settling, Resting, Boundary
  <2>16. ASSUME NEW r \in Requests, FinalizeRow(r) PROVE EndInv'
    BY <2>0, <2>16
    DEF EndInv, Unended, RowSaid, BeforeRow, Settling, Resting, Goto, At, FinalizeRow,
        daemon, locals, tallies, FinishRun, Write,
        Fault, RowsAhead, RowLive, Terminal, UsesOutcome
  <2>17. ASSUME NEW r \in Requests, FinalizeTouchRecent(r) PROVE EndInv'
    BY <2>0, <2>17
    DEF EndInv, Unended, RowSaid, BeforeRow, Settling, Resting, Goto, At,
        FinalizeTouchRecent, daemon, locals, tallies, SetRecent,
        Write, Fault
  <2>18. ASSUME NEW r \in Requests, FinalizeRelease(r) PROVE EndInv'
    BY <2>0, <2>18
    DEF EndInv, Unended, RowSaid, BeforeRow, Settling, Resting, Goto, At, FinalizeRelease,
        db, locals, counters, tallies
  <2>19. ASSUME NEW c \in Callers, InterruptRead(c) PROVE EndInv'
    BY <2>0, <2>19
    DEF EndInv, Unended, RowSaid, BeforeRow, Settling, Resting, Goto, At, InterruptRead,
        db, daemon, counters, tallies
  <2>20. ASSUME NEW c \in Callers, InterruptCancel(c) PROVE EndInv'
    BY <2>0, <2>20
    DEF EndInv, Unended, RowSaid, BeforeRow, Settling, Resting, Goto, At, InterruptCancel,
        db, locals, counters, tallies,
        AfterInterrupt
  <2>21. ASSUME NEW c \in Callers, DeleteUploads(c) PROVE EndInv'
    BY <2>0, <2>21
    DEF EndInv, Unended, RowSaid, BeforeRow, Settling, Resting, Goto, At, DeleteUploads,
        daemon, locals, counters, tallies
  <2>22. ASSUME NEW c \in Callers, DeleteRows(c) PROVE EndInv'
    BY <2>0, <2>22
    DEF EndInv, Unended, RowSaid, BeforeRow, Settling, Resting, Goto, At, DeleteRows,
        daemon, locals, tallies, Write, Fault
  <2>23. ASSUME NEW p \in Finalizers, OrphanRead(p) PROVE EndInv'
    BY <2>0, <2>23
    DEF EndInv, Unended, RowSaid, BeforeRow, Settling, Resting, Goto, At, OrphanRead, db,
        daemon, tallies, Fault, AfterOrphan,
        AfterInterrupt
  <2>24. ASSUME NEW p \in Finalizers, OrphanFinished(p) PROVE EndInv'
    <3> DEFINE r == target[Boot]
               e == RunFinished(r, "interrupted")
    <3>1. /\ e \in EventSet /\ e.run = r /\ e.type = "run_finished" /\ Commit(Boot, e)
          /\ r \in Requests /\ pc[Boot] = "orphan_finished"
          /\ pc' = [pc EXCEPT ![Boot] = "orphan_row"]
          /\ UNCHANGED <<runs, outcome, target, duplicates>>
      BY <2>0, <2>24, EventFacts
      DEF OrphanFinished, At, Goto, tallies, locals, UsesTarget, Terminal
    <3>2. CommitEnding(e)
      BY <2>0, <3>1, CommitEnds
    <3> HIDE DEF e
    <3>3. faults' = 0 => EndedAs(ledger', r, "interrupted")
      BY <3>2 DEF CommitEnding, e
    <3>4. faults = 0 /\ duplicates = 0 =>
            /\ r \in DanglingRuns(ledger) /\ runs[r] = "running"
            /\ ~up /\ pc[r] \in Resting /\ pc[r] \notin BeforeRow /\ pc[r] \notin RowSaid
      BY <2>0, <3>1 DEF RowsAhead, LiveInv, Quiet, Settled, EndInv
    <3> HIDE DEF r
    <3>5. faults = 0 /\ duplicates = 0 => ~HasEnded(ledger, r) /\ pc[r] = "lost"
      BY <3>4 DEF EndInv, RowSaid
    <3>6. QED
      BY <2>0, <3>1, <3>2, <3>3, <3>5
      DEF CommitEnding, EndInv, Unended, RowSaid, BeforeRow, Settling, Resting, Boundary, r
  <2>25. ASSUME NEW p \in Finalizers, OrphanRow(p) PROVE EndInv'
    BY <2>0, <2>25
    DEF EndInv, Unended, RowSaid, BeforeRow, Settling, Resting, Goto, At, OrphanRow,
        daemon, locals, tallies, FinishRun, Write,
        Fault, RowsAhead, Terminal, UsesTarget
  <2>26. ASSUME NEW p \in Finalizers, OrphanClear(p) PROVE EndInv'
    BY <2>0, <2>26
    DEF EndInv, Unended, RowSaid, BeforeRow, Settling, Resting, Goto, At, OrphanClear,
        daemon, locals, tallies, SetRecent, Write,
        Fault, AfterOrphan, AfterInterrupt
  <2>27. ASSUME BootStart PROVE EndInv'
    BY <2>0, <2>27
    DEF EndInv, Unended, RowSaid, BeforeRow, Settling, Resting, Goto, At, BootStart, db,
        daemon, locals
  <2>28. ASSUME BootListRows PROVE EndInv'
    BY <2>0, <2>28
    DEF EndInv, Unended, RowSaid, BeforeRow, Settling, Resting, Goto, At, BootListRows, db,
        daemon, tallies, Fault
  <2>29. ASSUME BootFinishRow PROVE EndInv'
    BY <2>0, <2>29
    DEF EndInv, Unended, RowSaid, BeforeRow, Settling, Resting, Goto, At, BootFinishRow,
        daemon, tallies, FinishRun, Write, Fault, RowsAhead, LiveInv, Quiet, Settled
  <2>30. ASSUME BootClearRow PROVE EndInv'
    BY <2>0, <2>30
    DEF EndInv, Unended, RowSaid, BeforeRow, Settling, Resting, Goto, At, BootClearRow,
        daemon, locals, tallies, SetRecent, Write,
        Fault
  <2>31. ASSUME BootListen PROVE EndInv'
    BY <2>0, <2>31
    DEF EndInv, Unended, RowSaid, BeforeRow, Settling, Resting, Goto, At, BootListen, db,
        locals, counters, tallies
  <2>32. ASSUME NEW p \in Procs, Bump(p) PROVE EndInv'
    BY <2>0, <2>32
    DEF EndInv, Unended, RowSaid, BeforeRow, Settling, Resting, Goto, At, Bump, daemon,
        locals, tallies, Write, Fault
  <2>33. ASSUME Crash PROVE EndInv'
    BY <2>0, <2>33
    DEF EndInv, Unended, RowSaid, BeforeRow, Settling, Resting, Goto, At, Crash, db, Die,
        Terminal, UsesOutcome
  <2>34. ASSUME BootCrash PROVE EndInv'
    BY <2>0, <2>34
    DEF EndInv, Unended, RowSaid, BeforeRow, Settling, Resting, Goto, At, BootCrash, db,
        daemon, locals, Die
  <2>35. CASE UNCHANGED vars
    BY <2>35
    DEF EndInv, Unended, RowSaid, BeforeRow, Settling, Resting, vars, db, daemon, locals,
        counters, tallies
  <2>36. QED
    <3>1. ASSUME NEW r \in Requests, Send(r) PROVE EndInv'
      BY <3>1, <2>1, <2>2, <2>3, <2>4, <2>5, <2>6, <2>7, <2>8, <2>9, <2>10 DEF Send
    <3>2. ASSUME NEW r \in Requests, RunProvider(r) PROVE EndInv'
      BY <3>2, <2>11, <2>12, <2>13, <2>14, <2>15, <2>16, <2>17, <2>18
      DEF RunProvider, Finalize
    <3>3. ASSUME NEW p \in Finalizers, FinalizeOrphan(p) PROVE EndInv'
      BY <3>3, <2>23, <2>24, <2>25, <2>26 DEF FinalizeOrphan
    <3>4. ASSUME NEW c \in Callers, Interrupt(c) PROVE EndInv'
      BY <3>4, <2>19, <2>20, <2>21, <2>22, <3>3 DEF Interrupt, Finalizers
    <3>5. ASSUME Reconcile PROVE EndInv'
      BY <3>5, <2>27, <2>28, <2>29, <2>30, <2>31, <3>3 DEF Reconcile, Finalizers
    <3>6. QED
      BY <2>32, <2>33, <2>34, <2>35, <3>1, <3>2, <3>4, <3>5 DEF Next
<1>3. QED
  BY <1>1, <1>2, TypeCorrect, LiveInvHolds, RowsAheadHolds, PTL DEF Spec

\* Without interrupts and deletions, through deaths and what reconciliation settles after
\* them, every run's end is announced once and its row says what was announced, unless the
\* run died with its process.
THEOREM RunsEndOnce == ASSUME Callers = {} PROVE Spec => []RunEndsOnce
<1>1. EndInv => RunEndsOnce
  BY DEF EndInv, EndsOnce, RunEndsOnce
<1>2. QED
  BY <1>1, EndInvHolds, PTL

----------------------------------------------------------------------------
(* What clients are shown *)

\* A request that has not committed its run_started has none in the ledger.
NotBegun ==
  \A r \in Requests : pc[r] \in BeforeRow \cup {"run_started"} => ~Started(ledger, r)

\* Appending starts the run it names, if it is a run_started, and no other.
LEMMA StartedAppend ==
  ASSUME NEW S, NEW l \in Seq(S), NEW e \in S, NEW r
  PROVE  Started(Append(l, e), r) <=> Started(l, r) \/ e = Event("run_started", r)
  BY AppendPositions DEF Started

\* What a commit starts.
LEMMA CommitStarts ==
  ASSUME VarTypes, NEW p \in Procs, NEW e \in EventSet, Commit(p, e)
  PROVE  \/ ledger' = ledger
         \/ \A r : Started(ledger', r) <=> Started(ledger, r) \/ e = Event("run_started", r)
<1>1. ledger \in Seq(EventSet)
  BY DEF VarTypes
<1>2. ASSUME NEW r
      PROVE  Started(Append(ledger, e), r) <=> Started(ledger, r) \/ e = Event("run_started", r)
  BY <1>1, StartedAppend
<1>3. ledger' = ledger \/ ledger' = Append(ledger, e)
  BY CommitFacts
<1>4. QED
  BY <1>2, <1>3

\* NotBegun holds in every reachable state.
THEOREM NotBegunHolds == Spec => []NotBegun
<1>1. Init => NotBegun
  BY DEF Init, NotBegun, Started
<1>2. TypeOK /\ NotBegun /\ [Next]_vars => NotBegun'
  <2> SUFFICES ASSUME TypeOK, NotBegun, [Next]_vars PROVE NotBegun'
    OBVIOUS
  <2>0. /\ pc \in [Procs -> Labels] /\ runs \in [Requests -> RunStates]
        /\ pend \in [Procs -> Nat] /\ faults \in Nat /\ duplicates \in Nat /\ crashes \in Nat
        /\ Requests \subseteq Procs
        /\ \A c \in Callers : c \in Procs /\ c \notin Requests /\ c # Boot
        /\ \A p \in Finalizers : p \in Procs /\ p \notin Requests
        /\ Boot \in Procs /\ Boot \notin Requests /\ None \notin Procs
        /\ VarTypes
        /\ \A r \in Requests : pc[r] \in UsesOutcome => outcome[r] \in Terminal
        /\ \A p \in Finalizers : pc[p] \in UsesTarget => target[p] \in Requests
    BY ProcsAssumption DEF TypeOK, VarTypes, Holdings, Procs, Finalizers
  <2>1. ASSUME NEW r \in Requests, SendBegin(r) PROVE NotBegun'
    BY <2>0, <2>1
    DEF NotBegun, BeforeRow, Goto, At, SendBegin, db, daemon, counters, tallies
  <2>2. ASSUME NEW r \in Requests, SendCheckIntent(r) PROVE NotBegun'
    BY <2>0, <2>2
    DEF NotBegun, BeforeRow, Goto, At, SendCheckIntent, db, daemon, tallies, Fault
  <2>3. ASSUME NEW r \in Requests, SendUpdateModel(r) PROVE NotBegun'
    BY <2>0, <2>3
    DEF NotBegun, BeforeRow, Goto, At, SendUpdateModel, daemon, tallies, Write, Fault
  <2>4. ASSUME NEW r \in Requests, SendStageImages(r) PROVE NotBegun'
    BY <2>0, <2>4
    DEF NotBegun, BeforeRow, Goto, At, SendStageImages, daemon, locals, tallies, Write,
        Fault
  <2>5. ASSUME NEW r \in Requests, SendAcquire(r) PROVE NotBegun'
    BY <2>0, <2>5
    DEF NotBegun, BeforeRow, Goto, At, SendAcquire, db, locals, counters, tallies
  <2>6. ASSUME NEW r \in Requests, SendPutIntent(r) PROVE NotBegun'
    BY <2>0, <2>6
    DEF NotBegun, BeforeRow, Goto, At, SendPutIntent, daemon, locals, tallies, Write, Fault
  <2>7. ASSUME NEW r \in Requests, SendUserMessage(r) PROVE NotBegun'
    <3> DEFINE e == Event("user_message", r)
    <3>1. /\ e \in EventSet /\ Commit(r, e) /\ pc[r] = "user_message"
          /\ Goto(r, "create_run")
      BY <2>0, <2>7, EventFacts DEF SendUserMessage, At, UsesOutcome, UsesTarget, Terminal
    <3>2. \A q \in Requests : e = Event("run_started", q) => FALSE
      BY DEF Event, RunFinished
    <3> HIDE DEF e
    <3>3. QED
      BY <2>0, <3>1, <3>2, CommitStarts DEF NotBegun, BeforeRow, Goto
  <2>8. ASSUME NEW r \in Requests, SendCreateRun(r) PROVE NotBegun'
    BY <2>0, <2>8
    DEF NotBegun, BeforeRow, Goto, At, SendCreateRun, daemon, locals, tallies, Write, Fault
  <2>9. ASSUME NEW r \in Requests, SendRunStarted(r) PROVE NotBegun'
    <3> DEFINE e == Event("run_started", r)
    <3>1. /\ e \in EventSet /\ Commit(r, e) /\ pc[r] = "run_started"
          /\ Goto(r, "touch_running")
      BY <2>0, <2>9, EventFacts DEF SendRunStarted, At, UsesOutcome, UsesTarget, Terminal
    <3>2. \A q \in Requests : e = Event("run_started", q) => q = r
      BY DEF Event, RunFinished
    <3> HIDE DEF e
    <3>3. QED
      BY <2>0, <3>1, <3>2, CommitStarts DEF NotBegun, BeforeRow, Goto
  <2>10. ASSUME NEW r \in Requests, SendTouchRunning(r) PROVE NotBegun'
    BY <2>0, <2>10
    DEF NotBegun, BeforeRow, Goto, At, SendTouchRunning, daemon, locals, tallies, SetRecent,
        Write, Fault
  <2>11. ASSUME NEW r \in Requests, ProviderOutput(r) PROVE NotBegun'
    <3> DEFINE e == Event("output", r)
    <3>1. /\ e \in EventSet /\ Commit(r, e) /\ pc[r] = "provider"
          /\ pc' = pc
      BY <2>0, <2>11, EventFacts DEF ProviderOutput, At, UsesOutcome, UsesTarget, Terminal
    <3>2. \A q \in Requests : e = Event("run_started", q) => FALSE
      BY DEF Event, RunFinished
    <3> HIDE DEF e
    <3>3. QED
      BY <2>0, <3>1, <3>2, CommitStarts DEF NotBegun, BeforeRow, Goto
  <2>12. ASSUME NEW r \in Requests, ProviderSystem(r) PROVE NotBegun'
    BY <2>0, <2>12
    DEF NotBegun, BeforeRow, Goto, At, ProviderSystem, daemon, tallies, Write, Fault
  <2>13. ASSUME NEW r \in Requests, ProviderReturn(r) PROVE NotBegun'
    BY <2>0, <2>13
    DEF NotBegun, BeforeRow, Goto, At, ProviderReturn, db, daemon, counters, tallies
  <2>14. ASSUME NEW r \in Requests, FinalizeError(r) PROVE NotBegun'
    <3> DEFINE e == Event("error", r)
    <3>1. /\ e \in EventSet /\ Commit(r, e) /\ pc[r] = "error"
          /\ Goto(r, "run_finished")
      BY <2>0, <2>14, EventFacts DEF FinalizeError, At, UsesOutcome, UsesTarget, Terminal
    <3>2. \A q \in Requests : e = Event("run_started", q) => FALSE
      BY DEF Event, RunFinished
    <3> HIDE DEF e
    <3>3. QED
      BY <2>0, <3>1, <3>2, CommitStarts DEF NotBegun, BeforeRow, Goto
  <2>15. ASSUME NEW r \in Requests, FinalizeRunFinished(r) PROVE NotBegun'
    <3> DEFINE e == RunFinished(r, outcome[r])
    <3>1. /\ e \in EventSet /\ Commit(r, e) /\ pc[r] = "run_finished"
          /\ Goto(r, "finish_run")
      BY <2>0, <2>15, EventFacts DEF FinalizeRunFinished, At, UsesOutcome, UsesTarget, Terminal
    <3>2. \A q \in Requests : e = Event("run_started", q) => FALSE
      BY DEF Event, RunFinished
    <3> HIDE DEF e
    <3>3. QED
      BY <2>0, <3>1, <3>2, CommitStarts DEF NotBegun, BeforeRow, Goto
  <2>16. ASSUME NEW r \in Requests, FinalizeRow(r) PROVE NotBegun'
    BY <2>0, <2>16
    DEF NotBegun, BeforeRow, Goto, At, FinalizeRow, daemon, locals, tallies, FinishRun,
        Write, Fault
  <2>17. ASSUME NEW r \in Requests, FinalizeTouchRecent(r) PROVE NotBegun'
    BY <2>0, <2>17
    DEF NotBegun, BeforeRow, Goto, At, FinalizeTouchRecent, daemon, locals, tallies,
        SetRecent, Write, Fault
  <2>18. ASSUME NEW r \in Requests, FinalizeRelease(r) PROVE NotBegun'
    BY <2>0, <2>18
    DEF NotBegun, BeforeRow, Goto, At, FinalizeRelease, db, locals, counters, tallies
  <2>19. ASSUME NEW c \in Callers, InterruptRead(c) PROVE NotBegun'
    BY <2>0, <2>19
    DEF NotBegun, BeforeRow, Goto, At, InterruptRead, db, daemon, counters, tallies
  <2>20. ASSUME NEW c \in Callers, InterruptCancel(c) PROVE NotBegun'
    BY <2>0, <2>20
    DEF NotBegun, BeforeRow, Goto, At, InterruptCancel, db, locals, counters, tallies,
        AfterInterrupt
  <2>21. ASSUME NEW c \in Callers, DeleteUploads(c) PROVE NotBegun'
    BY <2>0, <2>21
    DEF NotBegun, BeforeRow, Goto, At, DeleteUploads, daemon, locals, counters, tallies
  <2>22. ASSUME NEW c \in Callers, DeleteRows(c) PROVE NotBegun'
    <3>1. (ledger' = <<>> \/ ledger' = ledger) /\ Goto(c, "ended")
      BY <2>22 DEF DeleteRows, Write
    <3>2. \A r \in Requests : ~Started(<<>>, r)
      BY DEF Started
    <3>3. QED
      BY <2>0, <3>1, <3>2 DEF NotBegun, Goto
  <2>23. ASSUME NEW p \in Finalizers, OrphanRead(p) PROVE NotBegun'
    BY <2>0, <2>23
    DEF NotBegun, BeforeRow, Goto, At, OrphanRead, db, daemon, tallies, Fault, AfterOrphan,
        AfterInterrupt
  <2>24. ASSUME NEW p \in Finalizers, OrphanFinished(p) PROVE NotBegun'
    <3> DEFINE e == RunFinished(target[p], "interrupted")
    <3>1. /\ e \in EventSet /\ Commit(p, e) /\ pc[p] = "orphan_finished"
          /\ Goto(p, "orphan_row")
      BY <2>0, <2>24, EventFacts DEF OrphanFinished, At, UsesOutcome, UsesTarget, Terminal
    <3>2. \A q \in Requests : e = Event("run_started", q) => FALSE
      BY DEF Event, RunFinished
    <3> HIDE DEF e
    <3>3. QED
      BY <2>0, <3>1, <3>2, CommitStarts DEF NotBegun, BeforeRow, Goto
  <2>25. ASSUME NEW p \in Finalizers, OrphanRow(p) PROVE NotBegun'
    BY <2>0, <2>25
    DEF NotBegun, BeforeRow, Goto, At, OrphanRow, daemon, locals, tallies, FinishRun, Write,
        Fault
  <2>26. ASSUME NEW p \in Finalizers, OrphanClear(p) PROVE NotBegun'
    BY <2>0, <2>26
    DEF NotBegun, BeforeRow, Goto, At, OrphanClear, daemon, locals, tallies, SetRecent,
        Write, Fault, AfterOrphan, AfterInterrupt
  <2>27. ASSUME BootStart PROVE NotBegun'
    BY <2>0, <2>27
    DEF NotBegun, BeforeRow, Goto, At, BootStart, db, daemon, locals
  <2>28. ASSUME BootListRows PROVE NotBegun'
    BY <2>0, <2>28
    DEF NotBegun, BeforeRow, Goto, At, BootListRows, db, daemon, tallies, Fault
  <2>29. ASSUME BootFinishRow PROVE NotBegun'
    BY <2>0, <2>29
    DEF NotBegun, BeforeRow, Goto, At, BootFinishRow, daemon, tallies, FinishRun, Write,
        Fault
  <2>30. ASSUME BootClearRow PROVE NotBegun'
    BY <2>0, <2>30
    DEF NotBegun, BeforeRow, Goto, At, BootClearRow, daemon, locals, tallies, SetRecent,
        Write, Fault
  <2>31. ASSUME BootListen PROVE NotBegun'
    BY <2>0, <2>31
    DEF NotBegun, BeforeRow, Goto, At, BootListen, db, locals, counters, tallies
  <2>32. ASSUME NEW p \in Procs, Bump(p) PROVE NotBegun'
    BY <2>0, <2>32
    DEF NotBegun, BeforeRow, Goto, At, Bump, daemon, locals, tallies, Write, Fault
  <2>33. ASSUME Crash PROVE NotBegun'
    BY <2>0, <2>33
    DEF NotBegun, BeforeRow, Goto, At, Crash, db, Die, Resting
  <2>34. ASSUME BootCrash PROVE NotBegun'
    BY <2>0, <2>34
    DEF NotBegun, BeforeRow, Goto, At, BootCrash, db, daemon, locals, Die, Resting
  <2>35. CASE UNCHANGED vars
    BY <2>35
    DEF NotBegun, BeforeRow, vars, db, daemon, locals, counters, tallies
  <2>36. QED
    <3>1. ASSUME NEW r \in Requests, Send(r) PROVE NotBegun'
      BY <3>1, <2>1, <2>2, <2>3, <2>4, <2>5, <2>6, <2>7, <2>8, <2>9, <2>10 DEF Send
    <3>2. ASSUME NEW r \in Requests, RunProvider(r) PROVE NotBegun'
      BY <3>2, <2>11, <2>12, <2>13, <2>14, <2>15, <2>16, <2>17, <2>18
      DEF RunProvider, Finalize
    <3>3. ASSUME NEW p \in Finalizers, FinalizeOrphan(p) PROVE NotBegun'
      BY <3>3, <2>23, <2>24, <2>25, <2>26 DEF FinalizeOrphan
    <3>4. ASSUME NEW c \in Callers, Interrupt(c) PROVE NotBegun'
      BY <3>4, <2>19, <2>20, <2>21, <2>22, <3>3 DEF Interrupt, Finalizers
    <3>5. ASSUME Reconcile PROVE NotBegun'
      BY <3>5, <2>27, <2>28, <2>29, <2>30, <2>31, <3>3 DEF Reconcile, Finalizers
    <3>6. QED
      BY <2>32, <2>33, <2>34, <2>35, <3>1, <3>2, <3>4, <3>5 DEF Next
<1>3. QED
  BY <1>1, <1>2, TypeCorrect, PTL DEF Spec

\* Every write succeeds and no daemon is started beside one that serves.
Undisturbed == faults = 0 /\ duplicates = 0

\* The state of SessionActivity that a state of SessionRuns stands for, and its steps.
Shown == DanglingRuns(ledger)
Begun == {r \in Requests : Started(ledger, r)}
ActivityStep == [Activity!Next]_<<Shown, Begun>>

\* A commit is no step of SessionActivity, unless its event is a boundary: a
\* run_started begins its run, and a run_finished settles the tail.
LEMMA CommitActivity ==
  ASSUME VarTypes, NEW p \in Procs, NEW r \in Requests, NEW e \in EventSet, Commit(p, e),
         faults' = 0,
         e.type = "run_started" =>
           /\ e = Event("run_started", r) /\ e.run = r /\ ~Started(ledger, r)
           /\ DanglingRuns(ledger) = {}
  PROVE  ActivityStep
<1>1. faults' > 0 => FALSE
  OBVIOUS
<1>2. ledger \in Seq(EventSet) /\ ledger' = Append(ledger, e)
  BY <1>1, CommitShows DEF VarTypes
<1>3. \A q : Started(ledger', q) <=> Started(ledger, q) \/ e = Event("run_started", q)
  <2>1. ASSUME NEW q
        PROVE  Started(Append(ledger, e), q) <=> Started(ledger, q) \/ e = Event("run_started", q)
    BY <1>2, StartedAppend
  <2>2. QED
    BY <1>2, <2>1
<1>4. CASE e.type = "run_started"
  <2>1. Shown = {} /\ Shown' = {r}
    BY <1>1, <1>4, CommitShows DEF Shown
  <2>2. r \notin Begun /\ Begun' = Begun \cup {r}
    <3>1. \A q : e = Event("run_started", q) <=> q = r
      BY <1>4 DEF Event
    <3>2. QED
      BY <1>3, <1>4, <3>1 DEF Begun
  <2>3. Activity!Begin(r)
    BY <2>1, <2>2 DEF Activity!Begin, Shown, Begun
  <2>4. QED
    BY <2>3 DEF ActivityStep, Activity!Next
<1>5. CASE e.type # "run_started"
  <2>1. Begun' = Begun
    <3>1. \A q : e # Event("run_started", q)
      BY <1>5 DEF Event
    <3>2. QED
      BY <1>3, <3>1 DEF Begun
  <2>2. CASE e.type = "run_finished"
    <3>1. Shown' = {}
      BY <1>1, <2>2, CommitShows DEF Shown
    <3>2. Shown # {} => Activity!Settle
      BY <2>1, <3>1 DEF Activity!Settle, Shown, Begun
    <3>3. QED
      BY <2>1, <3>1, <3>2 DEF ActivityStep, Activity!Next
  <2>3. CASE e.type \notin Boundary
    <3>1. Shown' = Shown
      BY <1>1, <2>3, CommitShows DEF Shown
    <3>2. QED
      BY <2>1, <3>1 DEF ActivityStep
  <2>4. QED
    BY <1>5, <2>2, <2>3 DEF Boundary
<1>6. QED
  BY <1>4, <1>5

\* A step that leaves the ledger alone is no step of SessionActivity.
LEMMA LedgerKept == ASSUME UNCHANGED ledger PROVE ActivityStep
  BY DEF ActivityStep, Shown, Begun

\* Whatever sends, interrupts, deletions and deaths do, in whichever order, clients are
\* shown a session that has one run after another and no run twice: SessionRuns
\* implements SessionActivity as long as writes succeed and one daemon is started.
THEOREM SessionShowsOneRun == Spec /\ []Undisturbed => ShowsOneRun
<1>1. Init => Activity!Init
  BY DanglingEmpty DEF Init, Activity!Init, Started
<1>2. TypeOK /\ OneOwner /\ LiveInv /\ NotBegun /\ [Next]_vars /\ Undisturbed /\ Undisturbed'
        => ActivityStep
  <2> SUFFICES ASSUME TypeOK, OneOwner, LiveInv, NotBegun, [Next]_vars,
                      Undisturbed, Undisturbed'
               PROVE  ActivityStep
    OBVIOUS
  <2>0. /\ VarTypes /\ faults = 0 /\ duplicates = 0 /\ faults' = 0
        /\ DanglingRuns(ledger) \subseteq Requests
        /\ Requests \subseteq Procs /\ Finalizers \subseteq Procs
        /\ \A r \in Requests : pc[r] \in UsesOutcome => outcome[r] \in Terminal
        /\ \A p \in Finalizers : pc[p] \in UsesTarget => target[p] \in Requests
    BY DEF TypeOK, VarTypes, Holdings, Procs, Finalizers, DanglingRuns, EventSet, Undisturbed
  <2>1. ASSUME NEW r \in Requests, SendBegin(r) PROVE ActivityStep
    BY <2>1, LedgerKept DEF SendBegin, db
  <2>2. ASSUME NEW r \in Requests, SendCheckIntent(r) PROVE ActivityStep
    BY <2>2, LedgerKept DEF SendCheckIntent, db
  <2>3. ASSUME NEW r \in Requests, SendUpdateModel(r) PROVE ActivityStep
    BY <2>3, LedgerKept DEF SendUpdateModel
  <2>4. ASSUME NEW r \in Requests, SendStageImages(r) PROVE ActivityStep
    BY <2>4, LedgerKept DEF SendStageImages
  <2>5. ASSUME NEW r \in Requests, SendAcquire(r) PROVE ActivityStep
    BY <2>5, LedgerKept DEF SendAcquire, db
  <2>6. ASSUME NEW r \in Requests, SendPutIntent(r) PROVE ActivityStep
    BY <2>6, LedgerKept DEF SendPutIntent
  <2>7. ASSUME NEW r \in Requests, SendUserMessage(r) PROVE ActivityStep
    <3> DEFINE e == Event("user_message", r)
    <3>1. e \in EventSet /\ e.type = "user_message" /\ Commit(r, e) /\ r \in Requests
      BY <2>0, <2>7, EventFacts DEF SendUserMessage, At, UsesOutcome, UsesTarget, Terminal
    <3> HIDE DEF e
    <3>2. QED
      BY <2>0, <3>1, CommitActivity
  <2>8. ASSUME NEW r \in Requests, SendCreateRun(r) PROVE ActivityStep
    BY <2>8, LedgerKept DEF SendCreateRun
  <2>9. ASSUME NEW r \in Requests, SendRunStarted(r) PROVE ActivityStep
    <3> DEFINE e == Event("run_started", r)
    <3>1. /\ e \in EventSet /\ e.type = "run_started" /\ e.run = r /\ Commit(r, e)
          /\ pc[r] = "run_started"
      BY <2>0, <2>9, EventFacts DEF SendRunStarted, At
    <3>2. DanglingRuns(ledger) = {}
      BY <2>0, <3>1, OnlyOwnRunShows DEF Owning, Settling
    <3>3. ~Started(ledger, r)
      BY <3>1 DEF NotBegun
    <3>4. QED
      BY <2>0, <3>1, <3>2, <3>3, CommitActivity
  <2>10. ASSUME NEW r \in Requests, SendTouchRunning(r) PROVE ActivityStep
    BY <2>10, LedgerKept DEF SendTouchRunning
  <2>11. ASSUME NEW r \in Requests, ProviderOutput(r) PROVE ActivityStep
    <3> DEFINE e == Event("output", r)
    <3>1. e \in EventSet /\ e.type = "output" /\ Commit(r, e) /\ r \in Requests
      BY <2>0, <2>11, EventFacts DEF ProviderOutput, At, UsesOutcome, UsesTarget, Terminal
    <3> HIDE DEF e
    <3>2. QED
      BY <2>0, <3>1, CommitActivity
  <2>12. ASSUME NEW r \in Requests, ProviderSystem(r) PROVE ActivityStep
    BY <2>12, LedgerKept DEF ProviderSystem
  <2>13. ASSUME NEW r \in Requests, ProviderReturn(r) PROVE ActivityStep
    BY <2>13, LedgerKept DEF ProviderReturn, db
  <2>14. ASSUME NEW r \in Requests, FinalizeError(r) PROVE ActivityStep
    <3> DEFINE e == Event("error", r)
    <3>1. e \in EventSet /\ e.type = "error" /\ Commit(r, e) /\ r \in Requests
      BY <2>0, <2>14, EventFacts DEF FinalizeError, At, UsesOutcome, UsesTarget, Terminal
    <3> HIDE DEF e
    <3>2. QED
      BY <2>0, <3>1, CommitActivity
  <2>15. ASSUME NEW r \in Requests, FinalizeRunFinished(r) PROVE ActivityStep
    <3> DEFINE e == RunFinished(r, outcome[r])
    <3>1. e \in EventSet /\ e.type = "run_finished" /\ Commit(r, e) /\ r \in Requests
      BY <2>0, <2>15, EventFacts DEF FinalizeRunFinished, At, UsesOutcome, UsesTarget, Terminal
    <3> HIDE DEF e
    <3>2. QED
      BY <2>0, <3>1, CommitActivity
  <2>16. ASSUME NEW r \in Requests, FinalizeRow(r) PROVE ActivityStep
    BY <2>16, LedgerKept DEF FinalizeRow
  <2>17. ASSUME NEW r \in Requests, FinalizeTouchRecent(r) PROVE ActivityStep
    BY <2>17, LedgerKept DEF FinalizeTouchRecent
  <2>18. ASSUME NEW r \in Requests, FinalizeRelease(r) PROVE ActivityStep
    BY <2>18, LedgerKept DEF FinalizeRelease, db
  <2>19. ASSUME NEW c \in Callers, InterruptRead(c) PROVE ActivityStep
    BY <2>19, LedgerKept DEF InterruptRead, db
  <2>20. ASSUME NEW c \in Callers, InterruptCancel(c) PROVE ActivityStep
    BY <2>20, LedgerKept DEF InterruptCancel, db
  <2>21. ASSUME NEW c \in Callers, DeleteUploads(c) PROVE ActivityStep
    BY <2>21, LedgerKept DEF DeleteUploads
  <2>22. ASSUME NEW c \in Callers, DeleteRows(c) PROVE ActivityStep
    <3>1. ledger' = <<>> \/ ledger' = ledger
      BY <2>22 DEF DeleteRows, Write
    <3>2. ASSUME ledger' = <<>> PROVE ActivityStep
      <4>1. Shown' = {} /\ Begun' = {}
        BY <3>2, DanglingEmpty DEF Shown, Begun, Started
      <4>2. QED
        BY <4>1 DEF ActivityStep, Activity!Next, Activity!Forget, Shown, Begun
    <3>3. QED
      BY <3>1, <3>2, LedgerKept
  <2>23. ASSUME NEW p \in Finalizers, OrphanRead(p) PROVE ActivityStep
    BY <2>23, LedgerKept DEF OrphanRead, db
  <2>24. ASSUME NEW p \in Finalizers, OrphanFinished(p) PROVE ActivityStep
    <3> DEFINE e == RunFinished(target[p], "interrupted")
    <3>1. e \in EventSet /\ e.type = "run_finished" /\ Commit(p, e) /\ target[p] \in Requests
      BY <2>0, <2>24, EventFacts DEF OrphanFinished, At, UsesOutcome, UsesTarget, Terminal
    <3> HIDE DEF e
    <3>2. QED
      BY <2>0, <3>1, CommitActivity
  <2>25. ASSUME NEW p \in Finalizers, OrphanRow(p) PROVE ActivityStep
    BY <2>25, LedgerKept DEF OrphanRow
  <2>26. ASSUME NEW p \in Finalizers, OrphanClear(p) PROVE ActivityStep
    BY <2>26, LedgerKept DEF OrphanClear
  <2>27. ASSUME BootStart PROVE ActivityStep
    BY <2>27, LedgerKept DEF BootStart, db
  <2>28. ASSUME BootListRows PROVE ActivityStep
    BY <2>28, LedgerKept DEF BootListRows, db
  <2>29. ASSUME BootFinishRow PROVE ActivityStep
    BY <2>29, LedgerKept DEF BootFinishRow
  <2>30. ASSUME BootClearRow PROVE ActivityStep
    BY <2>30, LedgerKept DEF BootClearRow
  <2>31. ASSUME BootListen PROVE ActivityStep
    BY <2>31, LedgerKept DEF BootListen, db
  <2>32. ASSUME NEW p \in Procs, Bump(p) PROVE ActivityStep
    BY <2>32, LedgerKept DEF Bump
  <2>33. ASSUME Crash PROVE ActivityStep
    BY <2>33, LedgerKept DEF Crash, db
  <2>34. ASSUME BootCrash PROVE ActivityStep
    BY <2>34, LedgerKept DEF BootCrash, db
  <2>35. CASE UNCHANGED vars
    BY <2>35, LedgerKept DEF vars, db
  <2>36. QED
    <3>1. ASSUME NEW r \in Requests, Send(r) PROVE ActivityStep
      BY <3>1, <2>1, <2>2, <2>3, <2>4, <2>5, <2>6, <2>7, <2>8, <2>9, <2>10 DEF Send
    <3>2. ASSUME NEW r \in Requests, RunProvider(r) PROVE ActivityStep
      BY <3>2, <2>11, <2>12, <2>13, <2>14, <2>15, <2>16, <2>17, <2>18
      DEF RunProvider, Finalize
    <3>3. ASSUME NEW p \in Finalizers, FinalizeOrphan(p) PROVE ActivityStep
      BY <3>3, <2>23, <2>24, <2>25, <2>26 DEF FinalizeOrphan
    <3>4. ASSUME NEW c \in Callers, Interrupt(c) PROVE ActivityStep
      BY <3>4, <2>19, <2>20, <2>21, <2>22, <3>3 DEF Interrupt, Finalizers
    <3>5. ASSUME Reconcile PROVE ActivityStep
      BY <3>5, <2>27, <2>28, <2>29, <2>30, <2>31, <3>3 DEF Reconcile, Finalizers
    <3>6. QED
      BY <2>32, <2>33, <2>34, <2>35, <3>1, <3>2, <3>4, <3>5 DEF Next
<1>3. QED
  BY <1>1, <1>2, TypeCorrect, OneOwnerHolds, LiveInvHolds, NotBegunHolds, PTL
  DEF Spec, ShowsOneRun, Activity!Spec, ActivityStep, Shown, Begun
=============================================================================
