---------------------------- MODULE SessionRuns ----------------------------
(***************************************************************************)
(* The run lifecycle of one session (internal/session/service.go over      *)
(* internal/store): Send, the goroutine runProvider, Interrupt,            *)
(* DeleteSession, the startup pass ReconcileStuckRuns, and the crash of    *)
(* the daemon between any two of their steps.                              *)
(*                                                                         *)
(* One step is one database call (the store has one connection, so calls   *)
(* are serialized), one critical section of Service.mu, or one call into   *)
(* the provider.  Sessions share nothing but the mutex, so one is enough.  *)
(***************************************************************************)
EXTENDS Ledger, FiniteSets

CONSTANTS
  Requests,      \* calls of Send; the run a call starts is named by the call
  Callers,       \* calls of Interrupt and of DeleteSession
  Deleters,      \* those of Callers that are calls of DeleteSession
  IntentOf,      \* the clientIntentId of each request, None if it has none
  Override,      \* the model and effort a request sends, None to keep
  Attaching,     \* the requests that carry images
  Boot,          \* the process that starts: ReconcileStuckRuns, then Listen
  None,
  MaxOutputs,    \* bound: transcript events per run
  MaxCrashes,    \* bound: deaths of a daemon process
  MaxFaults,     \* bound: failed writes
  MaxDuplicates  \* bound: `serve` started while a daemon already serves

Intents == {IntentOf[r] : r \in Requests} \ {None}
Procs == Requests \cup Callers \cup {Boot}
Finalizers == Callers \cup {Boot}

ASSUME ProcsAssumption ==
  /\ Deleters \subseteq Callers /\ Attaching \subseteq Requests
  /\ Requests \cap Callers = {} /\ Boot \notin Requests \cup Callers
  /\ None \notin Procs
ASSUME BoundsAssumption ==
  {MaxOutputs, MaxCrashes, MaxFaults, MaxDuplicates} \subseteq Nat

VARIABLES
  \* the database
  sess,      \* the sessions row, None once deleted
  ledger,    \* the events rows
  runs,      \* the runs rows, by run
  recent,    \* the recent_sessions row, None once deleted
  intents,   \* the intents rows: the run of each intent
  uploads,   \* the requests whose images are staged on disk
  \* the daemon
  up,        \* a daemon listens and serves requests
  active,    \* Service.active[session]: the run whose cancel it holds
  cancelled, \* the runs whose context is cancelled
  pc,        \* where each process is
  pend,      \* the seq a process has appended but not yet projected and broadcast
  seen,      \* the session row as a request read (and then edited) it
  target,    \* the run a process holds: to reply, to cancel or to finalize
  todo,      \* the rows a starting process still has to finish
  outcome,   \* how the provider returned
  \* bounds and history
  outputs, crashes, faults, duplicates

db == <<sess, ledger, runs, recent, intents, uploads>>
daemon == <<up, active, cancelled>>
locals == <<seen, target, todo, outcome>>
tallies == <<outputs, crashes, duplicates>>
counters == <<tallies, faults>>
vars == <<db, daemon, pc, pend, locals, counters>>

Terminal == {"done", "interrupted", "failed"}

\* A request between taking Service.active and giving it back.
Owning == {"put_intent", "user_message", "create_run", "run_started", "touch_running",
           "provider", "error", "run_finished", "finish_run", "touch_idle", "release"}
\* What a crash does not interrupt.
Resting == {"idle", "ended", "lost", "refused", "not_found", "replied", "busy"}

Init ==
  /\ sess = [native |-> None, model |-> None, effort |-> None]
  /\ ledger = <<>>
  /\ runs = [r \in Requests |-> "absent"]
  /\ recent = [lastSeq |-> 0, activeRun |-> None, lastState |-> "none"]
  /\ intents = [i \in Intents |-> None]
  /\ uploads = {}
  /\ up = TRUE /\ active = None /\ cancelled = {}
  /\ pc = [p \in Procs |-> "idle"]
  /\ pend = [p \in Procs |-> 0]
  /\ seen = [r \in Requests |-> None]
  /\ target = [p \in Procs |-> None]
  /\ todo = {}
  /\ outcome = [r \in Requests |-> "none"]
  /\ outputs = [r \in Requests |-> 0]
  /\ crashes = 0 /\ faults = 0 /\ duplicates = 0

----------------------------------------------------------------------------
(* Shared steps *)

At(p, l) == pc[p] = l /\ pend[p] = 0
Goto(p, l) == pc' = [pc EXCEPT ![p] = l]

\* A write that fails: the code logs the error and goes on.
Fault == faults < MaxFaults /\ faults' = faults + 1

\* One database write: it sets the rows it names, or fails and leaves them.
Write(done, rows) == (done /\ UNCHANGED faults) \/ (Fault /\ UNCHANGED rows)

\* First half of commit: AppendEvent.
Commit(p, e) ==
  Write(ledger' = Append(ledger, e) /\ pend' = [pend EXCEPT ![p] = Len(ledger) + 1],
        <<ledger, pend>>)

\* Mutant: the projection takes the seq at hand instead of MAX.
BumpPlain(p) ==
  /\ pend[p] # 0
  /\ pend' = [pend EXCEPT ![p] = 0]
  /\ Write(recent' = IF recent = None THEN recent ELSE [recent EXCEPT !.lastSeq = pend[p]],
           recent)
  /\ UNCHANGED <<sess, ledger, runs, intents, uploads, daemon, pc, locals, tallies>>

\* Second half of commit: BumpRecentSeq, then the broadcast (EventStream has
\* what a broadcast does).  A failed AppendEvent skips both.
Bump(p) ==
  /\ pend[p] # 0
  /\ pend' = [pend EXCEPT ![p] = 0]
  /\ Write(recent' = IF recent = None \/ recent.lastSeq > pend[p] THEN recent
                     ELSE [recent EXCEPT !.lastSeq = pend[p]], recent)
  /\ UNCHANGED <<sess, ledger, runs, intents, uploads, daemon, pc, locals, tallies>>

\* UPDATE runs SET state WHERE id: no row, no effect.
FinishRun(r, s) ==
  Write(runs' = IF runs[r] = "absent" THEN runs ELSE [runs EXCEPT ![r] = s], runs)

\* UPDATE recent_sessions SET active_run_id, last_run_state.
SetRecent(run, s) ==
  Write(recent' = IF recent = None THEN None
                  ELSE [recent EXCEPT !.activeRun = run, !.lastState = s], recent)

----------------------------------------------------------------------------
(* Send, as the handler of request r runs it *)

\* The shell-environment gate, then GetSession.
SendBegin(r) ==
  /\ up /\ At(r, "idle")
  /\ \/ Goto(r, "refused") /\ UNCHANGED seen
     \/ sess = None /\ Goto(r, "not_found") /\ UNCHANGED seen
     \/ /\ sess # None
        /\ seen' = [seen EXCEPT ![r] = sess]
        /\ Goto(r, "intent")
  /\ UNCHANGED <<db, daemon, pend, target, todo, outcome, counters>>

\* A query that fails counts as an intent that is not there.
SendCheckIntent(r) ==
  /\ At(r, "intent")
  /\ \/ /\ IF IntentOf[r] # None /\ intents[IntentOf[r]] # None
             THEN target' = [target EXCEPT ![r] = intents[IntentOf[r]]] /\ Goto(r, "replied")
             ELSE UNCHANGED target /\ Goto(r, "model")
        /\ UNCHANGED faults
     \/ IntentOf[r] # None /\ Fault /\ UNCHANGED target /\ Goto(r, "model")
  /\ UNCHANGED <<db, daemon, pend, seen, todo, outcome, tallies>>

\* Overrides are applied to the copy read at the start, and the copy's model
\* and effort are written back whole.
Overridden(r) ==
  LET o == Override[r]
  IN  [seen[r] EXCEPT !.model = IF o.model = None THEN @ ELSE o.model,
                      !.effort = IF o.effort = None THEN @ ELSE o.effort]

SendUpdateModel(r) ==
  /\ At(r, "model")
  /\ seen' = [seen EXCEPT ![r] = Overridden(r)]
  /\ IF Override[r] = [model |-> None, effort |-> None]
     THEN UNCHANGED <<sess, faults>>
     ELSE Write(sess' = IF sess = None THEN None
                        ELSE [sess EXCEPT !.model = Overridden(r).model,
                                          !.effort = Overridden(r).effort], sess)
  /\ Goto(r, "stage")
  /\ UNCHANGED <<ledger, runs, recent, intents, uploads, daemon, pend, target, todo,
                 outcome, tallies>>

\* Best effort: a file that cannot be written is dropped from the message.
SendStageImages(r) ==
  /\ At(r, "stage")
  /\ IF r \in Attaching THEN Write(uploads' = uploads \cup {r}, uploads)
                        ELSE UNCHANGED <<uploads, faults>>
  /\ Goto(r, "lock")
  /\ UNCHANGED <<sess, ledger, runs, recent, intents, daemon, pend, locals, tallies>>

\* Mutant: the map is overwritten without looking.
SendAcquireAlways(r) ==
  /\ At(r, "lock")
  /\ Goto(r, "put_intent") /\ active' = r
  /\ UNCHANGED <<db, up, cancelled, pend, locals, counters>>

SendAcquire(r) ==
  /\ At(r, "lock")
  /\ IF active # None THEN Goto(r, "busy") /\ UNCHANGED active
                      ELSE Goto(r, "put_intent") /\ active' = r
  /\ UNCHANGED <<db, up, cancelled, pend, locals, counters>>

\* INSERT OR IGNORE: the first run of an intent keeps it.
SendPutIntent(r) ==
  /\ At(r, "put_intent")
  /\ IF IntentOf[r] = None THEN UNCHANGED <<intents, faults>>
     ELSE Write(intents' = [intents EXCEPT ![IntentOf[r]] = IF @ = None THEN r ELSE @],
                intents)
  /\ Goto(r, "user_message")
  /\ UNCHANGED <<sess, ledger, runs, recent, uploads, daemon, pend, locals, tallies>>

SendUserMessage(r) ==
  /\ At(r, "user_message")
  /\ Commit(r, Event("user_message", r))
  /\ Goto(r, "create_run")
  /\ UNCHANGED <<sess, runs, recent, intents, uploads, daemon, locals, tallies>>

SendCreateRun(r) ==
  /\ At(r, "create_run")
  /\ Write(runs' = [runs EXCEPT ![r] = "running"], runs)
  /\ Goto(r, "run_started")
  /\ UNCHANGED <<sess, ledger, recent, intents, uploads, daemon, pend, locals,
                 tallies>>

SendRunStarted(r) ==
  /\ At(r, "run_started")
  /\ Commit(r, Event("run_started", r))
  /\ Goto(r, "touch_running")
  /\ UNCHANGED <<sess, runs, recent, intents, uploads, daemon, locals, tallies>>

\* touchRecent, then the run goroutine starts and Send returns 202.
SendTouchRunning(r) ==
  /\ At(r, "touch_running")
  /\ SetRecent(r, "running")
  /\ Goto(r, "provider")
  /\ UNCHANGED <<sess, ledger, runs, intents, uploads, daemon, pend, locals, tallies>>

----------------------------------------------------------------------------
(* runProvider, the goroutine of run r *)

\* A committed provider event (deltas leave no trace here).
ProviderOutput(r) ==
  /\ At(r, "provider")
  /\ outputs[r] < MaxOutputs
  /\ outputs' = [outputs EXCEPT ![r] = @ + 1]
  /\ Commit(r, Event("output", r))
  /\ UNCHANGED <<sess, runs, recent, intents, uploads, daemon, pc, locals, crashes,
                 duplicates>>

\* The provider names its conversation: the one it resumes, or a new one, named
\* here after the run.  It is stored only if the copy of the row had none.
ProviderSystem(r) ==
  /\ At(r, "provider")
  /\ seen[r].native = None
  /\ seen' = [seen EXCEPT ![r].native = r]
  /\ Write(sess' = IF sess = None THEN None ELSE [sess EXCEPT !.native = r], sess)
  /\ UNCHANGED <<ledger, runs, recent, intents, uploads, daemon, pc, pend, target,
                 todo, outcome, tallies>>

\* Mutants: the map's entry goes before the run is settled; a cancelled provider hangs.
ProviderReturnReleases(r) ==
  /\ At(r, "provider")
  /\ outcome' = [outcome EXCEPT ![r] = "done"] /\ active' = None
  /\ Goto(r, "run_finished")
  /\ UNCHANGED <<db, up, cancelled, pend, seen, target, todo, counters>>
ProviderReturnHangs(r) ==
  /\ At(r, "provider") /\ r \notin cancelled
  /\ outcome' = [outcome EXCEPT ![r] = "done"]
  /\ Goto(r, "run_finished")
  /\ UNCHANGED <<db, daemon, pend, seen, target, todo, counters>>

\* Run returns, or panics, which the finalizer turns into a failure.  The last
\* thing Run looks at is its context: a cancelled one makes it an interruption.
ProviderReturn(r) ==
  /\ At(r, "provider")
  /\ \E o \in Terminal :
       /\ o # "failed" => (o = "interrupted" <=> r \in cancelled)
       /\ outcome' = [outcome EXCEPT ![r] = o]
       /\ Goto(r, IF o = "failed" THEN "error" ELSE "run_finished")
  /\ UNCHANGED <<db, daemon, pend, seen, target, todo, counters>>

FinalizeError(r) ==
  /\ At(r, "error")
  /\ Commit(r, Event("error", r))
  /\ Goto(r, "run_finished")
  /\ UNCHANGED <<sess, runs, recent, intents, uploads, daemon, locals, tallies>>

\* Mutant: a failed append ends the finalizer.
FinalizeRunFinishedOrStop(r) ==
  /\ At(r, "run_finished")
  /\ Commit(r, RunFinished(r, outcome[r]))
  /\ Goto(r, IF faults' = faults THEN "finish_run" ELSE "ended")
  /\ UNCHANGED <<sess, runs, recent, intents, uploads, daemon, locals, tallies>>

FinalizeRunFinished(r) ==
  /\ At(r, "run_finished")
  /\ Commit(r, RunFinished(r, outcome[r]))
  /\ Goto(r, "finish_run")
  /\ UNCHANGED <<sess, runs, recent, intents, uploads, daemon, locals, tallies>>

FinalizeRow(r) ==
  /\ At(r, "finish_run")
  /\ FinishRun(r, outcome[r])
  /\ Goto(r, "touch_idle")
  /\ UNCHANGED <<sess, ledger, recent, intents, uploads, daemon, pend, locals,
                 tallies>>

\* Mutant: the list keeps naming the run that ended.
FinalizeTouchRecentKeeps(r) ==
  /\ At(r, "touch_idle")
  /\ SetRecent(r, outcome[r])
  /\ Goto(r, "release")
  /\ UNCHANGED <<sess, ledger, runs, intents, uploads, daemon, pend, locals, tallies>>

FinalizeTouchRecent(r) ==
  /\ At(r, "touch_idle")
  /\ SetRecent(None, outcome[r])
  /\ Goto(r, "release")
  /\ UNCHANGED <<sess, ledger, runs, intents, uploads, daemon, pend, locals, tallies>>

\* delete(s.active, session), then cancel().
FinalizeRelease(r) ==
  /\ At(r, "release")
  /\ active' = None
  /\ cancelled' = cancelled \cup {r}
  /\ Goto(r, "ended")
  /\ UNCHANGED <<db, up, pend, locals, counters>>

----------------------------------------------------------------------------
(* Interrupt and DeleteSession, as call c runs them *)

AfterInterrupt(c) == IF c \in Deleters THEN "remove_uploads" ELSE "ended"
AfterOrphan(p) == IF p = Boot THEN "running_rows" ELSE AfterInterrupt(p)

InterruptRead(c) ==
  /\ up /\ At(c, "idle")
  /\ target' = [target EXCEPT ![c] = active]
  /\ Goto(c, IF active # None THEN "cancel" ELSE "dangling")
  /\ UNCHANGED <<db, daemon, pend, seen, todo, outcome, counters>>

\* cancel() runs after the mutex is released.
InterruptCancel(c) ==
  /\ At(c, "cancel")
  /\ cancelled' = cancelled \cup {target[c]}
  /\ Goto(c, AfterInterrupt(c))
  /\ UNCHANGED <<db, up, active, pend, locals, counters>>

\* finalizeOrphanRun and each turn of ReconcileStuckRuns' first loop: read the
\* dangling run (a query that fails finds none), commit its run_finished,
\* FinishRun, ClearActiveRun.
OrphanRead(p) ==
  /\ At(p, "dangling")
  /\ \/ /\ (DanglingRuns(ledger) = {} /\ UNCHANGED faults) \/ Fault
        /\ Goto(p, AfterOrphan(p)) /\ UNCHANGED target
     \/ \E r \in DanglingRuns(ledger) :
          /\ target' = [target EXCEPT ![p] = r] /\ UNCHANGED faults
          /\ Goto(p, "orphan_finished")
  /\ UNCHANGED <<db, daemon, pend, seen, todo, outcome, tallies>>

OrphanFinished(p) ==
  /\ At(p, "orphan_finished")
  /\ Commit(p, RunFinished(target[p], "interrupted"))
  /\ Goto(p, "orphan_row")
  /\ UNCHANGED <<sess, runs, recent, intents, uploads, daemon, locals, tallies>>

OrphanRow(p) ==
  /\ At(p, "orphan_row")
  /\ FinishRun(target[p], "interrupted")
  /\ Goto(p, "orphan_clear")
  /\ UNCHANGED <<sess, ledger, recent, intents, uploads, daemon, pend, locals,
                 tallies>>

OrphanClear(p) ==
  /\ At(p, "orphan_clear")
  /\ SetRecent(None, "interrupted")
  /\ Goto(p, AfterOrphan(p))
  /\ UNCHANGED <<sess, ledger, runs, intents, uploads, daemon, pend, locals, tallies>>

DeleteUploads(c) ==
  /\ At(c, "remove_uploads")
  /\ uploads' = {}
  /\ Goto(c, "delete_rows")
  /\ UNCHANGED <<sess, ledger, runs, recent, intents, daemon, pend, locals, counters>>

\* One transaction over four tables; intents is not one of them.
DeleteRows(c) ==
  /\ At(c, "delete_rows")
  /\ Write(/\ sess' = None /\ recent' = None /\ ledger' = <<>>
           /\ runs' = [r \in Requests |-> "absent"],
           <<sess, ledger, runs, recent>>)
  /\ Goto(c, "ended")
  /\ UNCHANGED <<intents, uploads, daemon, pend, locals, tallies>>

----------------------------------------------------------------------------
(* The process: start, ReconcileStuckRuns, Listen, death *)

\* Mutant: reconciliation without its first pass.
BootStartRowsOnly ==
  /\ At(Boot, "idle")
  /\ IF up THEN duplicates < MaxDuplicates /\ duplicates' = duplicates + 1
           ELSE UNCHANGED duplicates
  /\ Goto(Boot, "running_rows")
  /\ UNCHANGED <<db, daemon, pend, locals, outputs, crashes, faults>>

\* `serve` starts: after a death, or beside a daemon that already serves.
BootStart ==
  /\ At(Boot, "idle")
  /\ IF up THEN duplicates < MaxDuplicates /\ duplicates' = duplicates + 1
           ELSE UNCHANGED duplicates
  /\ Goto(Boot, "dangling")
  /\ UNCHANGED <<db, daemon, pend, locals, outputs, crashes, faults>>

\* Mutant: reconciliation without its second pass.
BootListRowsNone ==
  /\ At(Boot, "running_rows")
  /\ todo' = {}
  /\ Goto(Boot, "finish_row")
  /\ UNCHANGED <<db, daemon, pend, seen, target, outcome, counters>>

\* The second loop of ReconcileStuckRuns: RunningRuns lists the rows, each is
\* finished and its session's projection cleared.
BootListRows ==
  /\ At(Boot, "running_rows")
  /\ \/ todo' = {r \in Requests : runs[r] = "running"} /\ UNCHANGED faults
     \/ todo' = {} /\ Fault
  /\ Goto(Boot, "finish_row")
  /\ UNCHANGED <<db, daemon, pend, seen, target, outcome, tallies>>

\* Mutant: the second pass announces the end, too.
BootFinishRowSays ==
  /\ At(Boot, "finish_row")
  /\ \E r \in todo :
       /\ FinishRun(r, "interrupted") /\ todo' = todo \ {r}
       /\ ledger' = Append(ledger, RunFinished(r, "interrupted"))
  /\ Goto(Boot, "clear_row")
  /\ UNCHANGED <<sess, recent, intents, uploads, daemon, pend, seen, target, outcome,
                 tallies>>

BootFinishRow ==
  /\ At(Boot, "finish_row")
  /\ \E r \in todo : FinishRun(r, "interrupted") /\ todo' = todo \ {r}
  /\ Goto(Boot, "clear_row")
  /\ UNCHANGED <<sess, ledger, recent, intents, uploads, daemon, pend, seen, target,
                 outcome, tallies>>

BootClearRow ==
  /\ At(Boot, "clear_row")
  /\ SetRecent(None, "interrupted")
  /\ Goto(Boot, "finish_row")
  /\ UNCHANGED <<sess, ledger, runs, intents, uploads, daemon, pend, locals, tallies>>

\* Mutant: a starting process clears the map of the one that serves.
BootListenResets ==
  /\ At(Boot, "finish_row") /\ todo = {}
  /\ up' = TRUE /\ active' = None
  /\ Goto(Boot, "idle")
  /\ UNCHANGED <<db, cancelled, pend, locals, counters>>

\* Listen: the port is free, or another daemon holds it and the process exits.
BootListen ==
  /\ At(Boot, "finish_row") /\ todo = {}
  /\ up' = TRUE
  /\ Goto(Boot, "idle")
  /\ UNCHANGED <<db, active, cancelled, pend, locals, counters>>

\* The serving process dies: what it held in memory is gone, with the calls in
\* flight.  Calls that have not begun may reach the next daemon.
Die(procs) ==
  /\ crashes < MaxCrashes
  /\ crashes' = crashes + 1
  /\ pc' = [p \in Procs |-> IF p \notin procs \/ pc[p] \in Resting THEN pc[p]
                            ELSE IF p = Boot THEN "idle" ELSE "lost"]
  /\ pend' = [p \in Procs |-> IF p \in procs THEN 0 ELSE pend[p]]

Crash ==
  /\ up
  /\ Die(Requests \cup Callers)
  /\ up' = FALSE /\ active' = None /\ cancelled' = {}
  /\ seen' = [r \in Requests |-> None]
  /\ outcome' = [r \in Requests |-> "none"]
  /\ UNCHANGED <<db, target, todo, outputs, duplicates, faults>>

BootCrash ==
  /\ pc[Boot] # "idle"
  /\ Die({Boot})
  /\ UNCHANGED <<db, daemon, locals, outputs, duplicates, faults>>

----------------------------------------------------------------------------
Send(r) ==
  \/ SendBegin(r) \/ SendCheckIntent(r) \/ SendUpdateModel(r) \/ SendStageImages(r)
  \/ SendAcquire(r) \/ SendPutIntent(r) \/ SendUserMessage(r) \/ SendCreateRun(r)
  \/ SendRunStarted(r) \/ SendTouchRunning(r)

Finalize(r) ==
  \/ FinalizeError(r) \/ FinalizeRunFinished(r) \/ FinalizeRow(r)
  \/ FinalizeTouchRecent(r) \/ FinalizeRelease(r)

RunProvider(r) ==
  ProviderOutput(r) \/ ProviderSystem(r) \/ ProviderReturn(r) \/ Finalize(r)

FinalizeOrphan(p) == OrphanRead(p) \/ OrphanFinished(p) \/ OrphanRow(p) \/ OrphanClear(p)

Interrupt(c) ==
  \/ InterruptRead(c) \/ InterruptCancel(c) \/ FinalizeOrphan(c)
  \/ DeleteUploads(c) \/ DeleteRows(c)

Reconcile ==
  \/ BootStart \/ FinalizeOrphan(Boot) \/ BootListRows \/ BootFinishRow
  \/ BootClearRow \/ BootListen

Next ==
  \/ \E p \in Procs : Bump(p)
  \/ \E r \in Requests : Send(r) \/ RunProvider(r)
  \/ \E c \in Callers : Interrupt(c)
  \/ Reconcile \/ Crash \/ BootCrash

Spec == Init /\ [][Next]_vars

\* The scheduler runs every goroutine: one that is under way takes its next step.
\* claude may work forever, but a cancelled one returns: its process group is killed
\* and the backstop closes its output.
RequestGoesOn(r) ==
  \/ Bump(r) \/ (pc[r] # "idle" /\ Send(r)) \/ Finalize(r)
  \/ (r \in cancelled /\ ProviderReturn(r))
CallGoesOn(c) == Bump(c) \/ (pc[c] # "idle" /\ Interrupt(c))
\* A daemon that died is started again.
BootGoesOn == Bump(Boot) \/ ((up => pc[Boot] # "idle") /\ Reconcile)

Fairness ==
  /\ \A r \in Requests : WF_vars(RequestGoesOn(r))
  /\ \A c \in Callers : WF_vars(CallGoesOn(c))
  /\ WF_vars(BootGoesOn)

FairSpec == Spec /\ Fairness

----------------------------------------------------------------------------
Labels == Owning \cup Resting \cup
  {"intent", "model", "stage", "lock", "cancel", "dangling", "orphan_finished",
   "orphan_row", "orphan_clear", "remove_uploads", "delete_rows", "running_rows",
   "finish_row", "clear_row"}
RunStates == {"absent", "running"} \cup Terminal
EventSet ==
  [type : {"user_message", "run_started", "output", "error"}, run : Requests,
   state : {"none"}]
  \cup [type : {"run_finished"}, run : Requests, state : Terminal]

SessionRow ==
  [native : Requests \cup {None},
   model : {Override[r].model : r \in Requests} \cup {None},
   effort : {Override[r].effort : r \in Requests} \cup {None}]
RecentRow ==
  [lastSeq : Nat, activeRun : Requests \cup {None}, lastState : RunStates \cup {"none"}]

VarTypes ==
  /\ sess \in SessionRow \cup {None}
  /\ ledger \in Seq(EventSet)
  /\ runs \in [Requests -> RunStates]
  /\ recent \in RecentRow \cup {None}
  /\ intents \in [Intents -> Requests \cup {None}]
  /\ uploads \subseteq Requests
  /\ up \in BOOLEAN
  /\ active \in Requests \cup {None}
  /\ cancelled \subseteq Requests
  /\ pc \in [Procs -> Labels]
  /\ pend \in [Procs -> Nat]
  /\ seen \in [Requests -> SessionRow \cup {None}]
  /\ target \in [Procs -> Requests \cup {None}]
  /\ todo \subseteq Requests
  /\ outcome \in [Requests -> Terminal \cup {"none"}]
  /\ outputs \in [Requests -> Nat]
  /\ crashes \in Nat /\ faults \in Nat /\ duplicates \in Nat

\* A process that is about to use what it holds (its copy of the row, an outcome
\* to record, a run to reply, cancel or finalize) has it.
UsesSeen == Owning \cup {"intent", "model", "stage", "lock"}
UsesOutcome == {"error", "run_finished", "finish_run", "touch_idle"}
UsesTarget == {"replied", "cancel", "orphan_finished", "orphan_row"}
Holdings ==
  /\ \A r \in Requests :
       /\ pc[r] \in UsesSeen => seen[r] \in SessionRow
       /\ pc[r] \in UsesOutcome => outcome[r] \in Terminal
  /\ \A p \in Procs : pc[p] \in UsesTarget => target[p] \in Requests

\* Every variable keeps its type, and every process has what it needs.
TypeOK == VarTypes /\ Holdings

\* A session has one run at a time, and is busy exactly while it has: whoever is
\* between taking Service.active and giving it back is the run whose cancel the map
\* holds, and the map holds no other, through every interleaving of sends, interrupts,
\* deletions, failed writes and deaths.
OneOwner == \A r \in Requests : pc[r] \in Owning <=> active = r

\* A session never shows a run as running that nobody is running: once a daemon
\* serves, the run_started at the ledger's tail belongs to the live run, because
\* reconciliation settled what a dead process left (ReconcileStuckRuns' first
\* pass) and a run gives the session back only after its run_finished.
DanglingRunIsLive ==
  (up /\ faults = 0 /\ duplicates = 0) => \A r \in DanglingRuns(ledger) : active = r

\* The same for the runs table, which the second pass of reconciliation settles:
\* a row that says running is the live run's.
RunningRowIsLive ==
  (up /\ faults = 0 /\ duplicates = 0) =>
    \A r \in Requests : runs[r] = "running" => active = r

\* Runs are sequential in the ledger, which render.Compute relies on to decide
\* which tools a boundary closes: after a run_started nothing of another run
\* appears before its run_finished, also across a crash and its reconciliation.
\* (Checked without interrupts: OnlyOrphansFinalized is how those break it.)
RunsDoNotInterleave ==
  (faults = 0 /\ duplicates = 0) =>
    \A i, j \in DOMAIN ledger :
      (i < j /\ ledger[i].type = "run_started" /\ ledger[j].run # ledger[i].run) =>
        \E k \in i..j : ledger[k].type = "run_finished" /\ ledger[k].run = ledger[i].run

\* The projection's tail is exact whenever nobody is inside commit: concurrent
\* commits may project in either order, and MAX keeps the later.
LastSeqExact ==
  (recent # None /\ faults = 0 /\ crashes = 0 /\ \A p \in Procs : pend[p] = 0) =>
    recent.lastSeq = Len(ledger)

\* The session list shows a run as active only while it is (docs/API.md:36), as long
\* as no process dies.
ListedRunIsLive ==
  (up /\ faults = 0 /\ crashes = 0 /\ recent # None) => recent.activeRun \in {None, active}

\* The abstract specification, for the runs the ledger's tail shows.
Activity == INSTANCE SessionActivity WITH
  Runs <- Requests,
  running <- DanglingRuns(ledger),
  begun <- {r \in Requests : Started(ledger, r)}

\* Through interrupts, deletions and deaths, what clients are shown is a session
\* that has one run after another (SessionActivity).
ShowsOneRun == Activity!Spec

\* A runs row that says how its run ended is not rewritten: reconciliation writes only
\* rows that still say running.  (Without interrupts: OnlyOrphansFinalized is how those
\* break it.  What the row says may differ from what the ledger says: InterruptedInLedger.)
TerminalRowIsFinal ==
  [][(faults = 0 /\ duplicates = 0) =>
       \A r \in Requests : runs[r] \in Terminal => runs'[r] \in {runs[r], "absent"}]_vars

\* The end of a run is announced once: whoever finalizes it (its goroutine, or after a
\* death the first pass of reconciliation), the ledger gets one run_finished; and its row
\* says what that one says, unless the run died with its process, which the row may say
\* of a run the ledger shows otherwise or not at all.  (Without interrupts, as above.)
RunEndsOnce ==
  (faults = 0 /\ duplicates = 0) =>
    /\ \A i, j \in DOMAIN ledger :
         (/\ ledger[i].type = "run_finished" /\ ledger[j].type = "run_finished"
          /\ ledger[i].run = ledger[j].run) => i = j
    /\ \A r \in Requests :
         runs[r] \in Terminal =>
           EndedAs(ledger, r, runs[r]) \/ (runs[r] = "interrupted" /\ pc[r] = "lost")

\* "every running row is by definition an orphan ... Each orphan gets a committed
\* run_finished(interrupted)" (service.go:421-424): a run that began and whose row says
\* interrupted is shown as interrupted.  (A death between run_finished and FinishRun
\* breaks it, and RunEndsOnce excepts that: README, "What the code does not guarantee".)
InterruptedInLedger ==
  (faults = 0 /\ duplicates = 0) =>
    \A r \in Requests :
      (runs[r] = "interrupted" /\ Started(ledger, r)) => EndedAs(ledger, r, "interrupted")

\* One client intent starts one run.
OneRunPerIntent ==
  \A q, r \in Requests :
    (q # r /\ IntentOf[q] = IntentOf[r] /\ IntentOf[q] # None) =>
      ~(Started(ledger, q) /\ Started(ledger, r))

\* A repeated intent is answered with a run that exists, or is about to: its row
\* is there unless its own Send is still on the way.  (A death between PutIntent and
\* CreateRun breaks it: README, "What the code does not guarantee".)
RepliedRunExists ==
  \A r \in Requests :
    (pc[r] = "replied" /\ sess # None /\ faults = 0 /\ pc[target[r]] \notin Owning) =>
      runs[target[r]] # "absent"

\* finalizeOrphanRun and ReconcileStuckRuns finalize runs of dead processes only.  (An
\* interrupt that races a send, or a second serve, breaks it: README, the same place.)
OnlyOrphansFinalized ==
  \A p \in Finalizers :
    (pc[p] = "orphan_finished" /\ faults = 0) => pc[target[p]] \notin Owning

\* The stop button works: a run whose context is cancelled gives the session
\* back, whatever else happens, or dies with its process.
CancelledRunEnds == active \in cancelled ~> active \notin cancelled

\* A run that died with its process does not show as running forever.
DeadRunSettles ==
  (DanglingRuns(ledger) \ {active} # {}) ~> (DanglingRuns(ledger) \subseteq {active})
=============================================================================
