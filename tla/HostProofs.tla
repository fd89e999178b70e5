----------------------------- MODULE HostProofs -----------------------------
(***************************************************************************)
(* Theorems about what the daemon has of its host: the processes of a      *)
(* turn (ClaudeRun) and the credentials they are started with (ShellEnv).  *)
(*                                                                         *)
(* Of ClaudeRun, for any number of turns, process ids and lines, and a     *)
(* pipe of any size: a turn that is reported as done was read to its end,  *)
(* and nothing of a group outlives the SIGKILL sent to it.  Of ShellEnv,   *)
(* for any variables, starts, edits, failed saves and environments the     *)
(* daemon may inherit: no run is accepted without a credential of the      *)
(* baseline, nor while credentials are being imported.                     *)
(***************************************************************************)
EXTENDS ClaudeRun, ShellEnv, TLAPS

\* Only what the proofs below use: which states a turn, its claude and its killer have.
TurnTypes ==
  /\ pc \in [Runs -> {"idle", "scan", "wait", "check", "returned"}]
  /\ scanErr \in [Runs -> BOOLEAN] /\ waitErr \in [Runs -> BOOLEAN]
  /\ result \in [Runs -> {"none", "ok", "canceled", "failed"}]
  /\ killer \in [Runs -> {"none", "armed", "fired"}]
  /\ claude \in [Runs -> {"none", "alive", "ok", "bad"}]
  /\ kids \in [Runs -> SUBSET Kids]
  /\ written \in [Runs -> Nat] /\ unread \in [Runs -> Nat]

\* A turn from its start to its result: what each label says of claude and of the pipe.
\* Once the scanner came to the end of file, claude is gone and the pipe stays empty.
Turn(r) ==
  /\ pc[r] = "idle" => claude[r] = "none"
  /\ pc[r] \in {"scan", "wait", "check"} => claude[r] # "none"
  /\ result[r] # "none" => pc[r] = "returned"
  /\ claude[r] = "ok" => written[r] = MaxLines
  /\ (pc[r] \in {"wait", "check", "returned"} /\ ~scanErr[r] /\ claude[r] # "none") =>
       claude[r] # "alive" /\ unread[r] = 0
  /\ (pc[r] = "check" /\ ~waitErr[r]) => claude[r] = "ok"
  /\ result[r] = "ok" => ~scanErr[r] /\ claude[r] = "ok"

\* A killer is armed for a turn that was started, and leaves nothing of its group.
Stopped(r) ==
  /\ pc[r] = "idle" => killer[r] = "none"
  /\ killer[r] = "fired" => claude[r] # "alive" /\ "grouped" \notin kids[r]

IInv == TurnTypes /\ \A r \in Runs : Turn(r) /\ Stopped(r)

LEMMA TurnInit == Init => IInv
  BY LinesAssumption DEF Init, IInv, TurnTypes, Turn, Stopped

\* The steps of one turn leave the others as they are, but for a SIGKILL to a shared id.
LEMMA TurnStep == IInv /\ [Next]_vars => IInv'
<1> SUFFICES ASSUME IInv, [Next]_vars PROVE IInv'
  OBVIOUS
<1> USE LinesAssumption DEF IInv, TurnTypes, Turn, Stopped, Set, run, goroutines, tree
<1>1. ASSUME NEW r \in Runs, Start(r) PROVE IInv'
  <2>1. CASE pc' = Set(pc, r, "scan") /\ claude' = Set(claude, r, "alive") /\ UNCHANGED result
    BY <1>1, <2>1 DEF Start
  <2>2. CASE /\ pc' = Set(pc, r, "returned") /\ result' = Set(result, r, "failed")
             /\ UNCHANGED claude
    BY <1>1, <2>2 DEF Start
  <2>3. QED
    BY <1>1, <2>1, <2>2 DEF Start
<1>2. ASSUME NEW r \in Runs, Scan(r) PROVE IInv'
  BY <1>2 DEF Scan
<1>3. ASSUME NEW r \in Runs, ScanEnds(r) PROVE IInv'
  <2>1. CASE unread[r] = 0 /\ claude[r] # "alive" /\ UNCHANGED scanErr
    BY <1>3, <2>1 DEF ScanEnds
  <2>2. CASE scanErr' = Set(scanErr, r, TRUE)
    BY <1>3, <2>2 DEF ScanEnds
  <2>3. QED
    BY <1>3, <2>1, <2>2 DEF ScanEnds
<1>4. ASSUME NEW r \in Runs, Wait(r) PROVE IInv'
  <2>1. \A s \in Runs \ {r} : pc'[s] = pc[s] /\ waitErr'[s] = waitErr[s] /\ unread'[s] = unread[s]
    BY <1>4 DEF Wait
  <2>2. TurnTypes'
    BY <1>4 DEF Wait
  <2>3. (Turn(r) /\ Stopped(r))'
    BY <1>4 DEF Wait
  <2>4. ASSUME NEW s \in Runs \ {r} PROVE (Turn(s) /\ Stopped(s))'
    BY <1>4, <2>1, <2>4 DEF Wait
  <2>5. QED
    BY <2>2, <2>3, <2>4
<1>5. ASSUME NEW r \in Runs, Return(r) PROVE IInv'
  BY <1>5 DEF Return
<1>6. ASSUME NEW r \in Runs, Cancel(r) PROVE IInv'
  BY <1>6 DEF Cancel
<1>7. ASSUME NEW r \in Runs, WatcherCancels(r) PROVE IInv'
  BY <1>7 DEF WatcherCancels
<1>8. ASSUME NEW r \in Runs, WatcherKills(r) PROVE IInv'
  BY <1>8 DEF WatcherKills
<1>9. ASSUME NEW r \in Runs, KillerFires(r) PROVE IInv'
  BY <1>9 DEF KillerFires
<1>10. ASSUME NEW r \in Runs, BackstopCloses(r) PROVE IInv'
  BY <1>10 DEF BackstopCloses
<1>11. ASSUME NEW r \in Runs, ClaudeWrites(r) PROVE IInv'
  BY <1>11 DEF ClaudeWrites
<1>12. ASSUME NEW r \in Runs, ClaudeSpawns(r) PROVE IInv'
  BY <1>12 DEF ClaudeSpawns
<1>13. ASSUME NEW r \in Runs, NEW how \in {"ok", "bad"}, ClaudeExits(r, how) PROVE IInv'
  BY <1>13 DEF ClaudeExits
<1>14. ASSUME NEW r \in Runs, KidExits(r) PROVE IInv'
  BY <1>14 DEF KidExits
<1>15. CASE UNCHANGED vars
  BY <1>15 DEF vars
<1>16. QED
  BY <1>1, <1>2, <1>3, <1>4, <1>5, <1>6, <1>7, <1>8, <1>9, <1>10, <1>11, <1>12, <1>13, <1>14, <1>15
     DEF Next, Run, Goroutines, Claude

\* However a turn ends and whatever its descendants hold, it is reported as done only
\* if every line claude wrote was read before Wait closed the pipe (claude.go:98-115).
THEOREM DoneStaysComplete == Spec => []DoneIsComplete
<1>1. IInv => DoneIsComplete
  BY DEF IInv, TurnTypes, Turn, DoneIsComplete
<1>2. QED
  BY TurnInit, TurnStep, <1>1, PTL DEF Spec

\* Once the grace is over nothing is left of the group that was stopped, and nothing
\* joins it later (claude_proc_unix.go:11-20).
THEOREM StoppedGroupStaysGone == Spec => []StoppedGroupIsGone
<1>1. IInv => StoppedGroupIsGone
  BY DEF IInv, Stopped, StoppedGroupIsGone
<1>2. QED
  BY TurnInit, TurnStep, <1>1, PTL DEF Spec

----------------------------------------------------------------------------
(* ShellEnv *)

Up == at.main # "down"

Statuses == [ok : BOOLEAN, imported : SUBSET Keys, missing : SUBSET AuthKeys, retrying : BOOLEAN]

\* Only what the proofs below use.  A variable that a probe returned is not absent, and
\* what a prober or the published status says it set is in the environment, which only
\* grows while a daemon lives.
EnvTypes ==
  /\ env \in [Keys -> Values] /\ shell \in [Keys -> Values]
  /\ at \in [Probers -> {"down", "none", "probe", "import", "remember", "check",
                            "start_healing", "serving"}]
  /\ dump \in [Probers -> SUBSET [key : Keys, value : {"blank", "set"}]]
  /\ expected \in [Probers -> SUBSET Keys]
  /\ imported \in [Probers -> SUBSET Keys]
  /\ current \in Statuses
  /\ saved \subseteq Keys /\ cfg \subseteq Keys /\ faults \in Nat

ImportsArePresent ==
  Up => \A k \in imported["main"] \cup imported["heal"] \cup current.imported : env[k] # "absent"

\* Before the daemon serves there is no heal loop; while it is at work runs are refused,
\* until it finds that nothing is missing.
HealsWhileBlocked ==
  /\ at.heal # "none" => at.main = "serving" /\ ~Optional
  /\ at.heal \in {"probe", "import"} => Blocked

\* A prober measures against the baseline in memory; a heal loop that replaced it goes no
\* further.
MeasuresBaseline ==
  /\ at.main \in {"probe", "import", "remember"} => expected["main"] = cfg
  /\ at.heal \in {"probe", "import", "remember"} => expected["heal"] = cfg
  /\ at.heal = "check" => expected["heal"] = cfg \/ current.missing = {}

\* From the end of the first probe on, the status names every credential of the baseline
\* that the environment lacks.
LacksAreMissing ==
  at.main \in {"remember", "start_healing", "serving"} =>
    \A k \in cfg \cap AuthKeys : env[k] = "absent" => k \in current.missing

\* The file and the memory hold one baseline, and what was agreed is in it, until a save
\* fails.
BaselineIsSaved ==
  faults = 0 => agreed \subseteq saved \cap AuthKeys /\ (Up => cfg = saved)

EInv ==
  /\ EnvTypes /\ ImportsArePresent /\ HealsWhileBlocked /\ MeasuresBaseline
  /\ LacksAreMissing /\ BaselineIsSaved

\* Whether the heal loop runs changes nothing else of the status.
LEMMA StatusKept ==
  ASSUME NEW s \in Statuses, NEW t, \E b \in BOOLEAN : t = [s EXCEPT !.retrying = b]
  PROVE  t \in Statuses /\ t.ok = s.ok /\ t.imported = s.imported /\ t.missing = s.missing
  BY DEF Statuses

\* Nothing is known and nothing runs at first.
LEMMA EnvStart == EnvInit => EInv
  BY KeysAssumption, InheritedAssumption
  DEF EInv, EnvTypes, ImportsArePresent, HealsWhileBlocked, MeasuresBaseline, LacksAreMissing,
      BaselineIsSaved, Up, Statuses, EnvInit, Values, Probers, NoStatus, Blocked

\* Each step of a probe, of a start, a stop and the heal loop keeps the invariant.
LEMMA EnvStep == EInv /\ [EnvNext]_envVars => EInv'
<1> SUFFICES ASSUME EInv, [EnvNext]_envVars PROVE EInv'
  OBVIOUS
<1> USE KeysAssumption, InheritedAssumption
<1> USE DEF EInv, EnvTypes, ImportsArePresent, HealsWhileBlocked, MeasuresBaseline
<1> USE DEF LacksAreMissing, BaselineIsSaved, Up, Values, Probers, Blocked, Goto
<1> USE DEF process, probe, history, tallies
<1>1. ASSUME NEW p \in Probers, ProbeFails(p) PROVE EInv'
  BY <1>1 DEF ProbeFails, Publish, MissingAuth, Statuses
<1>2. ASSUME NEW p \in Probers, ProbeSucceeds(p) PROVE EInv'
  BY <1>2 DEF ProbeSucceeds
<1>3. ASSUME NEW p \in Probers, ImportKey(p) PROVE EInv'
  <2>1. PICK d \in dump[p] :
          /\ dump' = [dump EXCEPT ![p] = @ \ {d}]
          /\ IF env[d.key] = "set" THEN UNCHANGED <<env, imported>>
             ELSE /\ env' = [env EXCEPT ![d.key] = d.value]
                  /\ imported' = [imported EXCEPT ![p] = @ \cup {d.key}]
    BY <1>3 DEF ImportKey
  <2>2. UNCHANGED <<shell, saved, cfg, current, at, expected, agreed, faults>> /\ at[p] = "import"
    BY <1>3 DEF ImportKey
  <2>3. d.key \in Keys /\ d.value \in {"blank", "set"}
    BY <2>1
  <2>4. EnvTypes'
    BY <2>1, <2>2, <2>3
  <2>5. \A k \in Keys : env'[k] = "absent" => env[k] = "absent"
    BY <2>1, <2>3
  <2>6. ImportsArePresent'
    <3>1. CASE env[d.key] = "set"
      BY <2>1, <2>2, <3>1
    <3>2. CASE env[d.key] # "set"
      <4>1. env'[d.key] # "absent"
        BY <2>1, <2>3, <3>2
      <4>2. \A q \in Probers : imported'[q] \subseteq imported[q] \cup {d.key}
        BY <2>1, <3>2
      <4>3. current.imported \subseteq Keys /\ \A q \in Probers : imported[q] \subseteq Keys
        BY DEF Statuses
      <4>4. ASSUME Up', NEW k \in imported'["main"] \cup imported'["heal"] \cup current.imported
            PROVE  env'[k] # "absent"
        <5>1. k = d.key \/ env[k] # "absent"
          BY <2>2, <4>2, <4>4
        <5>2. k \in Keys
          BY <2>3, <4>2, <4>3, <4>4
        <5>3. QED
          BY <2>5, <4>1, <5>1, <5>2
      <4>5. QED
        BY <2>2, <4>4
    <3>3. QED
      BY <3>1, <3>2
  <2>7. LacksAreMissing'
    BY <2>2, <2>5
  <2>8. QED
    BY <2>2, <2>4, <2>6, <2>7
<1>4. ASSUME NEW p \in Probers, PublishSuccess(p) PROVE EInv'
  BY <1>4 DEF PublishSuccess, Publish, MissingAuth, Statuses
<1>5. ASSUME NEW p \in Probers, Remember(p) PROVE EInv'
  BY <1>5 DEF Remember, NothingToRemember, Statuses
<1>6. CASE Serve
  BY <1>6 DEF Serve, NoStatus, Statuses
<1>7. CASE StartHealing
  <2>1. \E b \in BOOLEAN : current' = [current EXCEPT !.retrying = b]
    <3>1. CASE Blocked
      BY <1>7, <3>1 DEF StartHealing
    <3>2. CASE ~Blocked
      <4>1. current' = [current EXCEPT !.retrying = current.retrying]
        BY <1>7, <3>2 DEF StartHealing, Statuses
      <4>2. QED
        BY <4>1 DEF Statuses
    <3>3. QED
      BY <3>1, <3>2
  <2>2. UNCHANGED <<current.imported, current.missing>> /\ current' \in Statuses
    BY <2>1, StatusKept
  <2>3. UNCHANGED <<shell, saved, env, cfg, dump, imported, agreed, faults>>
    BY <1>7 DEF StartHealing
  <2>4. CASE Blocked
    <3>1. /\ at' = [main |-> "serving", heal |-> "probe"]
          /\ expected' = [expected EXCEPT !["heal"] = cfg]
      BY <1>7, <2>4 DEF StartHealing
    <3>2. QED
      BY <1>7, <2>2, <2>3, <2>4, <3>1 DEF StartHealing
  <2>5. CASE ~Blocked
    <3>1. at' = [at EXCEPT !["main"] = "serving"] /\ UNCHANGED expected
      BY <1>7, <2>5 DEF StartHealing
    <3>2. QED
      BY <1>7, <2>2, <2>3, <2>5, <3>1 DEF StartHealing
  <2>6. QED
    BY <2>4, <2>5
<1>8. CASE HealCheck
  <2>1. \E b \in BOOLEAN : current' = [current EXCEPT !.retrying = b]
    <3>1. CASE ~Blocked
      BY <1>8, <3>1 DEF HealCheck
    <3>2. CASE Blocked
      <4>1. current' = [current EXCEPT !.retrying = current.retrying]
        BY <1>8, <3>2 DEF HealCheck, Statuses
      <4>2. QED
        BY <4>1 DEF Statuses
    <3>3. QED
      BY <3>1, <3>2
  <2>2. UNCHANGED <<current.imported, current.missing>> /\ current' \in Statuses
    BY <2>1, StatusKept
  <2>3. UNCHANGED <<shell, saved, env, cfg, dump, expected, agreed, faults>>
    BY <1>8 DEF HealCheck
  <2>4. imported' = [imported EXCEPT !["heal"] = {}] /\ at.heal = "check"
    BY <1>8 DEF HealCheck
  <2>5. at' = [at EXCEPT !["heal"] = IF Blocked THEN "probe" ELSE "none"]
    BY <1>8 DEF HealCheck
  <2>6. QED
    BY <2>2, <2>3, <2>4, <2>5
<1>9. CASE Stop
  BY <1>9 DEF Stop
<1>10. CASE EditRcFile
  BY <1>10 DEF EditRcFile
<1>11. CASE UNCHANGED envVars
  BY <1>11 DEF envVars
<1>12. QED
  BY <1>1, <1>2, <1>3, <1>4, <1>5, <1>6, <1>7, <1>8, <1>9, <1>10, <1>11
     DEF EnvNext, Resolve

\* However often probes fail, rc files change and the daemon starts, it accepts no run
\* without a credential that the last good probe set, as long as the baseline could be
\* saved (rememberShellEnvKeys and missingAuth).
THEOREM BaselineStaysGuarded == EnvSpec => []BaselineBlocks
<1>1. EInv => BaselineBlocks
  BY DEF EInv, EnvTypes, LacksAreMissing, BaselineIsSaved, Up, BaselineBlocks, Serving,
     Blocked
<1>2. QED
  BY EnvStart, EnvStep, <1>1, PTL DEF EnvSpec

\* A run that passes the gate sees the whole of what a probe imported (shellenv.go:246).
THEOREM GateStaysClosed == EnvSpec => []GateClosedWhileImporting
<1>1. EInv => GateClosedWhileImporting
  BY DEF EInv, HealsWhileBlocked, GateClosedWhileImporting
<1>2. QED
  BY EnvStart, EnvStep, <1>1, PTL DEF EnvSpec
=============================================================================
