------------------------------ MODULE ShellEnv ------------------------------
(***************************************************************************)
(* The credentials a daemon takes from the user's login shell, and the     *)
(* gate that refuses runs while they are missing: internal/shellenv        *)
(* (Resolve, StartHealing, Blocked) with the baseline that cmdServe keeps  *)
(* in the config file (rememberShellEnvKeys), across starts of the daemon, *)
(* failing probes and edits of the user's rc files.  The names of the      *)
(* specification begin with Env, so that HostProofs can extend ClaudeRun   *)
(* as well.                                                                *)
(***************************************************************************)
EXTENDS Naturals, FiniteSets

CONSTANTS
  Keys,       \* the variables the probe imports (wantKey)
  AuthKeys,   \* those that select an account (authKeys)
  Optional,   \* config shell_env_optional
  Inherited,  \* environments a service manager or a terminal may start it with
  MaxStarts,  \* bound: starts of the daemon
  MaxEdits,   \* bound: edits of the rc files
  MaxFaults   \* bound: config files that could not be written

Values == {"absent", "blank", "set"}
ASSUME KeysAssumption == AuthKeys \subseteq Keys /\ Optional \in BOOLEAN
ASSUME InheritedAssumption == Inherited \subseteq [Keys -> Values] /\ Inherited # {}
ASSUME EnvBoundsAssumption == {MaxStarts, MaxEdits, MaxFaults} \subseteq Nat

Probers == {"main", "heal"}

VARIABLES
  shell,     \* what the user's login shell exports
  saved,     \* shell_env_keys in the config file
  env,       \* the daemon's process environment
  cfg,       \* cfg.ShellEnvKeys in its memory
  current,   \* the published Status
  at,        \* the main goroutine and the heal goroutine
  expected,  \* what a prober was called with
  dump,      \* variables its probe returned and it has not looked at yet
  imported,  \* what it set
  taken,     \* history: the credentials this daemon has from the shell
  relied,    \* history: those a daemon had when nothing was missing, in any start
  agreed,    \* history: those set by the last probe after which nothing was missing
  starts, edits, faults

process == <<env, cfg, current>>
probe == <<expected, dump, imported>>
history == <<taken, relied, agreed>>
tallies == <<starts, edits, faults>>
envVars == <<shell, saved, process, at, probe, history, tallies>>

NoStatus == [ok |-> FALSE, imported |-> {}, missing |-> {}, retrying |-> FALSE]

EnvInit ==
  /\ shell \in [Keys -> Values] /\ saved = {}
  /\ env = [k \in Keys |-> "absent"] /\ cfg = {} /\ current = NoStatus
  /\ at = [main |-> "down", heal |-> "none"]
  /\ expected = [p \in Probers |-> {}]
  /\ dump = [p \in Probers |-> {}]
  /\ imported = [p \in Probers |-> {}]
  /\ taken = {} /\ relied = {} /\ agreed = {}
  /\ starts = 0 /\ edits = 0 /\ faults = 0

\* Blocked, the gate of Send.
Blocked == ~Optional /\ current.missing # {}

\* Absent from the environment; a blank value is looked up successfully.
MissingAuth(keys) == {k \in keys \cap AuthKeys : env[k] = "absent"}

Publish(p, ok) ==
  current' = [ok |-> ok, imported |-> imported[p], missing |-> MissingAuth(expected[p]),
              retrying |-> current.retrying]

Goto(p, l) == at' = [at EXCEPT ![p] = l]

----------------------------------------------------------------------------
(* resolve, as prober p calls it *)

\* The shell fails or does not finish in time.
ProbeFails(p) ==
  /\ at[p] = "probe"
  /\ Publish(p, FALSE)
  /\ Goto(p, IF p = "main" THEN "remember" ELSE "check")
  /\ UNCHANGED <<shell, saved, env, cfg, probe, history, tallies>>

\* Mutant: starts the import from a fresh status.
ProbeSucceedsAfresh(p) ==
  /\ at[p] = "probe"
  /\ dump' = [dump EXCEPT ![p] = {[key |-> k, value |-> shell[k]] :
                                    k \in {k \in Keys : shell[k] # "absent"}}]
  /\ current' = NoStatus
  /\ Goto(p, "import")
  /\ UNCHANGED <<shell, saved, env, cfg, expected, imported, history, tallies>>

ProbeSucceeds(p) ==
  /\ at[p] = "probe"
  /\ dump' = [dump EXCEPT ![p] = {[key |-> k, value |-> shell[k]] :
                                    k \in {k \in Keys : shell[k] # "absent"}}]
  /\ Goto(p, "import")
  /\ UNCHANGED <<shell, saved, process, expected, imported, history, tallies>>

\* One turn of the loop over the dump, in the order of a Go map: a value the
\* process has, and that is not blank, wins over the shell's.
ImportKey(p) ==
  /\ at[p] = "import"
  /\ \E d \in dump[p] :
       /\ dump' = [dump EXCEPT ![p] = @ \ {d}]
       /\ IF env[d.key] = "set" THEN UNCHANGED <<env, imported>>
          ELSE /\ env' = [env EXCEPT ![d.key] = d.value]
               /\ imported' = [imported EXCEPT ![p] = @ \cup {d.key}]
       /\ taken' = IF imported' = imported \/ d.value # "set" THEN taken
                   ELSE taken \cup ({d.key} \cap AuthKeys)
  /\ UNCHANGED <<shell, saved, cfg, current, at, expected, relied, agreed, tallies>>

PublishSuccess(p) ==
  /\ at[p] = "import" /\ dump[p] = {}
  /\ Publish(p, TRUE)
  /\ Goto(p, "remember")
  /\ UNCHANGED <<shell, saved, env, cfg, probe, history, tallies>>

\* Early returns of rememberShellEnvKeys; mutant: remembers whatever a probe found.
NothingNew == ~current.ok \/ cfg = current.imported
NothingToRemember == ~current.ok \/ current.missing # {} \/ cfg = current.imported

\* rememberShellEnvKeys on the published status; the file may not be writable.
Remember(p) ==
  /\ at[p] = "remember"
  /\ IF NothingToRemember
     THEN UNCHANGED <<cfg, saved, faults>>
     ELSE /\ cfg' = current.imported
          /\ \/ saved' = current.imported /\ UNCHANGED faults
             \/ faults < MaxFaults /\ faults' = faults + 1 /\ UNCHANGED saved
  /\ IF current.ok /\ current.missing = {}
     THEN relied' = relied \cup taken /\ agreed' = current.imported \cap AuthKeys
     ELSE UNCHANGED <<relied, agreed>>
  /\ Goto(p, IF p = "main" THEN "start_healing" ELSE "check")
  /\ UNCHANGED <<shell, env, current, probe, taken, starts, edits>>

----------------------------------------------------------------------------
(* cmdServe *)

Serve ==
  /\ at.main = "down" /\ starts < MaxStarts
  /\ starts' = starts + 1
  /\ env' \in Inherited /\ cfg' = saved /\ current' = NoStatus
  /\ at' = [main |-> "probe", heal |-> "none"]
  /\ expected' = [p \in Probers |-> IF p = "main" THEN saved ELSE {}]
  /\ dump' = [p \in Probers |-> {}] /\ imported' = [p \in Probers |-> {}]
  /\ taken' = {}
  /\ UNCHANGED <<shell, saved, relied, agreed, edits, faults>>

StartHealing ==
  /\ at.main = "start_healing"
  /\ IF Blocked
     THEN /\ at' = [main |-> "serving", heal |-> "probe"]
          /\ expected' = [expected EXCEPT !["heal"] = cfg]
          /\ current' = [current EXCEPT !.retrying = TRUE]
     ELSE Goto("main", "serving") /\ UNCHANGED <<expected, current>>
  /\ UNCHANGED <<shell, saved, env, cfg, dump, imported, history, tallies>>

\* Mutant: tries once.
HealCheckOnce ==
  /\ at.heal = "check"
  /\ imported' = [imported EXCEPT !["heal"] = {}]
  /\ Goto("heal", "none") /\ current' = [current EXCEPT !.retrying = FALSE]
  /\ UNCHANGED <<shell, saved, env, cfg, expected, dump, history, tallies>>

\* The heal loop goes round while runs are blocked.
HealCheck ==
  /\ at.heal = "check"
  /\ imported' = [imported EXCEPT !["heal"] = {}]
  /\ IF Blocked THEN Goto("heal", "probe") /\ UNCHANGED current
     ELSE Goto("heal", "none") /\ current' = [current EXCEPT !.retrying = FALSE]
  /\ UNCHANGED <<shell, saved, env, cfg, expected, dump, history, tallies>>

\* Stopped, killed or crashed, at any point.
Stop ==
  /\ at.main # "down"
  /\ at' = [main |-> "down", heal |-> "none"]
  /\ UNCHANGED <<shell, saved, process, probe, history, tallies>>

EditRcFile ==
  /\ edits < MaxEdits /\ edits' = edits + 1
  /\ shell' \in [Keys -> Values]
  /\ UNCHANGED <<saved, process, at, probe, history, starts, faults>>

Resolve(p) ==
  ProbeFails(p) \/ ProbeSucceeds(p) \/ ImportKey(p) \/ PublishSuccess(p) \/ Remember(p)

EnvNext ==
  \/ \E p \in Probers : Resolve(p)
  \/ Serve \/ StartHealing \/ HealCheck \/ Stop \/ EditRcFile

EnvSpec == EnvInit /\ [][EnvNext]_envVars

\* Goroutines run, and the shell does not fail forever: probes escalate their time
\* limit and are repeated, so one succeeds.
EnvFairness ==
  /\ \A p \in Probers : WF_envVars(Resolve(p)) /\ SF_envVars(ProbeSucceeds(p))
  /\ WF_envVars(StartHealing) /\ WF_envVars(HealCheck)

EnvFairSpec == EnvSpec /\ EnvFairness

----------------------------------------------------------------------------
Serving == at.main = "serving"

EnvTypeOK ==
  /\ shell \in [Keys -> Values] /\ env \in [Keys -> Values]
  /\ saved \subseteq Keys /\ cfg \subseteq Keys /\ taken \subseteq AuthKeys
  /\ {relied, agreed} \subseteq SUBSET AuthKeys
  /\ current \in [ok : BOOLEAN, imported : SUBSET Keys, missing : SUBSET AuthKeys,
                  retrying : BOOLEAN]
  /\ at.main \in {"down", "probe", "import", "remember", "start_healing", "serving"}
  /\ at.heal \in {"none", "probe", "import", "remember", "check"}
  /\ expected \in [Probers -> SUBSET Keys] /\ imported \in [Probers -> SUBSET Keys]
  /\ dump \in [Probers -> SUBSET [key : Keys, value : Values]]
  /\ {starts, edits, faults} \subseteq Nat

\* Runs are never accepted without a credential that the last good probe set: in any
\* later start, a daemon that lacks one refuses runs, as long as the config file could be
\* written (rememberShellEnvKeys, main.go 245-252).
BaselineBlocks ==
  (Serving /\ ~Optional /\ faults = 0 /\ \E k \in agreed : env[k] = "absent") => Blocked

\* Runs are never accepted with another account than the terminal's: if the shell once
\* gave a credential to some daemon, a daemon that lacks it refuses runs (shellenv.go
\* 34-39).  With two credentials the code does not guarantee it: a probe that heals one
\* leaves the other out of the baseline.
MissingCredentialBlocks ==
  (Serving /\ ~Optional /\ faults = 0 /\ \E k \in relied : env[k] = "absent") => Blocked

\* A run that passes the gate never sees a half-imported environment (shellenv.go:246):
\* while a prober is importing, runs are refused or the daemon does not serve yet.
GateClosedWhileImporting == (at.heal = "import" /\ Serving) => Blocked

\* A daemon blocked by a probe that failed serves again by itself, as long as its
\* shell exports the credentials.
Exporting == \A k \in AuthKeys : shell[k] = "set"
BlockedHeals == (Serving /\ Blocked /\ Exporting) ~> (~Blocked \/ ~Serving \/ ~Exporting)
=============================================================================
