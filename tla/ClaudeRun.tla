----------------------------- MODULE ClaudeRun -----------------------------
(***************************************************************************)
(* One turn of the claude CLI (internal/provider): Claude.Run with the     *)
(* process it starts, its descendants, its pipes, and the three goroutines *)
(* that end a cancelled turn: exec's context watcher (SIGINT to the group, *)
(* kill after WaitDelay), prepareCmd's delayed SIGKILL to the group, and   *)
(* the backstop that closes the reader.  Unix; time is abstracted to the   *)
(* order the delays impose.                                                *)
(***************************************************************************)
EXTENDS Naturals, FiniteSets

CONSTANTS
  Runs,       \* calls of Run, of any session
  Pids,       \* process ids the kernel may hand out
  NoPid,
  MaxLines,   \* bound: lines claude writes to stdout
  LongLines,  \* whether one may exceed maxLine
  PipeCap,    \* lines the pipe holds before a writer blocks
  Kids        \* descendants claude may leave: grouped, detached

ASSUME PidsAssumption == NoPid \notin Pids
ASSUME LinesAssumption == MaxLines \in Nat /\ PipeCap \in Nat /\ LongLines \in BOOLEAN
ASSUME KidsAssumption == Kids \subseteq {"grouped", "detached"}

VARIABLES
  \* Run
  pc,        \* idle, scan, wait, check, returned
  ctx,       \* the run's context is cancelled
  scanErr, waitErr,
  result,    \* what Run returned: ok, canceled, failed
  reader,    \* our end of stdout is open
  \* the goroutines beside it
  watcher,   \* exec's: idle, cancelled, killed
  killer,    \* prepareCmd's: none, armed, fired
  backstop,  \* waiting, closed
  \* the process tree
  pid,       \* claude's pid, which is its group's id
  claude,    \* none, alive, ok, bad; a zombie until Wait reaps it
  kids,      \* living descendants, which hold stdout and stderr open
  written,   \* lines claude wrote
  unread,    \* lines in the pipe
  long       \* the next unread line exceeds maxLine

run == <<pc, ctx, scanErr, waitErr, result, reader>>
goroutines == <<watcher, killer, backstop>>
tree == <<pid, claude, kids, written, unread, long>>
vars == <<run, goroutines, tree>>

Set(f, r, x) == [f EXCEPT ![r] = x]

Init ==
  /\ pc = [r \in Runs |-> "idle"] /\ ctx = [r \in Runs |-> FALSE]
  /\ scanErr = [r \in Runs |-> FALSE] /\ waitErr = [r \in Runs |-> FALSE]
  /\ result = [r \in Runs |-> "none"] /\ reader = [r \in Runs |-> FALSE]
  /\ watcher = [r \in Runs |-> "idle"] /\ killer = [r \in Runs |-> "none"]
  /\ backstop = [r \in Runs |-> "waiting"]
  /\ pid = [r \in Runs |-> NoPid] /\ claude = [r \in Runs |-> "none"]
  /\ kids = [r \in Runs |-> {}] /\ written = [r \in Runs |-> 0]
  /\ unread = [r \in Runs |-> 0] /\ long = [r \in Runs |-> FALSE]

----------------------------------------------------------------------------
(* The process tree *)

\* A pid is taken while the process is unreaped or its group has members.
Reaped(r) == pc[r] \in {"check", "returned"}
Taken(p) ==
  \E r \in Runs : pid[r] = p /\ (~Reaped(r) \/ claude[r] = "alive" \/ "grouped" \in kids[r])

ClaudeWrites(r) ==
  /\ claude[r] = "alive" /\ written[r] < MaxLines
  /\ unread[r] < PipeCap /\ ~long[r]
  /\ written' = Set(written, r, written[r] + 1)
  /\ unread' = Set(unread, r, unread[r] + 1)
  /\ long' \in {long} \cup (IF LongLines THEN {Set(long, r, TRUE)} ELSE {})
  /\ UNCHANGED <<run, goroutines, pid, claude, kids>>

\* A tool leaves a process behind, in claude's group or in one of its own.
ClaudeSpawns(r) ==
  /\ claude[r] = "alive"
  /\ \E k \in Kids \ kids[r] : kids' = Set(kids, r, kids[r] \cup {k})
  /\ UNCHANGED <<run, goroutines, pid, claude, written, unread, long>>

\* It ends its turn, fails, or obeys a SIGINT.
ClaudeExits(r, how) ==
  /\ claude[r] = "alive"
  /\ how = "ok" => written[r] = MaxLines
  /\ claude' = Set(claude, r, how)
  /\ UNCHANGED <<run, goroutines, pid, kids, written, unread, long>>

KidExits(r) ==
  /\ \E k \in kids[r] : kids' = Set(kids, r, kids[r] \ {k})
  /\ UNCHANGED <<run, goroutines, pid, claude, written, unread, long>>

----------------------------------------------------------------------------
(* Run *)

Start(r) ==
  /\ pc[r] = "idle"
  /\ \/ \E p \in Pids :
          /\ ~Taken(p)
          /\ pid' = Set(pid, r, p) /\ claude' = Set(claude, r, "alive")
          /\ reader' = Set(reader, r, TRUE) /\ pc' = Set(pc, r, "scan")
          /\ UNCHANGED result
     \/ /\ pc' = Set(pc, r, "returned") /\ result' = Set(result, r, "failed")
        /\ UNCHANGED <<pid, claude, reader>>
  /\ UNCHANGED <<ctx, scanErr, waitErr, goroutines, kids, written, unread, long>>

Scan(r) ==
  /\ pc[r] = "scan" /\ reader[r] /\ unread[r] > 0 /\ ~long[r]
  /\ unread' = Set(unread, r, unread[r] - 1)
  /\ UNCHANGED <<run, goroutines, pid, claude, kids, written, long>>

\* Mutants: only the end of file ends it; it never comes, as when the parent keeps the
\* write end; claude's exit ends it, whatever is in the pipe.
ScanEndsAtEof(r) ==
  /\ pc[r] = "scan" /\ unread[r] = 0 /\ claude[r] # "alive" /\ kids[r] = {}
  /\ pc' = Set(pc, r, "wait")
  /\ UNCHANGED <<ctx, scanErr, waitErr, result, reader, goroutines, tree>>

ScanEndsOnErrors(r) ==
  /\ pc[r] = "scan" /\ (~reader[r] \/ long[r])
  /\ scanErr' = Set(scanErr, r, TRUE) /\ pc' = Set(pc, r, "wait")
  /\ UNCHANGED <<ctx, waitErr, result, reader, goroutines, tree>>

ScanEndsAtExit(r) ==
  /\ pc[r] = "scan" /\ claude[r] # "alive"
  /\ pc' = Set(pc, r, "wait")
  /\ UNCHANGED <<ctx, scanErr, waitErr, result, reader, goroutines, tree>>

\* End of file (nobody holds the write end), a closed reader, or a line too long.
ScanEnds(r) ==
  /\ pc[r] = "scan"
  /\ \/ /\ unread[r] = 0 /\ claude[r] # "alive" /\ kids[r] = {}
        /\ UNCHANGED scanErr
     \/ (~reader[r] \/ long[r]) /\ scanErr' = Set(scanErr, r, TRUE)
  /\ pc' = Set(pc, r, "wait")
  /\ UNCHANGED <<ctx, waitErr, result, reader, goroutines, tree>>

\* cmd.Wait: claude has exited; stderr is copied to its end, or for WaitDelay if a
\* descendant holds it, which is an error of its own.
Wait(r) ==
  /\ pc[r] = "wait" /\ claude[r] # "alive"
  /\ waitErr' = Set(waitErr, r, claude[r] = "bad" \/ kids[r] # {})
  /\ reader' = Set(reader, r, FALSE)
  /\ pc' = Set(pc, r, "check")
  /\ UNCHANGED <<ctx, scanErr, result, goroutines, tree>>

\* Mutant: forgets the scanner's error.
ReturnUnread(r) ==
  /\ pc[r] = "check"
  /\ result' = Set(result, r, IF ctx[r] THEN "canceled" ELSE IF waitErr[r] THEN "failed" ELSE "ok")
  /\ pc' = Set(pc, r, "returned")
  /\ UNCHANGED <<ctx, scanErr, waitErr, reader, goroutines, tree>>

\* A claude that ended well may not have said its session id, which is an error too.
Return(r) ==
  /\ pc[r] = "check"
  /\ \E how \in {"canceled", "failed", "ok"} :
       /\ how = "canceled" <=> ctx[r]
       /\ how = "ok" => ~scanErr[r] /\ ~waitErr[r]
       /\ result' = Set(result, r, how)
  /\ pc' = Set(pc, r, "returned")
  /\ UNCHANGED <<ctx, scanErr, waitErr, reader, goroutines, tree>>

----------------------------------------------------------------------------
(* Cancelling *)

Cancel(r) ==
  /\ pc[r] # "idle" /\ ~ctx[r]
  /\ ctx' = Set(ctx, r, TRUE)
  /\ UNCHANGED <<pc, scanErr, waitErr, result, reader, goroutines, tree>>

\* exec's watcher, until Wait returns: cmd.Cancel sends SIGINT to the group, which
\* its members may obey or not, and arms the killer.
WatcherCancels(r) ==
  /\ pc[r] \in {"scan", "wait"} /\ ctx[r] /\ watcher[r] = "idle"
  /\ watcher' = Set(watcher, r, "cancelled")
  /\ killer' = Set(killer, r, "armed")
  /\ UNCHANGED <<run, backstop, tree>>

\* After WaitDelay, which is longer than cancelGrace: kill claude itself, and close
\* the pipes unless stderr has ended.
WatcherKills(r) ==
  /\ pc[r] \in {"scan", "wait"} /\ watcher[r] = "cancelled" /\ killer[r] = "fired"
  /\ watcher' = Set(watcher, r, "killed")
  /\ claude' = IF claude[r] = "alive" THEN Set(claude, r, "bad") ELSE claude
  /\ \/ reader' = Set(reader, r, FALSE)
     \/ kids[r] = {} /\ UNCHANGED reader
  /\ UNCHANGED <<pc, ctx, scanErr, waitErr, result, killer, backstop, pid, kids,
                 written, unread, long>>

\* After cancelGrace: SIGKILL to whatever group has the id by then.
KillerFires(r) ==
  /\ killer[r] = "armed"
  /\ killer' = Set(killer, r, "fired")
  /\ LET Hit(s) == pid[s] = pid[r] /\ (claude[s] = "alive" \/ "grouped" \in kids[s])
     IN  /\ claude' = [s \in Runs |-> IF Hit(s) /\ claude[s] = "alive" THEN "bad" ELSE claude[s]]
         /\ kids' = [s \in Runs |-> IF Hit(s) THEN kids[s] \ {"grouped"} ELSE kids[s]]
  /\ UNCHANGED <<run, watcher, backstop, pid, written, unread, long>>

\* After cancelGrace and a second: close the reader if Run has not returned.
BackstopCloses(r) ==
  /\ ctx[r] /\ pc[r] \in {"scan", "wait", "check"}
  /\ backstop[r] = "waiting" /\ killer[r] = "fired"
  /\ backstop' = Set(backstop, r, "closed")
  /\ reader' = Set(reader, r, FALSE)
  /\ UNCHANGED <<pc, ctx, scanErr, waitErr, result, watcher, killer, tree>>

----------------------------------------------------------------------------
Run(r) == Scan(r) \/ ScanEnds(r) \/ Wait(r) \/ Return(r)
Goroutines(r) ==
  WatcherCancels(r) \/ WatcherKills(r) \/ KillerFires(r) \/ BackstopCloses(r)
Claude(r) ==
  ClaudeWrites(r) \/ ClaudeSpawns(r) \/ ClaudeExits(r, "ok") \/ ClaudeExits(r, "bad")

Next ==
  \E r \in Runs :
    \/ Start(r) \/ Run(r) \/ Cancel(r) \/ Goroutines(r)
    \/ Claude(r) \/ KidExits(r)

Spec == Init /\ [][Next]_vars

\* The daemon's goroutines run and its timers fire; claude need not do anything.
Fairness == \A r \in Runs : WF_vars(Run(r)) /\ WF_vars(Goroutines(r))
FairSpec == Spec /\ Fairness

----------------------------------------------------------------------------
TypeOK ==
  /\ pc \in [Runs -> {"idle", "scan", "wait", "check", "returned"}]
  /\ ctx \in [Runs -> BOOLEAN] /\ reader \in [Runs -> BOOLEAN]
  /\ scanErr \in [Runs -> BOOLEAN] /\ waitErr \in [Runs -> BOOLEAN]
  /\ result \in [Runs -> {"none", "ok", "canceled", "failed"}]
  /\ watcher \in [Runs -> {"idle", "cancelled", "killed"}]
  /\ killer \in [Runs -> {"none", "armed", "fired"}]
  /\ backstop \in [Runs -> {"waiting", "closed"}]
  /\ pid \in [Runs -> Pids \cup {NoPid}]
  /\ claude \in [Runs -> {"none", "alive", "ok", "bad"}]
  /\ kids \in [Runs -> SUBSET Kids]
  /\ written \in [Runs -> 0..MaxLines] /\ unread \in [Runs -> 0..PipeCap]
  /\ long \in [Runs -> BOOLEAN]

\* A turn reported as done was read to its end: no line claude wrote is lost between
\* its exit and the return, although Wait closes the pipe (claude.go:98-115).
DoneIsComplete ==
  \A r \in Runs : result[r] = "ok" => written[r] = MaxLines /\ unread[r] = 0 /\ claude[r] = "ok"

\* Stopping a turn stops the tools it started, not just claude: once the grace is
\* over, nothing is left of the group (claude_proc_unix.go:11-20).
StoppedGroupIsGone ==
  \A r \in Runs : killer[r] = "fired" => claude[r] # "alive" /\ "grouped" \notin kids[r]

\* The stop button works (claude.go:78): a cancelled turn returns, whatever claude
\* and its descendants do.
CancelledRunReturns == \A r \in Runs : ctx[r] ~> pc[r] = "returned"

\* A turn that is over returns, once nothing of it holds its output.
EndedTurnReturns ==
  \A r \in Runs : (claude[r] = "ok" /\ kids[r] = {}) ~> pc[r] = "returned"
=============================================================================
