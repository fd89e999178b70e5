----------------------------- MODULE MCShellEnv -----------------------------
(* Small instances of ShellEnv for TLC. *)
EXTENDS ShellEnv
CONSTANTS k1, k2

\* What launchd and systemd hand over.
NothingInherited == {[k \in Keys |-> "absent"]}
=============================================================================
