---------------------------- MODULE MCClaudeRun ----------------------------
(* Small instances of ClaudeRun for TLC. *)
EXTENDS ClaudeRun
CONSTANTS r1, r2, p1, nopid
=============================================================================
