-------------------------- MODULE SessionActivity --------------------------
(***************************************************************************)
(* What a session promises whoever looks at it, in the terms of the        *)
(* rendered tail: it shows at most one run, shows a new one only after the *)
(* previous one was settled, and never shows a run again that it began     *)
(* before.  SessionRuns implements it.                                     *)
(***************************************************************************)
CONSTANT Runs
VARIABLES
  running,  \* the runs shown as running: none or one
  begun     \* the runs that began

Init == running = {} /\ begun = {}

Begin(r) ==
  /\ running = {} /\ r \notin begun
  /\ running' = {r} /\ begun' = begun \cup {r}

\* The run ended, or is declared over: interrupted, or orphaned by a death.
Settle ==
  /\ running # {}
  /\ running' = {} /\ UNCHANGED begun

\* The session is deleted, and its history with it.
Forget == running' = {} /\ begun' = {}

Next == (\E r \in Runs : Begin(r)) \/ Settle \/ Forget

Spec == Init /\ [][Next]_<<running, begun>>
=============================================================================
