--------------------------- MODULE MCSessionRuns ---------------------------
(* Small instances of SessionRuns for TLC. *)
EXTENDS SessionRuns

CONSTANTS r1, r2, c1, d1, boot, none

NoIntent == [r \in Requests |-> none]
\* r2 repeats the intent of r1.
RepeatedIntent == [r \in Requests |-> "i"]

NoOverride == [r \in Requests |-> [model |-> none, effort |-> none]]
\* r1 sends a model and no effort, r2 an effort and no model.
SplitOverride ==
  [r \in Requests |-> IF r = r1 THEN [model |-> "opus", effort |-> none]
                                ELSE [model |-> none, effort |-> "high"]]
=============================================================================
