--------------------------- MODULE MCEventStream ---------------------------
(* Small instances of EventStream for TLC. *)
EXTENDS EventStream
CONSTANTS w1, w2, c1
=============================================================================
