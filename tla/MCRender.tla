------------------------------ MODULE MCRender ------------------------------
(* Small instances of Render, and of the feed over it, for TLC. *)
EXTENDS Conversation
CONSTANTS t1, t2, none
=============================================================================
