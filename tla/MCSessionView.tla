--------------------------- MODULE MCSessionView ---------------------------
\* A machine with a session on it, and another machine whose session is still to be
\* created.
EXTENDS SessionView, TLC

CONSTANTS s1, s2, m1, m2
HomeDef == s1 :> m1 @@ s2 :> m2
MaxSeqDef == s1 :> 2 @@ s2 :> 0

SlotsDef == {1}
=============================================================================
