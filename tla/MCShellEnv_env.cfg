SPECIFICATION EnvFairSpec
CONSTANTS
  k1 = k1  k2 = k2
  Keys = {k1, k2}
  AuthKeys = {k1, k2}
  Optional = FALSE
  Inherited <- NothingInherited
  MaxStarts = 3
  MaxEdits = 2
  MaxFaults = 1
INVARIANTS BaselineBlocks GateClosedWhileImporting
PROPERTIES BlockedHeals
\* Starts are bounded, so the last daemon may be stopped for good.
CHECK_DEADLOCK FALSE
