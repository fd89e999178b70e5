SPECIFICATION FairSpec
CONSTANTS
  r1 = r1  r2 = r2  p1 = p1  nopid = nopid
  Runs = {r1, r2}
  Pids = {p1}
  NoPid = nopid
  MaxLines = 1
  LongLines = TRUE
  PipeCap = 1
  Kids = {"grouped", "detached"}
INVARIANT DoneIsComplete
PROPERTIES CancelledRunReturns EndedTurnReturns
\* A turn returns once, and a claude nobody cancels may do nothing.
CHECK_DEADLOCK FALSE
