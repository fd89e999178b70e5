SPECIFICATION FairSpec
CONSTANTS
  r1 = r1  r2 = r2  c1 = c1  d1 = d1  boot = boot  none = none
  Requests = {r1, r2}
  Callers = {d1}
  Deleters = {d1}
  IntentOf <- NoIntent
  Override <- NoOverride
  Attaching = {}
  Boot = boot
  None = none
  MaxOutputs = 0
  MaxCrashes = 1
  MaxFaults = 0
  MaxDuplicates = 0
INVARIANTS LastSeqExact ListedRunIsLive
PROPERTIES ShowsOneRun CancelledRunEnds DeadRunSettles
\* Every request and every caller makes one call, so the system stops.
CHECK_DEADLOCK FALSE
