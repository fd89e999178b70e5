SPECIFICATION Spec
CONSTANTS
  r1 = r1  r2 = r2  c1 = c1  d1 = d1  boot = boot  none = none
  Requests = {r1, r2}
  Callers = {}
  Deleters = {}
  IntentOf <- RepeatedIntent
  Override <- SplitOverride
  Attaching = {r1}
  Boot = boot
  None = none
  MaxOutputs = 1
  MaxCrashes = 2
  MaxFaults = 1
  MaxDuplicates = 0
INVARIANTS OneOwner DanglingRunIsLive RunningRowIsLive RunsDoNotInterleave RunEndsOnce
\* Every request and every caller makes one call, so the system stops.
CHECK_DEADLOCK FALSE
