SPECIFICATION FairSpec
CONSTANTS
  w1 = w1  w2 = w2  c1 = c1
  Writers = {w1}
  Clients = {c1}
  RenderCap = 3
  BufferSize = 1
  MaxEvents = 3
  MaxDeltas = 1
  MaxBreaks = 1
  MaxCrashes = 1
  MaxFaults = 0
INVARIANTS ViewHasNoHoles
PROPERTIES DeliversEveryEvent
\* Events are bounded, so the system comes to rest.
CHECK_DEADLOCK FALSE
