SPECIFICATION FairSpec
CONSTANTS
  w1 = w1  w2 = w2  c1 = c1
  Writers = {w1, w2}
  Clients = {c1}
  RenderCap = 2
  BufferSize = 1
  MaxEvents = 3
  MaxDeltas = 0
  MaxBreaks = 1
  MaxCrashes = 1
  MaxFaults = 1
INVARIANTS DeliveredInOrder
PROPERTIES ViewCatchesUp
\* Events are bounded, so the system comes to rest.
CHECK_DEADLOCK FALSE
