SPECIFICATION FairSpec
CONSTANTS
  v1 = v1
  v2 = v2
  Versions = {v1, v2}
  Unplanned = Unplanned
  None = None
  MaxTries = 4
  MaxFaults = 3
INVARIANTS BinaryIsWhole
PROPERTIES CleanInstallSucceeds
