SPECIFICATION FairSpec
CONSTANTS
  u1 = u1
  u2 = u2
  Urls = {u1, u2}
  FirstList <- FirstListDef
  Infos <- InfosDef
  None = None
  MaxEdits = 2
  MaxUpsets = 1
  MaxFlights = 2
  Now = 2
  Lists <- ListsDef
  Boards <- BoardsDef
INVARIANTS
  DiskIsShown
  SavedListSurvives
  AnnouncedPlaceIsRight
  ColumnsAreWhole
  AllSignalsAgree
PROPERTIES ListCatchesUp
\* The bounds are spent and the list may be empty: then there is nothing to poll.
CHECK_DEADLOCK FALSE
