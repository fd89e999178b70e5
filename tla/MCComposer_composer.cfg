SPECIFICATION Spec
CONSTANTS
  s1 = s1  s2 = s2  i1 = i1  i2 = i2  t1 = t1
  Sessions = {s1, s2}
  Images = {i1, i2}
  Texts = {t1}
  NoText = NoText
  None = None
  MaxLeaves = 1
  AllEfforts <- TwoEfforts
  Catalogues <- CataloguesDef
  Menus <- MenusDef
  MaxPicks = 4
SYMMETRY SymmetryDef
CONSTRAINT NoRaceYet
INVARIANTS DraftsAreKept UrlsReleased PicksAreSent
