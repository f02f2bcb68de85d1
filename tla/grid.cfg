SPECIFICATION FairSpec
CONSTANTS
  h1 = h1  h2 = h2  h3 = h3
  Hexagons = {h1, h2, h3}
  Templates <- AllTemplates
  Limit = 8
  UninitPoint = 6
  NumberOfNext = 2
  Checked = FALSE
  Nil = nil
INVARIANTS
  TypeOK
  NeighborsMutual
  TargetsEast
  WithinDistance
PROPERTIES
  Ends
CHECK_DEADLOCK FALSE
