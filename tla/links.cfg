SPECIFICATION Spec
CONSTANTS
  BlockDim = 2
  Values <- SmallNumbers
  MaxValues = 3
  MaxCalls = 3
  Unlinked = unlinked
INVARIANTS
  TypeOK
  LinksDistinct
  LinksInside
  PositiveShown
CHECK_DEADLOCK FALSE
