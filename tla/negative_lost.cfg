SPECIFICATION Spec
CONSTANTS
  BlockDim = 2
  Values <- SmallNumbers
  MaxValues = 2
  MaxCalls = 3
  Unlinked = unlinked
INVARIANTS
  EveryValueShown
CHECK_DEADLOCK FALSE
