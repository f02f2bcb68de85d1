SPECIFICATION Spec
CONSTANTS
  Dim = 2
  FreshBorder = 8
  CreateBorder = 1
  RefractoryTime = 1
  Patterns <- TwoInputs
  MaxPasses = 4
  None = None
INVARIANTS
  TypeOK
  Chains
  Counted
  FilledPrefix
  Recalled
  BoundsBehindPredecessor
CHECK_DEADLOCK FALSE
