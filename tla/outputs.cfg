SPECIFICATION Spec
CONSTANTS
  b1 = b1  b2 = b2
  Blocks = {b1, b2}
  Types = {"plain", "bool", "int", "float"}
  IntBits = 3
  FloatBits = 2
  Mantissa = 2
  BitsOf <- Bits
  Lists <- Some
  Additions <- Pushes
  MaxCalls = 3
INVARIANTS
  TypeOK
  Covered
  Delivered
  Normalized
  Reported
PROPERTIES
  CoveredFresh
  
CHECK_DEADLOCK FALSE
