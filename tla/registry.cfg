SPECIFICATION Spec
CONSTANTS
  a = a  b = b  u1 = u1  u2 = u2  b1 = b1  b2 = b2  p1 = p1  p2 = p2
  Uuids = {u1, u2}
  Names = {a, b}
  Blocks = {b1, b2}
  Templates <- Distinct
  Paths = {p1}
  Faults = {"write", "flush", "crash", "early"}
  MaxCalls = 4
  Nil = nil
SYMMETRY Symmetry
INVARIANTS
  TypeOK
  ReportsMatch
  CountersOwned
CHECK_DEADLOCK FALSE
