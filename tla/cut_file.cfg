SPECIFICATION Spec
CONSTANTS
  a = a  b = b  u1 = u1  u2 = u2  b1 = b1  b2 = b2  p1 = p1  p2 = p2
  Uuids = {u1}
  Names = {a, b}
  Blocks = {b1, b2}
  Templates <- Distinct
  Paths = {p1}
  Faults = {"write"}
  MaxCalls = 4
  Nil = nil
PROPERTIES
  InvalidRefused
CHECK_DEADLOCK FALSE
