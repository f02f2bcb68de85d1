SPECIFICATION Spec
CONSTANTS
  i1 = i1  i2 = i2  c1 = c1  c2 = c2  c3 = c3  o1 = o1  o2 = o2  o3 = o3
  hi1 = hi1  hi2 = hi2  hc1 = hc1  hc2 = hc2  ho = ho
  out = out  nil = nil  unknown = unknown
  Workers = {w1, w2}
  Client = cl
  Inputs = {i1, i2}
  Cores = {c2, c3}
  Outputs = {o1, o2}
  Buffers = {out}
  HexOf <- HexMap
  Possible <- MergeGaps
  BufferOf <- OutMap
  Width <- Narrow
  Wires <- NewModel
  MaxLevel = 2
  Calls <- WrongNames
  MayTimeout = TRUE
  MayGiveUp = TRUE
  Unknown = unknown
  Nil = nil
INVARIANTS
  TypeOK
  LockDiscipline
  Wiring
PROPERTIES
  ConnectionsPersist
CHECK_DEADLOCK FALSE
SYMMETRY WorkerSymmetry
