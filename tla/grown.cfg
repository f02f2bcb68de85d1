SPECIFICATION FairSpec
CONSTANTS
  i1 = i1  i2 = i2  c1 = c1  c2 = c2  c3 = c3  o1 = o1  o2 = o2  o3 = o3
  hi1 = hi1  hi2 = hi2  hc1 = hc1  hc2 = hc2  ho = ho
  out = out  nil = nil  unknown = unknown
  Workers = {w1, w2}
  Client = cl
  Inputs = {i1, i2}
  Cores = {c1, c2}
  Outputs = {o1}
  Buffers = {out}
  HexOf <- HexMap
  Possible <- Uneven
  BufferOf <- OutMap
  Width <- Narrow
  Wires <- UnevenGrown
  MaxLevel = 1
  Calls <- TrainRequestTrain
  MayTimeout = FALSE
  MayGiveUp = FALSE
  Unknown = unknown
  Nil = nil
INVARIANTS
  ScheduledWithAllInputs
PROPERTIES
  LastInputSchedules
  WavesImplemented
