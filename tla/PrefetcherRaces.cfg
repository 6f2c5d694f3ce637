SPECIFICATION Spec
CONSTANTS
  Ops = {r1, r2}
  Closers = {c1, c2}
  LastChunk = 1
  MaxIndex = 1
  Requests <- Overlapping
  Window = 2
  MaxParallel = 1
  MaxRetries = 0
  CacheMax = 1
  EvictCount = 1
SYMMETRY Symmetry
INVARIANTS CacheHolds Quiescent 
CHECK_DEADLOCK FALSE
