SPECIFICATION FairSpec
CONSTANTS
  Ops = {r1}
  Closers = {c1}
  LastChunk = 1
  MaxIndex = 2
  Requests <- AllRequests
  Window = 2
  MaxParallel = 1
  MaxRetries = 1
  CacheMax = 2
  EvictCount = 1
PROPERTIES ReadsReturn CloseReturns
CHECK_DEADLOCK FALSE
