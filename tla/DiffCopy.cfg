SPECIFICATION FairSpec
CONSTANTS
  Entries = 4
  Directories = {2}
  Regular <- MCRegular
  Synthetic = {1}
  Workers = {w1, w2}
  PipeCap = 1
  Chunks = 1
INVARIANTS ContentMatches RequestsKept
PROPERTIES Finishes ReturnsWithStream
CHECK_DEADLOCK FALSE
