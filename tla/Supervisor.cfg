SPECIFICATION ShimFairSpec
CONSTANTS
  MaxStarts = 2
  MaxListens = 3
INVARIANTS SocketFree BuildkitdTold
PROPERTY EndsWithParts
CHECK_DEADLOCK FALSE
