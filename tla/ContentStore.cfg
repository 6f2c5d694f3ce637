SPECIFICATION StoreFairSpec
CONSTANTS
  Infos = 5
  InfoCap = 2
  LabelKeys = {"size", "kind"}
  InfoSizes = {0, 7}
  Times <- MCTimes
INVARIANTS UpdateKeeps InfosKept
PROPERTY WalkReturns
CHECK_DEADLOCK FALSE
