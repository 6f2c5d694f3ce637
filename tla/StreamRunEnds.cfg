SPECIFICATION FairSpec
CONSTANTS
  walk = walk
  open = open
  write = write
  fssync = fssync
  stdio = stdio
  Calls = {walk}
  Stages <- MCStages
  StageOf <- MCStageOf
  Replies <- MCReplies
  Walks <- MCWalks
  LongLived <- MCLongLived
  Detached <- MCDetached
  SendCap = 1
  RecvCap = 1
  DemuxCap = 1
  Surplus <- MCSurplus
  MaxTraffic = 1
  NoCall = NoCall
  NoStage = NoStage
PROPERTY RunEnds
CHECK_DEADLOCK FALSE
