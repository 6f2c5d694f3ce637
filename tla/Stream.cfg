SPECIFICATION FairSpec
CONSTANTS
  walk = walk
  open = open
  write = write
  fssync = fssync
  stdio = stdio
  Calls = {walk, open, write}
  Stages <- MCStages
  StageOf <- MCStageOf
  Replies <- MCReplies
  Walks <- MCWalks
  LongLived <- MCLongLived
  Detached <- MCDetached
  SendCap = 1
  RecvCap = 1
  DemuxCap = 1
  Surplus <- MCSurplus
  MaxTraffic = 2
  NoCall = NoCall
  NoStage = NoStage
INVARIANTS NoReplyLost
PROPERTIES KeepsPromise  CancelledCallsReturn AnsweredCallsReturn
CHECK_DEADLOCK FALSE
