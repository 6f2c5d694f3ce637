SPECIFICATION FairSpec
CONSTANT MaxPackets = 5
INVARIANTS TransferExact
PROPERTIES CancelEnds TransferEnds
CHECK_DEADLOCK FALSE
