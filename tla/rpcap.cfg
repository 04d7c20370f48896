SPECIFICATION FairSpec
CONSTANTS
  Modes <- MCModes
  MaxCalls = 5
  MaxPackets = 2
  MaxFaults = 1
  W = 4
INVARIANTS ReplyAnswersRequest  DeliveredInOrder NetDropsAccountForGaps ThreadInsideCapture SocketsInitialised
PROPERTIES CallsReturn LoopEndsWithClient
CHECK_DEADLOCK FALSE
