SPECIFICATION FairOwnerSpec
CONSTANTS
  a = a
  b = b
  dotA = dotA
  NoEvent = NoEvent
  Paths <- MCTwoPaths
  CleanPath <- MCIdentity
  Settle = 2
  Cap = 1
  ErrCap = 1
  MaxFlushers = 2
  MaxSlip = 0
PROPERTIES RetriedAfterFull
CHECK_DEADLOCK FALSE
