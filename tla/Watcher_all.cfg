SPECIFICATION FairSpec
CONSTANTS
  a = a
  b = b
  dotA = dotA
  NoEvent = NoEvent
  Paths <- MCPaths
  CleanPath <- MCCleanPath
  Settle = 2
  Cap = 1
  ErrCap = 1
  MaxFlushers = 2
  MaxSlip = 1
INVARIANTS TypeOK
PROPERTIES NoSendOnClosed ImplementsFeed NoLostWakeup ChangesAnnounced CloseCompletes
CHECK_DEADLOCK FALSE
