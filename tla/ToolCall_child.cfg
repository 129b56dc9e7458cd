SPECIFICATION FairSpec
CONSTANTS
  known = known
  unknown = unknown
  Registered = {known}
  Requested = {known}
  Params <- MCParams
  ArgumentMaps <- MCGoodArgumentMaps
  variable <- MCVariable
  FracBits = 2
  Tiny = 1
  Precision = 2
  IntBits = 4
  Streams = {"stdout"}
  MaxChunks = 1
  PipeCap = 1
  ChanCap = 1
PROPERTIES TimeoutEndsCall
CHECK_DEADLOCK FALSE
