SPECIFICATION FairTreeSpec
CONSTANTS
  known = known
  unknown = unknown
  Registered = {known}
  Requested = {known, unknown}
  Params <- MCParams
  ArgumentMaps <- MCArgumentMaps
  variable <- MCVariable
  FracBits = 2
  Tiny = 1
  Precision = 2
  IntBits = 4
  Streams = {"stdout", "stderr"}
  MaxChunks = 2
  PipeCap = 1
  ChanCap = 1
INVARIANTS TypeOK SuccessIsComplete  FailureHasCause NothingLeftBehind
PROPERTIES EveryCallAnswered
CHECK_DEADLOCK FALSE
