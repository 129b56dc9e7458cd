SPECIFICATION FairSpec
CONSTANTS
  BadConfig = BadConfig
  NoFile = NoFile
  NoConfig = NoConfig
  Value <- MCValue
  Zero <- MCZero
  Default <- MCDefault
  CommandLines <- MCCommandLines
  ConfigFiles <- MCConfigFiles
  MaxRequests = 2
INVARIANTS Layered DrainedOnSignal ReleasedAtExit
PROPERTIES ClosedIsNotFailure EndsWhenTold
CHECK_DEADLOCK FALSE
