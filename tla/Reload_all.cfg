SPECIFICATION FairSpec
CONSTANTS
  m = m
  n = n
  config = config
  lint = lint
  test = test
  low = low
  high = high
  lenient = lenient
  strict = strict
  one = one
  redone = redone
  bare = bare
  Missing = Missing
  BadConfig = BadConfig
  NoJob = NoJob
  NoCall = NoCall
  Makefiles = {m, n}
  ConfigPath = config
  ConfigFile = config
  Texts <- MCSafeTexts
  parse <- MCSafeParse
  Configs <- MCSafeConfigs
  Ids = {lint, test}
  Bodies <- MCBodies
  Groups = {low, high}
  FeedCap = 1
  Clients = {client}
  Saves = {"write", "replace", "moveAway"}
  MaxEdits = 2
INVARIANTS TypeOK RegistryAhead OnlyValidated GaugeCovers
PROPERTIES Converges ClientsConverge RefusedOnlyIfRemoved
CHECK_DEADLOCK FALSE
