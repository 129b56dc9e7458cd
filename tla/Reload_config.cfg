SPECIFICATION FairSpec
CONSTANTS
  m = m
  n = n
  config = config
  lint = lint
  test = test
  low = low
  high = high
  lenient = lenient
  strict = strict
  one = one
  redone = redone
  bare = bare
  Missing = Missing
  BadConfig = BadConfig
  NoJob = NoJob
  NoCall = NoCall
  Makefiles = {m}
  ConfigPath = config
  ConfigFile = config
  Texts <- MCSafeTexts
  parse <- MCSafeParse
  Configs <- MCOneConfigs
  Ids = {lint, test}
  Bodies <- MCBodies
  Groups = {low, high}
  FeedCap = 1
  Clients = {client}
  Saves = {"write"}
  MaxEdits = 3
PROPERTIES ConfigTakesEffect
CHECK_DEADLOCK FALSE
