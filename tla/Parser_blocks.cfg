SPECIFICATION ValidateSpec
CONSTANTS
  build = build
  test = test
  phony = phony
  NoAnnotation = NoAnnotation
  NoTarget = NoTarget
  BadParam = BadParam
  BadBool = BadBool
  NilParams = NilParams
  Files <- MCFiles
  Rest <- MCRest
  Values <- MCValues
  Targets = {build, test, phony}
  Special = {phony}
  parseParam <- MCParseParam
  parseBool <- MCParseBool
  MediaTypes <- MCMediaTypes
INVARIANTS TypeOK OwnBlock NothingDropped VerdictIsServers
CHECK_DEADLOCK FALSE
