SPECIFICATION FairSpec
CONSTANTS
  a = a
  b = b
  c = c
  NoRequest = NoRequest
  Requests <- MCPair
  MaxQueueDepth = 1
  MaxNew <- MCTwoTokens
  RespCap = 2
  Quitters <- MCQuitters
  Stoppers <- MCStoppers
  ModelMayFail = TRUE
PROPERTIES
  AcceptedIsAnswered
  PermitsComeBack
CHECK_DEADLOCK FALSE
