SPECIFICATION Spec
CONSTANTS
  a = a
  b = b
  c = c
  NoRequest = NoRequest
  Requests <- MCTrio
  MaxQueueDepth = 1
  MaxNew <- MCTwoForA
  RespCap = 2
  Quitters <- MCQuitters
  Stoppers <- MCStoppers
  ModelMayFail = FALSE
INVARIANTS
  PermitAccounting
PROPERTIES
  ImplementsService
CHECK_DEADLOCK FALSE
