CONSTANTS
  r1 = r1
  r2 = r2
  r3 = r3
  NoRequest = NoRequest
  Requests <- MCTrio
  PromptLen <- MCPromptLen
  MaxNew <- MCTwoOneThree
  Priority <- MCPriority
  MaxRunning = 2
  MaxSlots = 3
  MaxDepth = 1
  MaxNewLimit = 2
  MaxSeqLen = 4
  SlotLen = 4
  MaxPositions = 4
  RespCap = 2
  Quitters <- MCFirst
  Stoppers <- MCFirst
  ModelMayFail = TRUE
SPECIFICATION Spec
INVARIANTS
  OnePlace
  SlotAccounting
  RowsAligned
  CacheMatchesPosition
  EvictedWithinOneStep
  NothingStranded
  WithinLimits
PROPERTIES
  ImplementsService
CHECK_DEADLOCK FALSE
