CONSTANTS
  r1 = r1
  r2 = r2
  r3 = r3
  NoRequest = NoRequest
  Requests <- MCPair
  PromptLen <- MCPromptLen
  MaxNew <- MCMaxNew
  Priority <- MCPriority
  MaxRunning = 2
  MaxSlots = 2
  MaxDepth = 1
  MaxNewLimit = 2
  MaxSeqLen = 4
  SlotLen = 4
  MaxPositions = 4
  RespCap = 2
  Quitters <- MCPair
  Stoppers <- MCPair
  ModelMayFail = FALSE
SPECIFICATION Spec
PROPERTIES
  MatchedStopIsNotCounted
CHECK_DEADLOCK FALSE
