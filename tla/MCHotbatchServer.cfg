CONSTANTS
  r1 = r1
  r2 = r2
  r3 = r3
  NoRequest = NoRequest
  Requests <- MCPair
  PromptLen <- MCPromptLen
  MaxNew <- MCTwoOneThree
  Priority <- MCPriority
  MaxRunning = 2
  MaxSlots = 2
  MaxDepth = 1
  MaxNewLimit = 2
  MaxSeqLen = 4
  SlotLen = 4
  MaxPositions = 4
  RespCap = 2
  Quitters <- MCFirst
  Stoppers <- MCFirst
  ModelMayFail = FALSE
SPECIFICATION ServerSpec
PROPERTIES
  DetachedIsReleased
  ShutdownStops
  AcceptedIsServed
  StopReturns
CHECK_DEADLOCK FALSE
