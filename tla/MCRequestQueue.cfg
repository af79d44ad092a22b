SPECIFICATION FairSpec
CONSTANTS
  a = a
  b = b
  c = c
  d = d
  Requests <- MCRequests
  Priority <- MCPriority
  MaxDepth = 3
  MaxRunning = 1
  Quitters <- MCFirst
INVARIANTS
  NoLostWakeup
  CountersAreExact
PROPERTIES
  ImplementsPriorityQueue
  EveryRequestLeavesTheQueue
CHECK_DEADLOCK FALSE
