CONSTANTS
  ContextWindow = 7
  DefaultMaxTokens = 3
  ResponseChannelCapacity = 4
  MaxUsize = 20
  ModelPositions = 6
  Lengths <- MCLengths
SPECIFICATION Spec
INVARIANTS
  NothingFailsLate
  DefaultsAreServed
  ShortResponsesNeedNoReader
CHECK_DEADLOCK FALSE
