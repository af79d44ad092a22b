SPECIFICATION Spec
CONSTANTS
  Tokens <- MCTokens
  Eos = "eos"
  MaxNewTokens = 5
  StopSets <- MCStopSets
INVARIANTS
  NoStopDelivered
  NothingWithheldForNothing
  IncrementalIsWhole
  TerminalIsTrue
PROPERTIES
  SliceInBounds
CHECK_DEADLOCK FALSE
