SPECIFICATION Spec
CONSTANTS
  Tokens <- MCTokens
  StopChoices <- MCStopChoices
  MaxTokens = 3
INVARIANTS
  NoStopExposed
CHECK_DEADLOCK FALSE
