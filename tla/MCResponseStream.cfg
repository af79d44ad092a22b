SPECIFICATION StreamSpec
CONSTANTS
  Tokens <- MCTokens
  StopChoices <- MCStopChoices
  MaxTokens = 3
  WireCapacity = 3
INVARIANTS
  ClientReadsTheCutText
  HeldForAReason
  EveryTokenIsCounted
  StopIsSignalledFirst
  OnlyTheEngineFails
PROPERTIES
  StreamsEnd
