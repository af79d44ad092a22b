SPECIFICATION Spec
CONSTANTS
  r1 = r1
  r2 = r2
  r3 = r3
  r4 = r4
  Requests <- MCRequests
  Prompt <- MCPrompt
  MaxNew <- MCMaxNew
  Options <- MCOptions
  Rows <- MCRows
  Weights <- MCWeights
  TopPGrain = 3
  Draws = 8
  Eos = 2
  NumLayers = 2
  MaxSlots = 2
INVARIANTS
  BatchingIsInvisible
  SampledFromTheNucleus
CHECK_DEADLOCK FALSE
