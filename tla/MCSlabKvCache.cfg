CONSTANTS
  MaxSeqs = 2
  MaxSeqLen = 3
  NumLayers = 1
  GenWidth = 8
  MaxGeneration = 2
SPECIFICATION Spec
INVARIANTS
  SlotPartition
  NoForeignContent
PROPERTIES
  ImplementsSlotLease
CHECK_DEADLOCK FALSE
