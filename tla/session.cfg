CONSTANTS
  Worlds <- Twelve
  BufferChunks = 1
  SlackChunks = 1
  MaxPendingHidOutputWrites = 64
  None = None
SPECIFICATION FairSpec
INVARIANTS TypeOK OutputBounded
PROPERTIES SessionEnds  EffectsReach
CHECK_DEADLOCK FALSE
