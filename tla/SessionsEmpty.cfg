CONSTANTS
  MaxAudio = 1
  ChunkUnits = 1
  PendingMax = 1
  ReplayMax = 1
  ShortUnits = 1
SPECIFICATION Spec
INVARIANT EmptyFinalIsNotHidden
CHECK_DEADLOCK FALSE
