CONSTANTS
  MaxAudio = 3
  ChunkUnits = 2
  PendingMax = 1
  ReplayMax = 2
  ShortUnits = 1
SPECIFICATION FairSpec
INVARIANTS
  HeardInOrder
  EndedMeansAll
  AbortBoundsConnects
  ReplayIsComplete
PROPERTIES
  ImplementsSession
  SessionEnds
CHECK_DEADLOCK FALSE
