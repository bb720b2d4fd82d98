SPECIFICATION FairSpec
CONSTANTS
  Capacity = 4
  BatchSize = 2
  Batches <- MCBatches
  Collectors = 3
  Cadence = 3
  StallTicks = 5
INVARIANTS
  TypeOK
  PushMatchesReference
  NoWriterBetweenSessions
PROPERTIES
  EndedSessionIsReplaced
  ShutdownCompletes
  StalledSessionEnds
CHECK_DEADLOCK FALSE
