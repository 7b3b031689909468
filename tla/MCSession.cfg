SPECIFICATION Spec
CONSTANTS
  MaxPending = 3
  Mounted = 3
  MaxBatch = 4
  MaxFired = 9
INVARIANTS
  QueueIsTheLatest
  EveryEventAccounted
  RunsInOrder
  StopIsQuick
PROPERTIES
  StopEnds
  NothingWaitsForever
CHECK_DEADLOCK FALSE
