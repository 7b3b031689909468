SPECIFICATION Spec
CONSTANTS
  MaxPending = 2
  Mounted = 2
  MaxBatch = 3
  MaxFired = 5
INVARIANT
  OneLongRunEndsOnlyItself
CHECK_DEADLOCK FALSE
