SPECIFICATION Spec
CONSTANTS
  Project = {p1}
  None = None
  MaxSnapshots = 1
  MaxEdits = 2
  MaxCalls = 2
  MaxSent = 3
INVARIANT
  NothingLostSilently
CHECK_DEADLOCK FALSE
