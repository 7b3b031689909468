SPECIFICATION Spec
CONSTANTS
  Project = {p1}
  None = None
  MaxSnapshots = 1
  MaxEdits = 1
  MaxCalls = 2
  MaxSent = 2
INVARIANTS
  LostOnlyBeside
  CleanMeansKept
  BusyMeansAnswerDue
PROPERTY
  HistoryGrows
CHECK_DEADLOCK FALSE
