SPECIFICATION Spec
CONSTANTS
  Call = {c1, c2}
  None = None
  MaxEvents = 2
INVARIANTS
  OneWorkflowAtATime
  NeverShowsFinished
  StopWhileLive
  ButtonKeepsStartsApart
PROPERTY
  WorkflowLeavesSlot
CHECK_DEADLOCK FALSE
