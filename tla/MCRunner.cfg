SPECIFICATION Spec
CONSTANTS
  Node <- MCNode
  Port <- MCPort
  Edge <- MCEdge
  Owner <- MCOwner
  Source <- MCSource
  Target <- MCTarget
  Order <- MCOrder
  Trigger <- MCTrigger
  Unwrapped <- MCUnwrapped
  Fallible <- MCFallible
  Sizes = {1, 2}
  Budget = 5
INVARIANTS
  HeldExactlyWhileNeeded
  LiveBytesExact
  JournalCoherent
  SkipExplained
  OkMeansAllRan
  StopIsFinal
PROPERTIES
  PeakWithinBudget
  Implements
CHECK_DEADLOCK FALSE
