SPECIFICATION Spec
CONSTANTS
  FileCount = 2
  Stable = 2
  IncludeExisting = FALSE
  MaxVersion = 3
INVARIANTS
  ExistingLeftAlone
PROPERTIES
  NeverTwice
  SettledFirst
  OnlyFailedPollsLose
