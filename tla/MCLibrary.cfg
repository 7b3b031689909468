SPECIFICATION Spec
CONSTANTS
  Publication = {p}
  Project = {j}
  Call = {c1, c2, c3}
  None = None
  Size <- MCSize
  MaxBytes = 1
  MaxStarts = 2
  MaxAsked = 4
SYMMETRY Symmetry
INVARIANTS WithinCeiling ListedIsThere UnlistedIsExplained CloseCutsOnlyLateImports BusyIsOwned
CHECK_DEADLOCK FALSE
