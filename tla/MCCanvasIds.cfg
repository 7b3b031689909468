SPECIFICATION Spec
CONSTANTS
  c1 = c1
  Component = {c1}
  Fits <- MCFits
  Place = {0, 1}
  Config = {0, 1}
  Default = 0
  None = None
  Limit = 1
  MaxNodes = 4
  MaxAdds = 2
  MaxCopies = 1
  MaxEdits = 2
INVARIANT
  SavingKeepsSteps
