SPECIFICATION Spec
CONSTANTS
  FileCount = 2
  Stable = 2
  IncludeExisting = TRUE
  MaxVersion = 2
PROPERTY
  EveryFileStarts
