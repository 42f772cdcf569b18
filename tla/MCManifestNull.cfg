SPECIFICATION Spec
CONSTANTS
  Names = {1, 2}
  DirNames = {1}
  LineLen = 1
  MaxEntries = 3
  MaxDepth = 2
  MaxSize = 3
  FileSizes <- MCKnownOrNull
  DirSizes <- MCNull
  NewEntries <- MCNewEntries
INVARIANTS
  NullsInfect
PROPERTIES
  IdStable
  SortLosesOnlyOverridden
