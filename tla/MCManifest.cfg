SPECIFICATION Spec
CONSTANTS
  Names = {1, 2, 3}
  DirNames = {1, 3}
  LineLen = 1
  MaxEntries = 4
  MaxDepth = 2
  MaxSize = 3
  FileSizes <- MCKnown
  DirSizes <- MCKnown
  NewEntries <- MCNewEntries
INVARIANTS
  IndexCoherent
  WalksAgree
  SortSettles
PROPERTIES
  SortKeepsTree
  RemoveTakesSubtree
  RenameCarriesSubtree
