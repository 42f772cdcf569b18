SPECIFICATION FairSpec
CONSTANTS
  Names = {1, 2, 3, 4, 5}
  DirNames = {1, 2}
  LineLen = 1
  MaxEdits = 3
  ConflictName <- MCConflictName
  Start <- MCStart
  EditPaths <- MCEditPaths
  FileVersions <- MCFileVersions
  DirVersions <- MCDirVersions
INVARIANTS
  TypeOK
  MergedIsClean
  SidesAgree
PROPERTIES
  EditsSurvive
  DeletionsHold
  Converges
