SPECIFICATION FairSpec
CONSTANTS
  Names = {1, 2, 3, 4, 5, 6}
  DirNames = {5, 6}
  LineLen = 1
  MaxVersions = 3
  MaxRetries = 1
  Versions <- MCVersions
  NameText <- MCNameText
  TargetText <- MCTargetText
INVARIANTS
  NeverRejects
  ConfirmedIsCommitted
  ResolveAgreesWithParse
  StopAtResolvesVersion
  AwareIDNamesState
PROPERTIES
  WholeVersionResolves
  ImplementsVersionLog
  CatchesUp
