SPECIFICATION Spec
CONSTANTS
  Fragments <- MCFragmentsEscaped
  Kinds <- MCKinds
  IDs <- MCIDs
  OtherNames <- MCOtherNames
  MaxRenames = 1
  MaxLength = 4
CHECK_DEADLOCK FALSE
PROPERTIES
  NamesComeBack
