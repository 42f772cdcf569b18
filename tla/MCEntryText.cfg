SPECIFICATION Spec
CONSTANTS
  Fragments <- MCFragments
  Kinds <- MCKinds
  IDs <- MCIDs
  OtherNames <- MCOtherNames
  MaxRenames = 2
  MaxLength = 6
CHECK_DEADLOCK FALSE
INVARIANTS
  EscapesReverse
  OrderIsTotal
  TwoParsers
PROPERTIES
  RewriteKeeps
  FieldsSurvive
