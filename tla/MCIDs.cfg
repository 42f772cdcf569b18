SPECIFICATION Adding
CONSTANTS
  Appended = {1, 2, 3, 4, 5, 6}
  MaxIDs = 6
INVARIANTS
  TreeIDIsMerkleRoot
CHECK_DEADLOCK FALSE
