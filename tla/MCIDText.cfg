SPECIFICATION Spec
CONSTANTS
  Word = 192
  ByteBase = 4
  DigestLen = 4
  TextBase = 3
  TextLen = 6
  DigitsPerLimb = 2
  Pow58 = 9
  MaxLimbs = 3
  BytesPerLimb = 3
  Pow256 = 64
  DecodeMaxLimbs = 2
CHECK_DEADLOCK FALSE
INVARIANTS
  NoOverflow
  ArrayHolds
  TextComesBack
  RejectsOnlyNonIDs
