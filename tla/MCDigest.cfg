SPECIFICATION Identifying
CONSTANTS
  Threads = {t1, t2}
  Bytes = {1, 2}
  BlockSize = 2
  Inputs <- MCInputs
SYMMETRY MCSymmetry
INVARIANTS
  OwnDigest
  SumCommutes
