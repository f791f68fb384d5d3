SPECIFICATION Spec
CONSTANTS
  Files = {f1, f2}
  Vmas = {v1, v2}
  Pages = 3
  MaxUser = 4
SYMMETRY MCSymmetry
INVARIANTS PagesBacked WrongPageOnlyAfterSplit
CHECK_DEADLOCK FALSE
