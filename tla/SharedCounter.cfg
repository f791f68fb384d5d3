SPECIFICATION Spec
CONSTANTS
  N = 3
  Limit <- MCLimitThree
INVARIANTS NoLostUpdate FinalValue DestroyedUnused
PROPERTY ProgramEnds
