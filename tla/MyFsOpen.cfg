SPECIFICATION Spec
CONSTANTS
  Users = {root, plain, capable}
  Root = {root}
  Capable = {root, capable}
  Handles = {h1, h2}
  Infos = {i1, i2, i3}
  NoInfo = none
  Garbage = {1}
  IntMax = 1
  MaxRefs = 2
  Builds <- MCBuilds
INVARIANTS TypeOK InfoOwnership LeakPerDenial RdWrOnlyByRace
SYMMETRY MCSymmetry
