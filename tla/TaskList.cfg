SPECIFICATION TaskSpec
CONSTANTS
  Tasks = {p1, p2, p3, p4, p5}
  InitTask = InitTask
SYMMETRY MCSymmetry
INVARIANTS ResidentCountedOnce CountedLived
