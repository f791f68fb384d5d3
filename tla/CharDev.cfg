SPECIFICATION Spec
CONSTANTS
  Numbers = {1, 2}
  Users = {u1, u2}
INVARIANT LoadedOwnsRegion
