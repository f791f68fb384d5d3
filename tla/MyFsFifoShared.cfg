SPECIFICATION Spec
CONSTANTS
  Size = 2
  Wraps = 2
  Byte = {0, 1}
  Readers = {a, b}
  Writers = {a, b}
  MaxCount = 3
CONSTRAINT Undamaged
INVARIANTS TypeOK RingIntact ReadIntact WriteIntact
PROPERTY ImplementsQueue
