SPECIFICATION TestSpec
CONSTANTS
  Size = 6
  Wraps = 8
  Byte = {m}
  Writers = {t1, t2, t3}
  Readers = {t1, t2, t3, ro}
  ReadOnlyTests = {ro}
  MsgLen = 2
  MaxCount = 4
INVARIANTS NoWrongWrite DrainedAtEnd
PROPERTY TestsTerminate
