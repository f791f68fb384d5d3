SPECIFICATION Spec
CONSTANTS
  Readers = {r1, r2}
  Writers = {w1, w2}
  Size = 3
  Hello = 1
  MaxCount = 3
INVARIANTS MsgTerminated LoneReaderGetsOnce DirLeftOnlyByFailure
PROPERTY ReadersEnd
CHECK_DEADLOCK FALSE
