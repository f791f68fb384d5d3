SPECIFICATION Spec
CONSTANTS
  Tasks = {t1, t2}
  Value = {0, 1}
  Params <- MCParams
  IntMod = 48
  MB = 6
  SectorSize = 2
  MaxCount = 2
  MaxQueues = 2
  None = None
INVARIANTS EndOfDeviceNever LeakPerLateFailure
PROPERTIES ImplementsDisk IOCompletes
CHECK_DEADLOCK FALSE
