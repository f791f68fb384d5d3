SPECIFICATION Spec
CONSTANT MaxFailed = 4
INVARIANT LeftBehind
CHECK_DEADLOCK FALSE
