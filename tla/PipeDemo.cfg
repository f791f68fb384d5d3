SPECIFICATION PipeSpec
CONSTANT MayFail = {"pipe", "fork"}
INVARIANTS BothReceived ReadNeverBlocks
PROPERTY ParentEnds
CHECK_DEADLOCK FALSE
