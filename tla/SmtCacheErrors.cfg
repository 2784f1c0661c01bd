\* A step may fail before its first commit, the write of an image may fail; two workers.
CONSTANTS
    k1 = k1
    Keys <- Keys1
    FlushPeriod = 1
    ResetPeriod = 0
    ChannelSize = 1
    MaxWorkers = 2
    InOrder = TRUE
    Stops = FALSE
    Errors <- LimboOrFlush
    MaxBlocks = 3
    MaxErrors = 2
SPECIFICATION Spec
INVARIANTS TypeOK ReadsLatest SnapshotsCover 
