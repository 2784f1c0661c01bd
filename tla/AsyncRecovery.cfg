\* Async commit, one crash outside the three unsafe windows.
CONSTANTS
    t1 = t1
    t2 = t2
    Injected = injected
    Empty = empty
    Txs <- Pool2
    AsyncCommit = TRUE
    FlushPeriod = 2
    StateStreamLimit = 1000
    CrashAt <- EveryCrash
    FailAt <- NoFault
    OperatorFlag = FALSE
    MaxBlocks = 6
    MaxBatchBlocks = 2
    MaxFaults = 1
SPECIFICATION Spec
INVARIANTS NoFork StreamWellFormed
PROPERTY ResequenceRestores
