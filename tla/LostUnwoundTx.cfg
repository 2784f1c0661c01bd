\* Two blocks per batch, one crash.
CONSTANTS
    t1 = t1
    t2 = t2
    Injected = injected
    Empty = empty
    Txs <- Pool2
    AsyncCommit = FALSE
    FlushPeriod = 1
    StateStreamLimit = 1000
    CrashAt <- EveryCrash
    FailAt <- NoFault
    OperatorFlag = FALSE
    MaxBlocks = 4
    MaxBatchBlocks = 2
    MaxFaults = 1
SPECIFICATION Spec
INVARIANT NoTxLost
