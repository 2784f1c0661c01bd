\* Crashes in every window, restarts with and without the resequence flag.
CONSTANTS
    t1 = t1
    t2 = t2
    Injected = injected
    Empty = empty
    Txs <- Pool2
    AsyncCommit = FALSE
    FlushPeriod = 1
    StateStreamLimit = 1000
    CrashAt <- AnyCrash
    FailAt <- InjectWindowOnly
    OperatorFlag = TRUE
    MaxBlocks = 4
    MaxBatchBlocks = 2
    MaxFaults = 2
SPECIFICATION Spec
INVARIANTS StreamWellFormed CacheCoherent
