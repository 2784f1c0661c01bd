\* One crash to start an SMT alignment, one before it resequences.
CONSTANTS
    t1 = t1
    t2 = t2
    Injected = injected
    Empty = empty
    Txs <- Pool2
    AsyncCommit = TRUE
    FlushPeriod = 2
    StateStreamLimit = 1000
    CrashAt <- BeforeResequence
    FailAt <- NoFault
    OperatorFlag = FALSE
    MaxBlocks = 6
    MaxBatchBlocks = 1
    MaxFaults = 2
SPECIFICATION FairSpec
PROPERTY ChainCatchesUp
