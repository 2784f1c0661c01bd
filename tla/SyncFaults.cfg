\* Sync commit, every crash and every error outside the three unsafe windows.
CONSTANTS
    t1 = t1
    t2 = t2
    Injected = injected
    Empty = empty
    Txs <- Pool2
    AsyncCommit = FALSE
    FlushPeriod = 1
    StateStreamLimit = 1000
    CrashAt <- EveryCrash
    FailAt <- EveryFailure
    OperatorFlag = FALSE
    MaxBlocks = 3
    MaxBatchBlocks = 2
    MaxFaults = 2
SPECIFICATION FairSpec
INVARIANTS
    TypeOK
    StreamWellFormed
    BatchEndRoot
    StreamMatchesChain
    PublishedOnChain
    RootsCorrect
    SmtAligned
    CacheCoherent
PROPERTIES StreamAppendOnly RefinesStreamLog StreamCatchesUp
