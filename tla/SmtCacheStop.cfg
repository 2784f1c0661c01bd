\* The node may stop at any moment between two steps; the channel has room; a commit may fail.
CONSTANTS
    k1 = k1
    Keys <- Keys1
    FlushPeriod = 1
    ResetPeriod = 0
    ChannelSize = 3
    MaxWorkers = 1
    InOrder = TRUE
    Stops = TRUE
    Errors <- CommitFailure
    MaxBlocks = 2
    MaxErrors = 1
SPECIFICATION FairSpec
INVARIANTS DbIsOneBlock StopSavesAll
PROPERTY PushedIsFlushed
