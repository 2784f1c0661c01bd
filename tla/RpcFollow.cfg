\* Three blocks, one resequencing of the sequencer, one fault of the node.
SPECIFICATION FairSpec
CONSTANTS
    MaxBlocks = 3
    MaxCuts = 1
    MaxFaults = 1
    CrashPoints <- AfterCommits
    LoopBlockLimit = 2
    UseTLS = FALSE
    Quirks <- NoQuirk
INVARIANTS TypeOK  IndexCoherent OwnStreamMatches
PROPERTIES UnwindsToBatchBefore CatchesUp
