\* The listener and the loop end when the consumer fails.
SPECIFICATION FairSpec
CONSTANTS
    TxCount <- TxsOfBlock3
    HeightThreshold = 1
    PendingLimit = 1
    MaxFaults = 1
INVARIANTS TypeOK ClosedBlocksExact 
PROPERTY Settles
CHECK_DEADLOCK FALSE
