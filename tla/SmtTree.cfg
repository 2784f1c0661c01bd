\* Three keys, two values; one single insert or bulk build among any batches of one or two entries.
CONSTANTS
    Keys <- ThreeKeys
    None = none
    Values = {a, b}
    MaxBatch = 2
    MaxOthers = 1
    EmptyMidway = FALSE
    ReadAhead = 2
    CancelMidway = FALSE
SPECIFICATION FairSpec
INVARIANTS RootIsCanonical TreeStored  NoOrphans
 
\* Goroutines that all wait for each other violate BulkEnds.
CHECK_DEADLOCK FALSE
