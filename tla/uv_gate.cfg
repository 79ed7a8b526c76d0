CONSTANTS
    MaxLines = 3
    TailSize = 2
    PipeSize = 1
    FailCode = 1
    Signal = 15
SPECIFICATION FairSpec
INVARIANTS TypeOK OutputFirst StatusIsUvs ShimIsRemoved
PROPERTIES OnlineIsProven Ends
CHECK_DEADLOCK FALSE
