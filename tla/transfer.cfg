CONSTANTS
    MaxRedirects = 2
    ConnectTimeout = 2
    TransferTimeout = 3
    MaxBytes = 3
    Chunk = 2
    Horizon = 6
    Unknown = Unknown
SPECIFICATION FairSpec
INVARIANTS TypeOK WithinLimits OverrunIsOneCall
PROPERTIES EndsUnlessStretched
CHECK_DEADLOCK FALSE
