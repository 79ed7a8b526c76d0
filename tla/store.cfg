CONSTANTS
    Procs = {p1}
    Inodes = {i1, i2}
    None = None
    Blocks = 3
    MaxFaults = 4
SPECIFICATION FairSpec
INVARIANTS TypeOK NothingPendingBesideAsset
PROPERTIES NeverPartial Recovers StoreSpec
