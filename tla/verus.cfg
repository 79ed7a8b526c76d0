CONSTANTS
    Versions = {"v1", "v2", "v3"}
    Dirs = {"verus-x86-linux", "verus-v2", "verus-v3"}
    Exact = "verus-x86-linux"
    Layout <- LayoutByName
    MaxFaults = 2
SPECIFICATION FairSpec
INVARIANTS TypeOK InstalledIsPinned ReusedIsWhole
PROPERTIES Recovers
