CONSTANTS
    Versions = {"z1", "z2"}
    MaxFaults = 3
SPECIFICATION FairSpec
INVARIANTS TypeOK ReuseIsExact InstalledIsRecorded
PROPERTIES Recovers
