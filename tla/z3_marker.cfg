CONSTANTS
    Versions = {"z1", "z2"}
    MaxFaults = 1
SPECIFICATION Spec
INVARIANTS MarkerRecordsInstalled
