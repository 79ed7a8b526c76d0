CONSTANTS
    Versions = {"v1", "v2"}
    Dirs = {"verus-x86-linux"}
    Exact = "verus-x86-linux"
    Layout <- LayoutOfTarget
    MaxFaults = 0
SPECIFICATION Spec
INVARIANTS ReportedIsPinned
