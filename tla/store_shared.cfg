CONSTANTS
    Procs = {p1, p2}
    Inodes = {i1, i2, i3, i4}
    None = None
    Blocks = 2
    MaxFaults = 0
SPECIFICATION Spec
PROPERTIES NeverPartial
SYMMETRY Symmetry
