CONSTANTS
    Depth = 1
    MaxFlags = 3
    FailCode = 2
    Signal = 15
SPECIFICATION Spec
INVARIANTS TypeOK ProofIsQualified ConfigIsShadowed StatusIsProofs
PROPERTIES FlagsAreSafe
CHECK_DEADLOCK FALSE
