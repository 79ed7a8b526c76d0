CONSTANTS
    N = 3
    FailCode = 2
    Signal = 9
SPECIFICATION Spec
INVARIANTS TypeOK StatusIsVerdict FailFast SummaryIsHonest SpansMatch
CHECK_DEADLOCK FALSE
