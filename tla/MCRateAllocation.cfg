SPECIFICATION Spec
CONSTANTS
    Jobs <- MCJobs
    Scale = 60
    Rounds = 128
INVARIANTS
    WithinLimit
    NothingBetter
CHECK_DEADLOCK FALSE
