SPECIFICATION Spec
CONSTANTS
    Jobs <- MCJobs
    V8 = 2
INVARIANTS WholeExact WindowExact
CHECK_DEADLOCK FALSE
