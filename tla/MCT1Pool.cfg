CONSTANTS
    MaxJobs <- MCMaxJobs
    MaxThreads <- MCMaxThreads
    Running = Running

SPECIFICATION FairSpec

INVARIANTS
    DisjointBlocks
    SerialCallbacks

PROPERTIES
    ImplementsContract
    Terminates

CHECK_DEADLOCK FALSE
