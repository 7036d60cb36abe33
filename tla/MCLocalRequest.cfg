\* One run of the CLI with both of its handlers against a thread of the job
\* loop for one slot.
CONSTANTS
    Requests = {r1}
    JobThreads = {j1}
    Threads <- MCThreads
    RequestedCapacity = 1
    Shapes = {"plain", "complex", "mismatch", "invalid", "decompose"}
    MaxLeases = 2
SPECIFICATION LocalFairSpec
INVARIANTS CounterIsHolders LocalRunsOnce LeaseAccounted
PROPERTIES ImplementsSemaphore RunEnds
CHECK_DEADLOCK FALSE
