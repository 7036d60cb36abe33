\* Two slots and four threads: a caller can meet any value of the counter.
CONSTANTS
    Threads = {t1, t2, t3, t4}
    RequestedCapacity = 2
SPECIFICATION FairSpec
INVARIANTS TypeOK CounterIsHolders NoOverCommit
PROPERTIES ImplementsSemaphore CallsReturn
