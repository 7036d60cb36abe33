CONSTANTS
    MaxDeltas = 3
    BatchMax = 2
    Attempts = 3
    OrphansEnd = TRUE
SPECIFICATION FairSpec
INVARIANTS StreamIsPrefix CompletedMeansWorkerSucceeded
PROPERTIES NoDeltaSentAfterCompletion SlotIsReleased
CHECK_DEADLOCK FALSE
