\* A descendant of a killed worker may hold the stderr pipe for ever.
CONSTANTS
    MaxDeltas = 1
    BatchMax = 1
    Attempts = 1
    OrphansEnd = FALSE
SPECIFICATION FairSpec
PROPERTY KillFreesSlot
CHECK_DEADLOCK FALSE
