\* One task of each kind; one death of the process; one retry, one repair.
CONSTANTS
    w = w
    o = o
    Tasks = {w, o}
    Asks <- Mixed
    RecoveryAttempts = 2
    RepairAttempts = 1
    Installed = "legacy"
    MaxEvents = 1
    MaxDeaths = 1
SPECIFICATION FairSpec
INVARIANTS CompletedIsCommitted MarkerMeansBaseline VerdictStands
PROPERTIES CancelEnds
CHECK_DEADLOCK FALSE
