\* The recovery of a stalled tool that the connector announces.
CONSTANTS
    w = w
    o = o
    Tasks = {w, o}
    Asks <- Mixed
    RecoveryAttempts = 2
    RepairAttempts = 1
    Installed = "legacy"
    MaxEvents = 1
    MaxDeaths = 1
SPECIFICATION FairSpec
PROPERTY StalledToolResumes
CHECK_DEADLOCK FALSE
