SPECIFICATION Spec
CONSTANTS
    Clis = {"a", "b"}
    Updaters = {"a"}
    MaxAgents = 2
    MaxCommands = 2
    MaxReleases = 2
    MaxFaults = 1
INVARIANTS RecordIsHolders OrphanIsRecorded CliIsNotNewer
PROPERTIES StopReaches
CHECK_DEADLOCK FALSE
