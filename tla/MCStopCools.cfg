SPECIFICATION Spec
CONSTANTS
    Clis = {"a", "b"}
    Updaters = {"a"}
    MaxAgents = 2
    MaxCommands = 2
    MaxReleases = 2
    MaxFaults = 0
INVARIANT StopCools
CHECK_DEADLOCK FALSE
