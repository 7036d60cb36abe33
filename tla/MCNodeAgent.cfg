\* Two slots shared by two jobs and a local request; one change of the
\* configuration and one of the machine's condition at any moment.
CONSTANTS
    Jobs = {j1, j2}
    Locals = {r1}
    Capacity = 2
    MaxCommands = 1
    MaxPlant = 1
    MaxBoots = 2
SPECIFICATION FairSpec
INVARIANTS PermitsAreExact
PROPERTIES NeverCooledUnderWork PausedNodeStops
CHECK_DEADLOCK FALSE
