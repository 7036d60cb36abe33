SPECIFICATION CacheSpec
CONSTANTS
    Models = {1, 2}
    Official = {1, 2}
    Hub = {}
    Kinds = {"add", "use", "import", "remove", "prune", "install", "start"}
    MaxOps = 2
    MaxFaults = 0
INVARIANT RemovalDeletes
CHECK_DEADLOCK FALSE
