SPECIFICATION CacheSpec
CONSTANTS
    Models = {1, 2, 3}
    Official = {1, 2}
    Hub = {2}
    Kinds = {"add", "use", "import", "remove", "prune", "install", "start"}
    MaxOps = 4
    MaxFaults = 1
INVARIANTS CachedIsWhole AtMostOneActive SelectionAgrees
CHECK_DEADLOCK FALSE
