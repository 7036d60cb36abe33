SPECIFICATION Spec
CONSTANTS
    Models = {1, 2}
    Official = {1}
    Hub = {2}
    Kinds = {"add", "use", "import", "remove", "prune"}
    MaxOps = 1
    MaxFaults = 0
    Backends = {"llama", "mlx", "vllm"}
    Requests <- MCRequests
    ListsTools = TRUE
    Hold = 1
    MaxBody = 2
    MaxChanges = 1
INVARIANT AdvertisedToolsAreServed
CHECK_DEADLOCK FALSE
