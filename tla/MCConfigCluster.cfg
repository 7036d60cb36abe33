\* A probe of the first cluster is under way while `cluster use` records the
\* second one, whose server emits no native tool calls.
CONSTANTS
    terminal = terminal
    service = service
    Clis = {terminal}
    Commands <- OnlyUse
    CliCommands = 1
    Endpoints = {e1, e2}
    Models = {1}
    Capable = {e1}
    MaxChanges = 0
SPECIFICATION FairFileSpec
INVARIANT ToolsAreTheEndpoints
CHECK_DEADLOCK FALSE
