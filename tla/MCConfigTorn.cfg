\* A command reads config.json between the truncation and the write of another.
CONSTANTS
    terminal = terminal
    service = service
    Clis = {terminal, service}
    Commands <- OnlyOnboard
    CliCommands = 2
    Endpoints = {e1}
    Models = {1}
    Capable = {e1}
    MaxChanges = 0
SPECIFICATION FairFileSpec
PROPERTY ClusterKept
CHECK_DEADLOCK FALSE
