\* A service starts the node while `opengpu exit` runs in a terminal.
CONSTANTS
    terminal = terminal
    service = service
    Clis = {terminal, service}
    Commands <- ExitAndStart
    CliCommands = 2
    Endpoints = {e1}
    Models = {1}
    Capable = {e1}
    MaxChanges = 0
SPECIFICATION FairFileSpec
PROPERTY ExitHonoured
CHECK_DEADLOCK FALSE
