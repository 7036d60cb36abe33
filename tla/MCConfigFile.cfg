\* Every command, one after another in one terminal, against an agent that
\* also saves the result of its tool probe, while one endpoint changes what it
\* serves.
CONSTANTS
    terminal = terminal
    service = service
    Clis = {terminal}
    Commands <- Everything
    CliCommands = 2
    Endpoints = {e1, e2}
    Models = {1}
    Capable = {e1}
    MaxChanges = 1
SPECIFICATION FairFileSpec
PROPERTIES StoppedFileStopsAgent ExitHonoured ToolsGetVerified
CHECK_DEADLOCK FALSE
