\* The tool probe's save races with `opengpu pause`.
CONSTANTS
    terminal = terminal
    service = service
    Clis = {terminal}
    Commands <- OnlyPause
    CliCommands = 1
    Endpoints = {e1}
    Models = {1}
    Capable = {e1}
    MaxChanges = 0
SPECIFICATION FairFileSpec
PROPERTY PauseHonoured
CHECK_DEADLOCK FALSE
