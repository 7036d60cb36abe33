\* One attempt, as the documentation of the harness describes its failures.
CONSTANTS
    Attempts = {a1}
    Local = {a1}
    Slots = 1
    Keys = {k1}
    Contents = {c1}
    MaxTurns = 3
    MaxTools = 2
    MaxRepairs = 0
    MaxUserSteps = 0
    MaxCrashes = 0
SPECIFICATION Spec
INVARIANT OnlySuccessAltersProject
CHECK_DEADLOCK FALSE
