\* One attempt in depth, in a new or an existing project, with the user
\* working in it: budgets that reach every ending of the loop.
CONSTANTS
    Attempts = {a1}
    Local = {a1}
    Slots = 1
    Keys = {k1}
    Contents = {c1, c2}
    MaxTurns = 5
    MaxTools = 4
    MaxRepairs = 1
    MaxUserSteps = 1
    MaxCrashes = 1
SPECIFICATION Spec
INVARIANTS PublishedWasValidated SucceededIsPublished
PROPERTIES HistoryKept
CHECK_DEADLOCK FALSE
