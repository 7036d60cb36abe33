\* A second request of the session arrives after the cancel.
CONSTANTS
    Requests = {r1, r2}
    Granted = {}
    Long = {r2}
    MaxTurns = 2
    MaxToolCalls = 2
    Selected <- OneSkill
SPECIFICATION Spec
PROPERTY CancelReachesRunning
CHECK_DEADLOCK FALSE
