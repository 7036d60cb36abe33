\* The conditions docs/job-eligibility.md sets for a claim.
CONSTANTS
    Jobs = {j1}
    Locals = {}
    Capacity = 1
    MaxCommands = 1
    MaxPlant = 1
    MaxBoots = 1
SPECIFICATION Spec
PROPERTY DocumentedEligibility
CHECK_DEADLOCK FALSE
