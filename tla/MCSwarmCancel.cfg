SPECIFICATION SwarmSpec
CONSTANTS
  Plans <- MCPlans
  ProjectFiles <- MCFiles
  Ids = {1, 2, 3}
  Workers = 2
  MaxTasks = 4
  MaxUser = 1
  MaxEdits = 2
PROPERTIES CancelLeavesCheckpoint
CHECK_DEADLOCK FALSE
