SPECIFICATION PageSpec
CONSTANTS
  Durations = {15, 30}
  MaxTeams = 1
  MaxCalls = 1
  MaxVisits = 0
  PageFaults = {}
CHECK_DEADLOCK FALSE
INVARIANTS
  CreatedAsSubmitted
