SPECIFICATION FairSpec
CONSTANTS
  tA = tA
  u1 = u1
  u2 = u2
  NoAnswer = NoAnswer
  Teams = {tA}
  Users = {u1}
  Roster <- SoloRoster
  Starts <- OneStart
  Durations = {1}
  MaxMinute = 2
  Answers = {"a1"}
  MaxJobs = 2
  WorkerFaults <- NoFaults
  QueueOption = "slack_events"
CHECK_DEADLOCK FALSE
PROPERTIES
  InteractionsHandled
