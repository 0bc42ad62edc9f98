SPECIFICATION Spec
CONSTANTS
  tA = tA
  u1 = u1
  u2 = u2
  NoAnswer = NoAnswer
  Teams = {tA}
  Users = {u1}
  Roster <- SoloRoster
  Starts <- OneStart
  Durations = {1}
  MaxMinute = 2
  Answers = {"a1"}
  Faults <- NoFaults
  Rollbar = {FALSE}
  MaxJobs = 4
  WorkerFaults <- NoFaults
  QueueOption = "slack_interactive"
CHECK_DEADLOCK FALSE
INVARIANTS
  SettledMessages
PROPERTIES
  LinkLostToSubmission
