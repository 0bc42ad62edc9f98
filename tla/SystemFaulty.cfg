SPECIFICATION Spec
CONSTANTS
  tA = tA
  u1 = u1
  u2 = u2
  NoAnswer = NoAnswer
  Teams = {tA}
  Users = {u1}
  Roster <- SoloRoster
  Starts <- OneStart
  Durations = {0, 1}
  MaxMinute = 2
  Answers = {"a1"}
  Faults <- SomeFaults
  Rollbar = {FALSE}
  MaxJobs = 2
  WorkerFaults <- SomeWorkerFaults
  QueueOption = "slack_interactive"
CHECK_DEADLOCK FALSE
PROPERTIES
  WorkerIsAsAssumed
  NotifierIsAsAssumed
  ImplementsDaily
  InTimeIsReported
  MissedForGood
