SPECIFICATION FairSpec
CONSTANTS
  tA = tA
  u1 = u1
  u2 = u2
  NoAnswer = NoAnswer
  Teams = {tA}
  Users = {u1}
  Roster <- SoloRoster
  Starts <- OneStart
  Durations = {0}
  MaxMinute = 1
  Answers = {"a1", "a2"}
  MaxJobs = 4
  WorkerFaults <- NoFaults
  QueueOption = "undefined"
CHECK_DEADLOCK FALSE
INVARIANTS
  NoStaleAnswers
PROPERTIES
  InteractionsHandled
