SPECIFICATION Spec
CONSTANTS
  tA = tA
  u1 = u1
  u2 = u2
  NoAnswer = NoAnswer
  Teams = {tA}
  Users = {u1}
  Roster <- SoloRoster
  Starts <- OneStart
  Durations = {0, 1}
  MaxMinute = 3
  Answers = {"a1", "a2"}
  MaxJobs = 3
  WorkerFaults <- AllFaults
  QueueOption = "undefined"
CHECK_DEADLOCK FALSE
INVARIANTS
  TypeOK
  RefusedOnlyBeforeRow
  CheckMeansAnswer
PROPERTIES
  AnswersComeFromOpenDialogs
