SPECIFICATION FairSpec
CONSTANTS
  tA = tA
  tB = tB
  u1 = u1
  u2 = u2
  a1 = a1
  NoAnswer = NoAnswer
  Teams = {tA, tB}
  Users = {u1, u2}
  Roster <- TeamsRoster
  Starts <- TeamsStarts
  Durations = {1}
  MaxMinute = 2
  Answers = {}
  Faults <- StartFaults
  Rollbar = {TRUE, FALSE}
CHECK_DEADLOCK FALSE
INVARIANTS
  RowsFollowRoster
PROPERTIES
  StartedIsReported
  ReportReachesMessage
  EveryoneGreeted
