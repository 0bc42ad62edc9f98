SPECIFICATION Spec
CONSTANTS
  tA = tA
  tB = tB
  u1 = u1
  u2 = u2
  a1 = a1
  NoAnswer = NoAnswer
  Teams = {tA}
  Users = {u1}
  Roster <- TwiceRoster
  Starts <- TwiceStarts
  Durations = {0, 1}
  MaxMinute = 3
  Answers = {a1}
  Faults <- AllFaults
  Rollbar = {TRUE}
CHECK_DEADLOCK FALSE
INVARIANTS
  TypeOK
  ReportOnTime
  ReportBacked
  LinkAgreesWithReport
  CheckMeansAnswer
  AtMostOneReport
  StartedOnce
  ReportedOnce
