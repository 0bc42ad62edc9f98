SPECIFICATION Spec
CONSTANTS
  u1 = u1  u2 = u2  t1 = t1  t2 = t2  c1 = c1  c2 = c2
  Users <- TwoUsers
  Texts <- TwoTexts
  Clients <- OneClient
  MaxQuestions = 1
  MaxOptions = 0
  MaxSeconds = 1
  MaxVersions = 3
  MaxSnapshots = 2
  MaxStandups = 2
SYMMETRY Interchangeable
CHECK_DEADLOCK FALSE
INVARIANTS StandupAsksTheTeam EditedTeamHasSnapshot
