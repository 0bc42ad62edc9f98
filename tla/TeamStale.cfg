SPECIFICATION Spec
CONSTANTS
  u1 = u1  u2 = u2  t1 = t1  t2 = t2  c1 = c1  c2 = c2
  Users <- OneUser
  Texts <- OneText
  Clients <- TwoClients
  MaxQuestions = 2
  MaxOptions = 0
  MaxSeconds = 0
  MaxVersions = 4
  MaxSnapshots = 0
  MaxStandups = 0
INVARIANT ActiveTeamAsks
CHECK_DEADLOCK FALSE
