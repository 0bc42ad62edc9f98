SPECIFICATION AllSpec
CONSTANTS
  u1 = u1  t1 = t1  t2 = t2  c1 = c1  c2 = c2  a = a  b = b
  Users <- OneUser
  Texts <- TwoTexts
  Clients <- TwoClients
  MaxQuestions = 2
  MaxOptions = 2
  MaxSeconds = 0
  MaxVersions = 3
  MaxSnapshots = 0
  MaxStandups = 0
  Durations = {15}
  MaxTeams = 2
  MaxCalls = 3
  MaxVisits = 1
  PageFaults <- PageFaultKinds
  Day = 3
  Offsets <- ThreeOffsets
  FormDays = {1, 6, 7}
  FirstTick = 16
  MaxTick = 26
  MaxChanges = 1
  PageTeams <- TwoTeams
  Ticks <- ThreeTicks
  ItemsPerPage = 2
  MaxPage = 2
  MaxMoves = 2
  ListFaults <- ListFaultKinds
SYMMETRY Interchangeable
CHECK_DEADLOCK FALSE
INVARIANTS
  AllTypeOK
  ListAgrees
  TwinTeams
  StartsOnChosenDays
  PageIsOfUrl
PROPERTIES
  FreshEditIsStored
