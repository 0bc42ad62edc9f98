SPECIFICATION Spec
CONSTANTS
  r1 = r1
  r2 = r2
  c1 = c1
  c2 = c2
  t1 = t1
  t2 = t2
  Nobody = Nobody
  Requests = {r1, r2}
  MaxPages = 2
  TxFaults <- TxFaultKinds
  Channels = {c1, c2}
  Pages <- TwoPages
  MaxEvents = 2
  MaxSyncs = 1
  ChFaults <- ChFaultKinds
  Tabs = {t1, t2}
  MaxLogins = 2
  MaxErrors = 1
  WebFaults <- WebFaultKinds
CHECK_DEADLOCK FALSE
INVARIANTS
  TypeOK
  SubmitIsAtomic
  RowAgrees
  SignedInIsStored
PROPERTIES
  EveryRequestAnswered
  EventsHandled
  LogoutReachesAbout
