----------------------------- MODULE ApiProofs -----------------------------
(***************************************************************************)
(* Theorems about the requests on the one connection and about sign-in and *)
(* session, for any number of requests, pages, tabs and sign-ins and any   *)
(* kinds of failure; and the types of all that MCApi puts together.        *)
(***************************************************************************)
EXTENDS MCApi, ChannelSyncProofs

-----------------------------------------------------------------------------
(* Transactional                                                           *)

(* Whoever runs a method or commits has the connection.                    *)
HolderWorks ==
  \A r \in Requests : stage[r] \in {"method", "commit"} => holder = r

(* What a first attempt commits is all that its method has written.        *)
FirstCommitWrites ==
  \A r \in Requests :
    kind[r] = "submit" /\ stage[r] = "commit" /\ attempt[r] = 0 => wrote

(* The last attempt is used up by the run before its commit.               *)
AttemptsLeft ==
  \A r \in Requests :
    kind[r] # "submit" \/ stage[r] \in {"waiting", "method", "sleep"}
      => attempt[r] \in 0 .. retry - 2

(* A synchronisation that goes on has a page to store.                     *)
PagesLeft ==
  \A r \in Requests :
    kind[r] = "sync" /\ stage[r] \notin Ended => pages[r] > 0

TxIInv ==
  /\ TxTypeOK
  /\ HolderWorks /\ FirstCommitWrites /\ AttemptsLeft /\ PagesLeft
  /\ SubmitIsAtomic

(* The initial states of all requests satisfy the invariant.               *)
LEMMA TxInitIInv == ASSUME TxInit PROVE TxIInv
<1>1. TxTypeOK
  <2>1. stage \in [Requests -> Stages] /\ attempt \in [Requests -> 0 .. retry - 1]
    BY DEF TxInit, Stages, Ended, retry
  <2>2. stored \in [Requests -> Nat]
    BY DEF TxInit
  <2>3. kind \in [Requests -> Kinds] /\ pages \in [Requests -> 0 .. MaxPages]
    BY DEF TxInit
  <2>4. QED BY <2>1, <2>2, <2>3 DEF TxInit, TxTypeOK
<1>2. HolderWorks /\ FirstCommitWrites /\ AttemptsLeft
  BY DEF TxInit, HolderWorks, FirstCommitWrites, AttemptsLeft, retry
<1>3. PagesLeft
  BY DEF TxInit, PagesLeft
<1>4. SubmitIsAtomic
  BY DEF TxInit, SubmitIsAtomic
<1>5. QED BY <1>1, <1>2, <1>3, <1>4 DEF TxIInv

(* The steps of any request: begin, query and wait.                        *)
LEMMA WaitingKeepsIInv ==
  ASSUME TxIInv, NEW r \in Requests, Query(r) \/ Begin(r) \/ GiveUp(r) \/ Wake(r)
  PROVE  TxIInv'
<1> USE TransactionalAssumption
    DEF TxIInv, TxTypeOK, Kinds, Stages, Ended, retry, HolderWorks,
        FirstCommitWrites, AttemptsLeft, PagesLeft, SubmitIsAtomic, Enter
<1>1. CASE Query(r)
  BY <1>1 DEF Query
<1>2. CASE Begin(r)
  <2>1. CASE Enter(r, "method")
    BY <1>2, <2>1 DEF Begin
  <2>2. CASE kind[r] = "submit" /\ "set" \in TxFaults /\ Enter(r, "abandoned")
    BY <1>2, <2>2 DEF Begin
  <2>3. QED
    BY <1>2, <2>1, <2>2 DEF Begin
<1>3. CASE GiveUp(r)
  BY <1>3 DEF GiveUp
<1>4. CASE Wake(r)
  BY <1>4 DEF Wake
<1>5. QED BY <1>1, <1>2, <1>3, <1>4

(* The steps of the decorator.                                             *)
LEMMA SubmitKeepsIInv ==
  ASSUME TxIInv, NEW r \in Requests,
         \/ Run(r) \/ FirstConflict(r) \/ RunFails(r) \/ Rerun(r) \/ RerunFails(r)
         \/ Commit(r) \/ Conflict(r) \/ CommitFails(r)
  PROVE  TxIInv'
<1> USE TransactionalAssumption
    DEF TxIInv, TxTypeOK, Kinds, Stages, Ended, retry, HolderWorks,
        FirstCommitWrites, AttemptsLeft, PagesLeft, SubmitIsAtomic,
        Enter, Release, Submitting
<1>1. CASE Run(r)
  BY <1>1 DEF Run
<1>2. CASE FirstConflict(r)
  <2>1. TxTypeOK'
    <3>1. attempt' \in [Requests -> 0 .. retry - 1]
      BY <1>2 DEF FirstConflict
    <3>2. stage' \in [Requests -> Stages]
      BY <1>2 DEF FirstConflict
    <3>3. QED BY <1>2, <3>1, <3>2 DEF FirstConflict
  <2>2. HolderWorks' /\ FirstCommitWrites'
    BY <1>2 DEF FirstConflict
  <2>3. AttemptsLeft' /\ PagesLeft'
    BY <1>2 DEF FirstConflict
  <2>4. SubmitIsAtomic'
    BY <1>2 DEF FirstConflict
  <2>5. QED BY <2>1, <2>2, <2>3, <2>4
<1>3. CASE RunFails(r)
  BY <1>3 DEF RunFails
<1>4. CASE Rerun(r)
  <2>1. TxTypeOK'
    BY <1>4 DEF Rerun
  <2>2. HolderWorks' /\ FirstCommitWrites'
    BY <1>4 DEF Rerun
  <2>3. AttemptsLeft' /\ PagesLeft'
    BY <1>4 DEF Rerun
  <2>4. SubmitIsAtomic'
    BY <1>4 DEF Rerun
  <2>5. QED BY <2>1, <2>2, <2>3, <2>4
<1>5. CASE RerunFails(r)
  BY <1>5 DEF RerunFails
<1>6. CASE Commit(r)
  <2>1. TxTypeOK'
    <3>1. stored' \in [Requests -> Nat]
      BY <1>6 DEF Commit
    <3>2. stage' \in [Requests -> Stages]
      BY <1>6 DEF Commit
    <3>3. QED BY <1>6, <3>1, <3>2 DEF Commit
  <2>2. HolderWorks' /\ FirstCommitWrites'
    BY <1>6 DEF Commit
  <2>3. AttemptsLeft' /\ PagesLeft'
    BY <1>6 DEF Commit
  <2>4. SubmitIsAtomic'
    BY <1>6 DEF Commit
  <2>5. QED BY <2>1, <2>2, <2>3, <2>4
<1>7. CASE Conflict(r)
  <2>1. TxTypeOK'
    BY <1>7 DEF Conflict
  <2>2. HolderWorks' /\ FirstCommitWrites'
    BY <1>7 DEF Conflict
  <2>3. AttemptsLeft' /\ PagesLeft'
    BY <1>7 DEF Conflict
  <2>4. SubmitIsAtomic'
    BY <1>7 DEF Conflict
  <2>5. QED BY <2>1, <2>2, <2>3, <2>4
<1>8. CASE CommitFails(r)
  <2>1. TxTypeOK'
    <3>1. stored' \in [Requests -> Nat]
      BY <1>8 DEF CommitFails
    <3>2. stage' \in [Requests -> Stages]
      BY <1>8 DEF CommitFails
    <3>3. QED BY <1>8, <3>1, <3>2 DEF CommitFails
  <2>2. HolderWorks' /\ FirstCommitWrites'
    BY <1>8 DEF CommitFails
  <2>3. AttemptsLeft' /\ PagesLeft'
    BY <1>8 DEF CommitFails
  <2>4. SubmitIsAtomic'
    BY <1>8 DEF CommitFails
  <2>5. QED BY <2>1, <2>2, <2>3, <2>4
<1>9. QED BY <1>1, <1>2, <1>3, <1>4, <1>5, <1>6, <1>7, <1>8

(* The steps of updateChannels.                                            *)
LEMMA SyncKeepsIInv ==
  ASSUME TxIInv, NEW r \in Requests, PageUpserts(r) \/ PageFails(r) \/ PageCommit(r)
  PROVE  TxIInv'
<1> USE TransactionalAssumption
    DEF TxIInv, TxTypeOK, Kinds, Stages, Ended, retry, HolderWorks,
        FirstCommitWrites, AttemptsLeft, PagesLeft, SubmitIsAtomic,
        Enter, Release, Syncing
<1>1. CASE PageUpserts(r)
  BY <1>1 DEF PageUpserts
<1>2. CASE PageFails(r)
  BY <1>2 DEF PageFails
<1>3. CASE PageCommit(r)
  <2>0. pages[r] \in 1 .. MaxPages
    BY <1>3 DEF PageCommit
  <2>1. TxTypeOK'
    <3>1. stored' \in [Requests -> Nat]
      BY <1>3 DEF PageCommit
    <3>2. stage' \in [Requests -> Stages]
      BY <1>3 DEF PageCommit
    <3>3. pages' \in [Requests -> 0 .. MaxPages]
      BY <1>3, <2>0 DEF PageCommit
    <3>4. QED BY <1>3, <3>1, <3>2, <3>3 DEF PageCommit
  <2>2. HolderWorks' /\ FirstCommitWrites'
    BY <1>3 DEF PageCommit
  <2>3. AttemptsLeft'
    <3>1. \A q \in Requests \ {r} : stage'[q] = stage[q]
      BY <1>3 DEF PageCommit
    <3>2. attempt' = attempt /\ kind' = kind /\ kind[r] = "sync"
      BY <1>3 DEF PageCommit
    <3>3. QED BY <3>1, <3>2
  <2>4. PagesLeft'
    <3>1. CASE stage' = [stage EXCEPT ![r] = "waiting"]
      BY <1>3, <2>0, <3>1 DEF PageCommit
    <3>2. CASE stage'[r] \in Ended
      BY <1>3, <2>0, <3>2 DEF PageCommit
    <3>3. QED BY <1>3, <3>1, <3>2 DEF PageCommit
  <2>5. SubmitIsAtomic'
    BY <1>3 DEF PageCommit
  <2>6. QED BY <2>1, <2>2, <2>3, <2>4, <2>5
<1>4. QED BY <1>1, <1>2, <1>3

(* Every step preserves the invariant.                                     *)
LEMMA TxNextIInv == ASSUME TxIInv, [TxNext]_txVars PROVE TxIInv'
<1>1. CASE UNCHANGED txVars
  BY <1>1
  DEF txVars, TxIInv, TxTypeOK, HolderWorks, FirstCommitWrites, AttemptsLeft,
      PagesLeft, SubmitIsAtomic
<1>2. CASE TxNext
  BY <1>2, WaitingKeepsIInv, SubmitKeepsIInv, SyncKeepsIInv DEF TxNext, Step
<1>3. QED BY <1>1, <1>2

(* The invariant holds in every reachable state.                           *)
LEMMA TxInvariant == TxSpec => []TxIInv
<1>1. TxIInv /\ [TxNext]_txVars => TxIInv'
  BY TxNextIInv
<1>2. QED BY <1>1, TxInitIInv, PTL DEF TxSpec

(* The requests stay within their types: in particular no submit tries a   *)
(* fifth time, and no synchronisation stores a page it has not fetched.    *)
THEOREM TxTypeCorrect == TxSpec => []TxTypeOK
<1>1. TxIInv => TxTypeOK
  BY DEF TxIInv
<1>2. QED BY <1>1, TxInvariant, PTL

(* A submit is stored once at most, and nothing of it after it was         *)
(* answered, however conflicts, failures and other requests interleave.    *)
THEOREM SubmitIsAtomicHolds == TxSpec => []SubmitIsAtomic
<1>1. TxIInv => SubmitIsAtomic
  BY DEF TxIInv
<1>2. QED BY <1>1, TxInvariant, PTL

-----------------------------------------------------------------------------
(* WebSession                                                              *)

LoginTypes == login \in [Tabs -> Logins] /\ isNew \in [Tabs -> BOOLEAN]

(* A sign-in that waits for the first synchronisation has stored the rows, *)
(* and one that found the workspace has found them.                        *)
LoginsAreBacked ==
  \A t \in Tabs :
    login[t] = "sync" \/ (login[t] = "profile" /\ ~isNew[t]) => known

WebIInv == LoginTypes /\ LoginsAreBacked /\ SignedInIsStored

(* Nobody is signed in at first, and no sign-in is under way.              *)
LEMMA WebInitIInv == ASSUME WebInit PROVE WebIInv
BY DEF WebInit, WebIInv, LoginTypes, Logins, LoginsAreBacked, SignedInIsStored

(* A step that leaves the sign-ins and the rows alone, and makes no session.*)
LEMMA QuietStep ==
  ASSUME WebIInv, UNCHANGED <<known, login, isNew>>, session' => session
  PROVE  WebIInv'
BY DEF WebIInv, LoginTypes, LoginsAreBacked, SignedInIsStored

(* The tab goes to Slack and comes back, or is only redirected.            *)
LEMMA LoginKeepsIInv == ASSUME WebIInv, NEW t \in Tabs, Login(t) PROVE WebIInv'
<1>1. UNCHANGED <<session, known, isNew>> /\ login' \in {login, [login EXCEPT ![t] = "exchange"]}
  BY DEF Login
<1>2. LoginTypes' /\ \A u \in Tabs : login'[u] \in {login[u], "exchange"}
  BY <1>1 DEF WebIInv, LoginTypes, Logins
<1>3. LoginsAreBacked'
  BY <1>1, <1>2 DEF WebIInv, LoginsAreBacked
<1>4. SignedInIsStored'
  BY <1>1 DEF WebIInv, SignedInIsStored
<1>5. QED BY <1>2, <1>3, <1>4 DEF WebIInv

(* The token comes, and the workspace is looked up: it is new when there   *)
(* are no rows.                                                            *)
LEMMA ExchangeKeepsIInv == ASSUME WebIInv, NEW t \in Tabs, Exchange(t) PROVE WebIInv'
<1>1. UNCHANGED <<session, known>>
  BY DEF Exchange
<1>2. \/ login' = [login EXCEPT ![t] = "profile"] /\ isNew' = [isNew EXCEPT ![t] = ~known]
      \/ login' = [login EXCEPT ![t] = "no"] /\ isNew' = isNew
  BY DEF Exchange
<1>3. LoginTypes'
  BY <1>2 DEF WebIInv, LoginTypes, Logins
<1>4. LoginsAreBacked'
  BY <1>1, <1>2 DEF WebIInv, LoginTypes, LoginsAreBacked
<1>5. SignedInIsStored'
  BY <1>1 DEF WebIInv, SignedInIsStored
<1>6. QED BY <1>3, <1>4, <1>5 DEF WebIInv

(* The steps that end a sign-in, or bring it to the synchronisation: the   *)
(* rows are there afterwards, or no session was made.                      *)
LEMMA EndKeepsIInv ==
  ASSUME WebIInv, NEW t \in Tabs, Save(t) \/ SaveFails(t) \/ Synced(t)
  PROVE  WebIInv'
<1>1. CASE Save(t)
  <2>1. known' = TRUE /\ isNew' = [isNew EXCEPT ![t] = FALSE]
        /\ (login' = [login EXCEPT ![t] = "sync"] \/ login' = [login EXCEPT ![t] = "no"])
    BY <1>1 DEF Save, Respond
  <2>2. QED BY <2>1 DEF WebIInv, LoginTypes, Logins, LoginsAreBacked, SignedInIsStored
<1>2. CASE SaveFails(t)
  <2>1. UNCHANGED <<session, known>> /\ login' = [login EXCEPT ![t] = "no"]
        /\ isNew' = [isNew EXCEPT ![t] = FALSE]
    BY <1>2 DEF SaveFails
  <2>2. QED BY <2>1 DEF WebIInv, LoginTypes, Logins, LoginsAreBacked, SignedInIsStored
<1>3. CASE Synced(t)
  <2>1. login[t] = "sync" /\ UNCHANGED <<known, isNew>> /\ login' = [login EXCEPT ![t] = "no"]
    BY <1>3 DEF Synced, Respond
  <2>2. known
    BY <2>1 DEF WebIInv, LoginsAreBacked
  <2>3. QED BY <2>1, <2>2 DEF WebIInv, LoginTypes, Logins, LoginsAreBacked, SignedInIsStored
<1>4. QED BY <1>1, <1>2, <1>3

(* Every step keeps the invariant.                                         *)
LEMMA WebNextKeepsIInv == ASSUME WebIInv, [WebNext]_webVars PROVE WebIInv'
<1>1. CASE UNCHANGED webVars
  BY <1>1, QuietStep DEF webVars
<1>2. CASE Expire
  BY <1>2, QuietStep DEF Expire
<1>3. ASSUME NEW t \in Tabs, Login(t) PROVE WebIInv'
  BY <1>3, LoginKeepsIInv
<1>4. ASSUME NEW t \in Tabs, Reaction(t) PROVE WebIInv'
  <2>1. CASE Exchange(t) BY <2>1, ExchangeKeepsIInv
  <2>2. CASE Save(t) \/ SaveFails(t) \/ Synced(t) BY <2>2, EndKeepsIInv
  <2>3. CASE SessionReply(t) BY <2>3, QuietStep DEF SessionReply, InApp
  <2>4. CASE SessionArrives(t) BY <2>4, QuietStep DEF SessionArrives, InApp
  <2>5. CASE Route(t) BY <2>5, QuietStep DEF Route, InApp
  <2>6. CASE TimerEnds(t) BY <2>6, QuietStep DEF TimerEnds, InApp
  <2>7. CASE LogoutReply(t) BY <2>7, QuietStep DEF LogoutReply, InApp
  <2>8. CASE LogoutArrives(t) BY <2>8, QuietStep DEF LogoutArrives, InApp
  <2>9. QED BY <1>4, <2>1, <2>2, <2>3, <2>4, <2>5, <2>6, <2>7, <2>8 DEF Reaction
<1>5. ASSUME NEW t \in Tabs, NEW u \in {"home", "about"}, Open(t, u) \/ Visit(t, u)
      PROVE WebIInv'
  BY <1>5, QuietStep DEF Open, Visit, InApp
<1>6. ASSUME NEW t \in Tabs, Denied(t) \/ Broken(t) \/ Logout(t) PROVE WebIInv'
  BY <1>6, QuietStep DEF Denied, Broken, Logout, InApp
<1>7. QED BY <1>1, <1>2, <1>3, <1>4, <1>5, <1>6 DEF WebNext

(* Whoever has a session has a row: however sign-ins overlap (authenticate *)
(* comes after persistAndFlush in auth.controller.ts) and whichever fails. *)
THEOREM SignedInIsStoredHolds == WebSpec => []SignedInIsStored
<1>1. WebInit => WebIInv
  BY WebInitIInv
<1>2. WebIInv /\ [WebNext]_webVars => WebIInv'
  BY WebNextKeepsIInv
<1>3. WebIInv => SignedInIsStored
  BY DEF WebIInv
<1>4. QED BY <1>1, <1>2, <1>3, PTL DEF WebSpec

(* A tab whose browser is at Slack has left the application.               *)
AtSlackIsAway == \A t \in Tabs : login[t] # "no" => tab[t] = Away

WebTyped == WebTypeOK /\ AtSlackIsAway

(* The edits of a tab: what each of them leaves of the fields that WebTyped *)
(* speaks of.                                                              *)
LEMMA EditUrl ==
  ASSUME NEW s \in Tab, NEW v \in {"loading", "home", "about", "away"}
  PROVE  /\ [s EXCEPT !.url = v] \in Tab
         /\ [s EXCEPT !.url = v].hidden = s.hidden
         /\ [s EXCEPT !.url = v].ask = s.ask
BY DEF Tab

(* A navigation:                                                           *)
LEMMA EditTarget ==
  ASSUME NEW s \in Tab, NEW v \in {"home", "about", "none"}
  PROVE  /\ [s EXCEPT !.target = v] \in Tab
         /\ [s EXCEPT !.target = v].hidden = s.hidden
         /\ [s EXCEPT !.target = v].ask = s.ask
BY DEF Tab

(* What user$ replays:                                                     *)
LEMMA EditUser ==
  ASSUME NEW s \in Tab, NEW v \in {"unknown", "user", "guest", "error"}
  PROVE  /\ [s EXCEPT !.user = v] \in Tab
         /\ [s EXCEPT !.user = v].hidden = s.hidden
         /\ [s EXCEPT !.user = v].ask = s.ask
BY DEF Tab

(* The request for the session:                                            *)
LEMMA EditAsk ==
  ASSUME NEW s \in Tab, NEW v \in {"no", "sent", "user", "guest", "error"}
  PROVE  /\ [s EXCEPT !.ask = v] \in Tab
         /\ [s EXCEPT !.ask = v].ask = v
         /\ [s EXCEPT !.ask = v].hidden = s.hidden
BY DEF Tab

(* The error text:                                                         *)
LEMMA EditHidden ==
  ASSUME NEW s \in Tab, NEW v \in BOOLEAN
  PROVE  /\ [s EXCEPT !.hidden = v] \in Tab
         /\ [s EXCEPT !.hidden = v].hidden = v
         /\ [s EXCEPT !.hidden = v].ask = s.ask
BY DEF Tab

(* The timer:                                                              *)
LEMMA EditTimer ==
  ASSUME NEW s \in Tab, NEW v \in BOOLEAN
  PROVE  /\ [s EXCEPT !.timer = v] \in Tab
         /\ [s EXCEPT !.timer = v].hidden = s.hidden
         /\ [s EXCEPT !.timer = v].ask = s.ask
BY DEF Tab

(* The request to log out:                                                 *)
LEMMA EditLogout ==
  ASSUME NEW s \in Tab, NEW v \in {"no", "sent", "done", "error"}
  PROVE  /\ [s EXCEPT !.logout = v] \in Tab
         /\ [s EXCEPT !.logout = v].hidden = s.hidden
         /\ [s EXCEPT !.logout = v].ask = s.ask
BY DEF Tab

(* A tab that is hidden does not ask who is signed in.                     *)
Shown(s) == s \in Tab /\ (s.hidden => s.ask = "no")

(* A tab at Slack asks for nothing, and a page that was just loaded shows  *)
(* itself.                                                                 *)
LEMMA AwayIsShown ==
  /\ Shown(Away) /\ Away.url = "away" /\ Away.target = "none" /\ Away.user = "unknown"
  /\ Away.ask = "no" /\ Away.hidden = FALSE /\ Away.timer = FALSE /\ Away.logout = "no"
  /\ \A u \in {"home", "about"} : Shown(Loaded(u))
<1>1. /\ Away.url = "away" /\ Away.target = "none" /\ Away.user = "unknown"
      /\ Away.ask = "no" /\ Away.hidden = FALSE /\ Away.timer = FALSE /\ Away.logout = "no"
  BY DEF Away
<1>2. Away \in Tab
  BY DEF Away, Tab
<1>3. ASSUME NEW u \in {"home", "about"} PROVE Shown(Loaded(u))
  <2>1. PICK a : a = [Away EXCEPT !.url = "loading"]
    OBVIOUS
  <2>2. PICK b : b = [a EXCEPT !.target = u]
    OBVIOUS
  <2>3. Loaded(u) = [b EXCEPT !.ask = "sent"]
    BY <1>1, <1>2, <2>1, <2>2 DEF Loaded, getSession, Tab
  <2>4. a \in Tab /\ a.hidden = FALSE
    BY <1>1, <1>2, <2>1, EditUrl
  <2>5. b \in Tab /\ b.hidden = FALSE
    BY <2>2, <2>4, EditTarget
  <2>6. [b EXCEPT !.ask = "sent"] \in Tab /\ [b EXCEPT !.ask = "sent"].hidden = b.hidden
    BY <2>5, EditAsk
  <2>7. QED
    BY <2>3, <2>5, <2>6 DEF Shown
<1>4. QED
  BY <1>1, <1>2, <1>3 DEF Shown

(* A step that changes one tab.                                            *)
LEMMA TabStep ==
  ASSUME WebTyped, NEW t \in Tabs, NEW s, Shown(s), Becomes(t, s),
         session' \in BOOLEAN, known' \in BOOLEAN, isNew' \in [Tabs -> BOOLEAN],
         login' \in [Tabs -> Logins], \A u \in Tabs : u # t => login'[u] = login[u],
         login'[t] # "no" => s = Away,
         logins' \in 0 .. MaxLogins, errors' \in 0 .. MaxErrors
  PROVE  WebTyped'
<1>1. /\ tab' \in [Tabs -> Tab] /\ tab'[t] = s
      /\ \A u \in Tabs : u # t => tab'[u] = tab[u]
  BY DEF Becomes, WebTyped, WebTypeOK, Shown
<1>2. \A u \in Tabs : tab'[u].hidden => tab'[u].ask = "no"
  BY <1>1 DEF WebTyped, WebTypeOK, Shown
<1>3. AtSlackIsAway'
  BY <1>1 DEF WebTyped, AtSlackIsAway
<1>4. \A u \in Tabs : login'[u] # "no" => tab'[u].url = "away"
  BY <1>3, AwayIsShown DEF AtSlackIsAway
<1>5. QED
  BY <1>1, <1>2, <1>3, <1>4 DEF WebTyped, WebTypeOK

(* The application acts in a tab that is not at Slack.                     *)
LEMMA AppStep ==
  ASSUME WebTyped, NEW t \in Tabs, tab[t] # Away \/ login[t] = "no",
         NEW s, Shown(s), Becomes(t, s), InApp,
         session' \in BOOLEAN, errors' = errors \/ \E k \in WebFaultKinds : Fails(k)
  PROVE  WebTyped'
<1>1. errors' \in 0 .. MaxErrors
  BY WebSessionAssumption DEF WebTyped, WebTypeOK, Fails
<1>2. /\ UNCHANGED <<known, login, isNew, logins>> /\ login[t] = "no"
      /\ known \in BOOLEAN /\ login \in [Tabs -> Logins] /\ isNew \in [Tabs -> BOOLEAN]
      /\ logins \in 0 .. MaxLogins
  BY DEF WebTyped, WebTypeOK, AtSlackIsAway, InApp
<1>3. QED
  BY <1>1, <1>2, TabStep

(* A sign-in goes on, and its tab stays, or comes back to the application. *)
LEMMA SignInStep ==
  ASSUME WebTyped, NEW t \in Tabs, login[t] # "no", NEW l \in Logins,
         login' = [login EXCEPT ![t] = l],
         tab' = tab \/ (l = "no" /\ Becomes(t, Loaded("home"))),
         session' \in BOOLEAN, known' \in BOOLEAN, isNew' \in [Tabs -> BOOLEAN], UNCHANGED logins,
         errors' = errors \/ \E k \in WebFaultKinds : Fails(k)
  PROVE  WebTyped'
<1>1. errors' \in 0 .. MaxErrors /\ logins' \in 0 .. MaxLogins
  BY WebSessionAssumption DEF WebTyped, WebTypeOK, Fails
<1>2. /\ login' \in [Tabs -> Logins] /\ login'[t] = l /\ \A u \in Tabs : u # t => login'[u] = login[u]
      /\ tab[t] = Away /\ tab \in [Tabs -> Tab]
  BY DEF WebTyped, WebTypeOK, AtSlackIsAway
<1>3. CASE tab' = tab
  <2>1. Becomes(t, Away)
    BY <1>2, <1>3 DEF Becomes
  <2>2. QED
    BY <1>1, <1>2, <2>1, AwayIsShown, TabStep
<1>4. CASE l = "no" /\ Becomes(t, Loaded("home"))
  BY <1>1, <1>2, <1>4, AwayIsShown, TabStep
<1>5. QED
  BY <1>3, <1>4

(* The sign-in keeps the types.                                            *)
LEMMA SignInTyped ==
  ASSUME WebTyped, NEW t \in Tabs, Login(t) \/ Exchange(t) \/ Save(t) \/ SaveFails(t) \/ Synced(t)
  PROVE  WebTyped'
<1>1. /\ session \in BOOLEAN /\ known \in BOOLEAN /\ isNew \in [Tabs -> BOOLEAN]
      /\ login \in [Tabs -> Logins] /\ logins \in 0 .. MaxLogins /\ errors \in 0 .. MaxErrors
      /\ \A l \in {"no", "exchange", "profile", "sync"} : l \in Logins
      /\ {"slack", "server"} \subseteq WebFaultKinds
  BY DEF WebTyped, WebTypeOK, Logins, WebFaultKinds
<1>2. CASE Login(t)
  <2>1. /\ UNCHANGED <<session, known, isNew, errors>> /\ logins' \in 0 .. MaxLogins
        /\ login[t] = "no"
        /\ \/ Becomes(t, Loaded("home")) /\ UNCHANGED login
           \/ Becomes(t, Away) /\ login' \in {login, [login EXCEPT ![t] = "exchange"]}
    BY <1>1, <1>2, WebSessionAssumption DEF Login
  <2>2. login' \in [Tabs -> Logins] /\ \A u \in Tabs : u # t => login'[u] = login[u]
    BY <1>1, <2>1
  <2>3. QED
    BY <1>1, <2>1, <2>2, AwayIsShown, TabStep
<1>3. CASE Exchange(t)
  <2>1. PICK l \in {"profile", "no"} : login' = [login EXCEPT ![t] = l]
    BY <1>3 DEF Exchange
  <2>2. /\ UNCHANGED <<session, known, tab, logins>> /\ login[t] # "no" /\ isNew' \in [Tabs -> BOOLEAN]
        /\ errors' = errors \/ Fails("slack")
    BY <1>1, <1>3 DEF Exchange
  <2>3. QED
    BY <1>1, <2>1, <2>2, SignInStep
<1>4. CASE Save(t)
  <2>1. /\ UNCHANGED <<logins, errors>> /\ login[t] # "no" /\ isNew' \in [Tabs -> BOOLEAN]
        /\ known' \in BOOLEAN /\ session' \in BOOLEAN
    BY <1>1, <1>4 DEF Save, Respond
  <2>2. \/ login' = [login EXCEPT ![t] = "sync"] /\ tab' = tab
        \/ login' = [login EXCEPT ![t] = "no"] /\ Becomes(t, Loaded("home"))
    BY <1>4 DEF Save, Respond
  <2>3. QED
    BY <1>1, <2>1, <2>2, SignInStep
<1>5. CASE SaveFails(t)
  <2>1. /\ UNCHANGED <<session, known, tab, logins>> /\ login[t] # "no" /\ isNew' \in [Tabs -> BOOLEAN]
        /\ login' = [login EXCEPT ![t] = "no"]
        /\ errors' = errors \/ Fails("slack") \/ Fails("server")
    BY <1>1, <1>5 DEF SaveFails
  <2>2. QED
    BY <1>1, <2>1, SignInStep
<1>6. CASE Synced(t)
  <2>1. /\ UNCHANGED <<known, isNew, logins>> /\ login[t] # "no" /\ session' \in BOOLEAN
        /\ login' = [login EXCEPT ![t] = "no"]
        /\ \/ Becomes(t, Loaded("home")) /\ errors' = errors
           \/ tab' = tab /\ Fails("slack")
    BY <1>6 DEF Synced, Respond
  <2>2. QED
    BY <1>1, <2>1, SignInStep
<1>7. QED
  BY <1>2, <1>3, <1>4, <1>5, <1>6

(* A page that gives way to the error text stops asking.                   *)
LEMMA HiddenIsShown == ASSUME NEW s \in Tab PROVE Shown(Hidden(s))
<1>1. PICK a : a = [s EXCEPT !.hidden = TRUE]
  OBVIOUS
<1>2. Hidden(s) = [a EXCEPT !.ask = "no"]
  BY <1>1 DEF Hidden, Tab
<1>3. a \in Tab
  BY <1>1, EditHidden
<1>4. [a EXCEPT !.ask = "no"] \in Tab /\ [a EXCEPT !.ask = "no"].ask = "no"
  BY <1>3, EditAsk
<1>5. QED
  BY <1>2, <1>4 DEF Shown

(* A navigation ends on the page that its guard allows, or nowhere.        *)
LEMMA RouteTyped ==
  ASSUME WebTyped, NEW t \in Tabs, Route(t)
  PROVE  WebTyped'
<1>1. tab[t] \in Tab /\ Shown(tab[t]) /\ tab[t].target # "none" /\ session \in BOOLEAN
  BY DEF WebTyped, WebTypeOK, Shown, Route
<1>2. PICK s : s = [tab[t] EXCEPT !.target = "none"]
  OBVIOUS
<1>3. Shown(s)
  BY <1>1, <1>2, EditTarget DEF Shown
<1>4. PICK a : a = [s EXCEPT !.url = Allowed(s)]
  OBVIOUS
<1>5. PICK b : b = [a EXCEPT !.hidden = FALSE]
  OBVIOUS
<1>6. [s EXCEPT !.url = Allowed(s), !.hidden = FALSE] = b
  BY <1>3, <1>4, <1>5 DEF Shown, Tab
<1>7. a \in Tab
  <2>1. Allowed(s) \in {"loading", "home", "about", "away"}
    BY DEF Allowed
  <2>2. QED
    BY <1>3, <1>4, <2>1, EditUrl DEF Shown
<1>8. b \in Tab /\ b.hidden = FALSE
  BY <1>5, <1>7, EditHidden
<1>9. getSession(b) \in Tab /\ getSession(b).hidden = b.hidden
  <2>1. [b EXCEPT !.ask = "sent"] \in Tab /\ [b EXCEPT !.ask = "sent"].hidden = b.hidden
    BY <1>8, EditAsk
  <2>2. QED
    BY <2>1 DEF getSession
<1>10. PICK e \in {s, b, getSession(b)} : Becomes(t, e)
  <2>1. \/ Becomes(t, s)
        \/ Becomes(t, IF s.hidden THEN getSession(b) ELSE b)
    BY <1>2, <1>6 DEF Route
  <2>2. QED
    BY <2>1
<1>11. Shown(e)
  BY <1>3, <1>8, <1>9, <1>10 DEF Shown
<1>12. InApp /\ UNCHANGED <<session, errors>>
  BY DEF Route
<1>13. tab[t] # Away
  BY <1>1, AwayIsShown
<1>14. QED
  BY <1>1, <1>10, <1>11, <1>12, <1>13, AppStep

(* The answer to the request for the session is shown by user$.            *)
LEMMA SessionTyped ==
  ASSUME WebTyped, NEW t \in Tabs, SessionReply(t) \/ SessionArrives(t)
  PROVE  WebTyped'
<1>1. /\ tab[t] \in Tab /\ Shown(tab[t]) /\ session \in BOOLEAN /\ tab[t].ask # "no" /\ tab[t] # Away
      /\ tab[t].hidden = FALSE
  <2>1. tab[t] \in Tab /\ Shown(tab[t]) /\ session \in BOOLEAN /\ tab[t].ask # "no"
    BY DEF WebTyped, WebTypeOK, Shown, SessionReply, SessionArrives
  <2>2. tab[t] # Away
    BY <2>1, AwayIsShown
  <2>3. tab[t].hidden \in BOOLEAN
    BY <2>1 DEF Tab
  <2>4. QED
    BY <2>1, <2>2, <2>3 DEF Shown
<1>2. CASE SessionReply(t)
  <2>1. PICK a \in {"user", "guest", "error"} :
          /\ Becomes(t, [tab[t] EXCEPT !.ask = a])
          /\ errors' = errors \/ Fails("server")
    BY <1>2 DEF SessionReply
  <2>2. Shown([tab[t] EXCEPT !.ask = a])
    <3>1. a \in {"no", "sent", "user", "guest", "error"}
      OBVIOUS
    <3>2. [tab[t] EXCEPT !.ask = a] \in Tab /\ [tab[t] EXCEPT !.ask = a].hidden = tab[t].hidden
      BY <1>1, <3>1, EditAsk
    <3>3. QED
      BY <1>1, <3>2 DEF Shown
  <2>3. InApp /\ UNCHANGED session /\ "server" \in WebFaultKinds
    BY <1>2 DEF SessionReply, WebFaultKinds
  <2>4. QED
    BY <1>1, <2>1, <2>2, <2>3, AppStep
<1>3. CASE SessionArrives(t)
  <2>1. InApp /\ UNCHANGED <<session, errors>>
    BY <1>3 DEF SessionArrives
  <2>2. CASE tab[t].ask = "error"
    <3>1. PICK a : a = [tab[t] EXCEPT !.user = "error"]
      OBVIOUS
    <3>2. [tab[t] EXCEPT !.user = "error", !.target = "none"] = [a EXCEPT !.target = "none"]
      BY <1>1, <3>1 DEF Tab
    <3>3. a \in Tab
      BY <1>1, <3>1, EditUser
    <3>4. [a EXCEPT !.target = "none"] \in Tab
      BY <3>3, EditTarget
    <3>5. Becomes(t, Hidden([a EXCEPT !.target = "none"]))
      BY <1>3, <2>2, <3>2 DEF SessionArrives
    <3>6. QED
      BY <1>1, <2>1, <3>4, <3>5, AppStep, HiddenIsShown
  <2>3. CASE tab[t].ask # "error"
    <3>1. tab[t].ask \in {"user", "guest"}
      BY <1>3, <2>3 DEF SessionArrives
    <3>2. PICK a : a = [tab[t] EXCEPT !.user = tab[t].ask]
      OBVIOUS
    <3>3. [tab[t] EXCEPT !.user = tab[t].ask, !.ask = "no"] = [a EXCEPT !.ask = "no"]
      BY <1>1, <3>2 DEF Tab
    <3>4. a \in Tab
      BY <1>1, <3>1, <3>2, EditUser
    <3>5. Shown([a EXCEPT !.ask = "no"])
      BY <3>4, EditAsk DEF Shown
    <3>6. Becomes(t, [a EXCEPT !.ask = "no"])
      BY <1>3, <2>3, <3>3 DEF SessionArrives
    <3>7. QED
      BY <1>1, <2>1, <3>5, <3>6, AppStep
  <2>4. QED
    BY <2>2, <2>3
<1>4. QED
  BY <1>2, <1>3

(* Links, errors and timers.                                               *)
LEMMA PageTyped ==
  ASSUME WebTyped, NEW t \in Tabs,
         \/ \E u \in {"home", "about"} : Open(t, u) \/ Visit(t, u)
         \/ Denied(t) \/ Broken(t) \/ TimerEnds(t)
  PROVE  WebTyped'
<1>1. tab[t] \in Tab /\ Shown(tab[t]) /\ session \in BOOLEAN /\ "server" \in WebFaultKinds
  BY DEF WebTyped, WebTypeOK, Shown, WebFaultKinds
<1>2. ASSUME NEW u \in {"home", "about"}, Open(t, u) PROVE WebTyped'
  BY <1>1, <1>2, AwayIsShown, AppStep DEF Open
<1>3. ASSUME NEW u \in {"home", "about"}, Visit(t, u) PROVE WebTyped'
  <2>1. /\ tab[t] # Away /\ InApp /\ UNCHANGED <<session, errors>>
        /\ Becomes(t, [tab[t] EXCEPT !.target = u])
    BY <1>3, AwayIsShown DEF Visit
  <2>2. Shown([tab[t] EXCEPT !.target = u])
    <3>1. [tab[t] EXCEPT !.target = u] \in Tab
      BY <1>1, EditTarget
    <3>2. /\ [tab[t] EXCEPT !.target = u].hidden = tab[t].hidden
          /\ [tab[t] EXCEPT !.target = u].ask = tab[t].ask
      BY <1>1, EditTarget
    <3>3. QED
      BY <1>1, <3>1, <3>2 DEF Shown
  <2>3. QED
    BY <1>1, <2>1, <2>2, AppStep
<1>4. CASE Denied(t)
  <2>1. /\ tab[t] # Away /\ InApp /\ UNCHANGED <<session, errors>>
        /\ Becomes(t, [tab[t] EXCEPT !.timer = TRUE])
    BY <1>4, AwayIsShown DEF Denied
  <2>2. Shown([tab[t] EXCEPT !.timer = TRUE])
    BY <1>1, EditTimer DEF Shown
  <2>3. QED
    BY <1>1, <2>1, <2>2, AppStep
<1>5. CASE Broken(t)
  <2>1. tab[t] # Away /\ InApp /\ UNCHANGED session /\ Fails("server") /\ Becomes(t, Hidden(tab[t]))
    BY <1>5, AwayIsShown DEF Broken
  <2>2. QED
    BY <1>1, <2>1, HiddenIsShown, AppStep
<1>6. CASE TimerEnds(t)
  <2>1. /\ tab[t] # Away /\ InApp /\ UNCHANGED <<session, errors>>
        /\ Becomes(t, [tab[t] EXCEPT !.timer = FALSE, !.target = "about"])
    BY <1>6, AwayIsShown DEF TimerEnds
  <2>2. PICK a : a = [tab[t] EXCEPT !.timer = FALSE]
    OBVIOUS
  <2>3. [tab[t] EXCEPT !.timer = FALSE, !.target = "about"] = [a EXCEPT !.target = "about"]
    BY <1>1, <2>2 DEF Tab
  <2>4. Shown(a)
    BY <1>1, <2>2, EditTimer DEF Shown
  <2>5. Shown([a EXCEPT !.target = "about"])
    BY <2>4, EditTarget DEF Shown
  <2>6. QED
    BY <1>1, <2>1, <2>3, <2>5, AppStep
<1>7. QED
  BY <1>2, <1>3, <1>4, <1>5, <1>6

(* The request to log out and its answer.                                  *)
LEMMA LogoutTyped ==
  ASSUME WebTyped, NEW t \in Tabs, Logout(t) \/ LogoutReply(t) \/ LogoutArrives(t)
  PROVE  WebTyped'
<1>1. /\ tab[t] \in Tab /\ Shown(tab[t]) /\ session \in BOOLEAN /\ "server" \in WebFaultKinds
      /\ tab[t] # Away
  <2>1. tab[t] \in Tab /\ Shown(tab[t]) /\ session \in BOOLEAN /\ "server" \in WebFaultKinds
    BY DEF WebTyped, WebTypeOK, Shown, WebFaultKinds
  <2>2. tab[t] # Away
    BY AwayIsShown DEF Logout, LogoutReply, LogoutArrives
  <2>3. QED
    BY <2>1, <2>2
<1>2. ASSUME NEW l \in {"no", "sent", "done", "error"}
      PROVE  Shown([tab[t] EXCEPT !.logout = l])
  BY <1>1, EditLogout DEF Shown
<1>3. CASE Logout(t)
  <2>1. InApp /\ UNCHANGED <<session, errors>> /\ Becomes(t, [tab[t] EXCEPT !.logout = "sent"])
    BY <1>3 DEF Logout, logout
  <2>2. Shown([tab[t] EXCEPT !.logout = "sent"])
    BY <1>2
  <2>3. QED
    BY <1>1, <2>1, <2>2, AppStep
<1>4. CASE LogoutReply(t)
  <2>1. InApp
    BY <1>4 DEF LogoutReply
  <2>2. CASE session' = FALSE /\ Becomes(t, [tab[t] EXCEPT !.logout = "done"]) /\ UNCHANGED errors
    <3>1. Shown([tab[t] EXCEPT !.logout = "done"])
      BY <1>2
    <3>2. QED
      BY <1>1, <2>1, <2>2, <3>1, AppStep
  <2>3. CASE Fails("server") /\ Becomes(t, [tab[t] EXCEPT !.logout = "error"]) /\ UNCHANGED session
    <3>1. Shown([tab[t] EXCEPT !.logout = "error"])
      BY <1>2
    <3>2. QED
      BY <1>1, <2>1, <2>3, <3>1, AppStep
  <2>4. QED
    BY <1>4, <2>2, <2>3 DEF LogoutReply
<1>5. CASE LogoutArrives(t)
  <2>1. InApp /\ UNCHANGED <<session, errors>>
    BY <1>5 DEF LogoutArrives
  <2>2. PICK s : s = [tab[t] EXCEPT !.logout = "no"]
    OBVIOUS
  <2>3. Shown(s) /\ s \in Tab
    BY <1>2, <2>2 DEF Shown
  <2>4. CASE tab[t].logout = "error"
    <3>1. Becomes(t, Hidden(s))
      BY <1>5, <2>2, <2>4 DEF LogoutArrives
    <3>2. QED
      BY <1>1, <2>1, <2>3, <3>1, HiddenIsShown, AppStep
  <2>5. CASE tab[t].logout # "error"
    <3>1. PICK a : a = [s EXCEPT !.target = "about"]
      OBVIOUS
    <3>2. Shown(a)
      BY <2>3, <3>1, EditTarget DEF Shown
    <3>3. PICK v \in {"unknown", "user", "guest", "error"} :
            v = IF s.hidden \/ s.user = "error" THEN s.user ELSE "guest"
      BY <2>3 DEF Tab
    <3>4. Becomes(t, [a EXCEPT !.user = v])
      <4>1. [s EXCEPT !.target = "about",
                      !.user = IF s.hidden \/ @ = "error" THEN @ ELSE "guest"]
              = [a EXCEPT !.user = v]
        BY <2>3, <3>1, <3>3 DEF Tab
      <4>2. QED
        BY <1>5, <2>2, <2>5, <4>1 DEF LogoutArrives
    <3>5. Shown([a EXCEPT !.user = v])
      BY <3>2, EditUser DEF Shown
    <3>6. QED
      BY <1>1, <2>1, <3>4, <3>5, AppStep
  <2>6. QED
    BY <2>4, <2>5
<1>6. QED
  BY <1>3, <1>4, <1>5

(* Every step keeps the types.                                             *)
LEMMA WebNextTyped == ASSUME WebTyped, [WebNext]_webVars PROVE WebTyped'
<1>1. CASE UNCHANGED webVars
  BY <1>1 DEF webVars, WebTyped, WebTypeOK, AtSlackIsAway
<1>2. CASE Expire
  <2>1. session' = FALSE /\ UNCHANGED <<known, login, isNew, tab, logins>>
        /\ errors < MaxErrors /\ errors' = errors + 1
    BY <1>2 DEF Expire, Fails
  <2>2. errors' \in 0 .. MaxErrors
    BY <2>1, WebSessionAssumption DEF WebTyped, WebTypeOK
  <2>3. session' \in BOOLEAN
    BY <2>1
  <2>4. QED
    BY <2>1, <2>2, <2>3 DEF WebTyped, WebTypeOK, AtSlackIsAway
<1>3. ASSUME NEW t \in Tabs, Login(t) \/ Reaction(t) PROVE WebTyped'
  BY <1>3, SignInTyped, SessionTyped, RouteTyped, PageTyped, LogoutTyped DEF Reaction
<1>4. ASSUME NEW t \in Tabs, NEW u \in {"home", "about"}, Open(t, u) \/ Visit(t, u)
      PROVE  WebTyped'
  BY <1>4, PageTyped
<1>5. ASSUME NEW t \in Tabs, Denied(t) \/ Broken(t) \/ Logout(t) PROVE WebTyped'
  BY <1>5, PageTyped, LogoutTyped
<1>6. QED
  BY <1>1, <1>2, <1>3, <1>4, <1>5 DEF WebNext

(* All tabs are away at first.                                             *)
LEMMA WebInitTyped == ASSUME WebInit PROVE WebTyped
<1>1. Away \in Tab /\ 0 \in 0 .. MaxLogins /\ 0 \in 0 .. MaxErrors
  BY AwayIsShown, WebSessionAssumption DEF Shown
<1>2. login \in [Tabs -> Logins] /\ \A t \in Tabs : login[t] = "no"
  BY DEF WebInit, Logins
<1>3. tab \in [Tabs -> Tab] /\ \A t \in Tabs : tab[t] = Away
  BY <1>1 DEF WebInit
<1>4. QED
  BY <1>1, <1>2, <1>3, AwayIsShown DEF WebInit, WebTyped, WebTypeOK, AtSlackIsAway

(* Session, sign-ins and tabs are of their types: in particular a tab that *)
(* is at Slack has left the application, and a page that gave way to the   *)
(* error text does not ask who is signed in.                               *)
THEOREM WebTypeCorrect == WebSpec => []WebTypeOK
<1>1. WebTyped /\ [WebNext]_webVars => WebTyped'
  BY WebNextTyped
<1>2. WebTyped => WebTypeOK
  BY DEF WebTyped
<1>3. QED
  BY <1>1, <1>2, WebInitTyped, PTL DEF WebSpec

-----------------------------------------------------------------------------
(* All of them                                                             *)

(* The parts do not touch each other's variables: each keeps its invariant *)
(* through the steps of the others.                                        *)
PartsInv == TxIInv /\ ChInv /\ WebTyped

(* All parts start within their invariants.                                *)
LEMMA PartsInitInv == ASSUME Init PROVE PartsInv
<1>1. NoRequests => TxIInv
  <2> SUFFICES ASSUME NoRequests PROVE TxIInv
    OBVIOUS
  <2>1. /\ kind \in [Requests -> Kinds] /\ \A r \in Requests : kind[r] = "query"
        /\ stage \in [Requests -> Stages] /\ \A r \in Requests : stage[r] = "resolved"
        /\ attempt \in [Requests -> 0 .. retry - 1] /\ \A r \in Requests : attempt[r] = 0
        /\ stored \in [Requests -> Nat] /\ pages \in [Requests -> 0 .. MaxPages]
    BY TransactionalAssumption DEF NoRequests, Kinds, Stages, Ended, retry
  <2>2. TxTypeOK
    BY <2>1 DEF NoRequests, TxTypeOK
  <2>3. HolderWorks /\ FirstCommitWrites /\ AttemptsLeft /\ PagesLeft /\ SubmitIsAtomic
    BY <2>1 DEF HolderWorks, FirstCommitWrites, AttemptsLeft, PagesLeft, SubmitIsAtomic, retry
  <2>4. QED
    BY <2>2, <2>3 DEF TxIInv
<1>2. NoChannels => ChInv
  BY ChInitInv DEF NoChannels
<1>3. NoSession => WebTyped
  BY WebInitTyped DEF NoSession
<1>4. QED
  BY <1>1, <1>2, <1>3, TxInitIInv, ChInitInv, WebInitTyped DEF Init, PartsInv

(* A step of one part keeps its own invariant and leaves the others'       *)
(* variables alone.                                                        *)
LEMMA PartsNextInv == ASSUME PartsInv, [Next]_vars PROVE PartsInv'
<1>1. TxIInv /\ ChInv /\ WebTyped
  BY DEF PartsInv
<1>2. [TxNext]_txVars /\ [ChNext]_chVars /\ [WebNext]_webVars
  BY DEF Next, Request, Channel, Session, vars, TxNext
<1>3. TxIInv'
  BY <1>1, <1>2, TxNextIInv
<1>4. QED
  BY <1>1, <1>2, <1>3, ChNextInv, WebNextTyped DEF PartsInv

(* Requests, channels and sessions are of their types.                     *)
THEOREM TypeCorrect == Spec => []TypeOK
<1>1. PartsInv /\ [Next]_vars => PartsInv'
  BY PartsNextInv
<1>2. ChInv => ChTypeOK
  BY ChInvTyped
<1>3. PartsInv => TypeOK
  BY <1>2 DEF PartsInv, TxIInv, WebTyped, TypeOK
<1>4. QED
  BY <1>1, <1>3, PartsInitInv, PTL DEF Spec

=============================================================================
