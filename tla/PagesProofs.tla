---------------------------- MODULE PagesProofs ----------------------------
(***************************************************************************)
(* Proofs about the pages of a tab: that of a team's standups, and those   *)
(* of the teams; and about the schedule that the form of a team sets.      *)
(***************************************************************************)
EXTENDS TeamPages, StandupsPage, StandupSchedule, FiniteSetTheorems, TLAPS

-----------------------------------------------------------------------------
(* The page of a team's standups                                           *)

(* A standup that starts after all others of its team leaves them on the   *)
(* pages they are on.                                                      *)
LEMMA LaterKeepsPages ==
  ASSUME NEW starts \in SUBSET Nat, NEW m \in Nat, m \notin starts,
         \A n \in starts : ~(n > m), NEW p
  PROVE  Selected(starts, p) \subseteq Selected(starts \cup {m}, p)
<1> SUFFICES ASSUME NEW x \in starts, x \in Selected(starts, p)
             PROVE  x \in Selected(starts \cup {m}, p)
  BY DEF Selected
<1>1. {n \in starts \cup {m} : n < x} = {n \in starts : n < x}
  OBVIOUS
<1>2. QED
  BY <1>1 DEF Selected

(* What the queries of the list have read so far, and what is shown once   *)
(* nothing is under way, is of the URL's page, but for standups that came  *)
(* in since the first of the queries.                                      *)
OfUrl(items) ==
  /\ news # "between" => items \subseteq Selected(rows[at.team], at.page)
  /\ news = "none" => items = Selected(rows[at.team], at.page)
CountOfUrl(total) == news = "none" => total = Cardinality(rows[at.team])

ReadsAreOfUrl ==
  /\ "find" \in gets.read => OfUrl(gets.items)
  /\ "count" \in gets.read => CountOfUrl(gets.total)
  /\ gets.list = "here" => gets.read = Queries
  /\ gets.list # "here" \/ gets.team # "here"
  /\ gets.list = "no" <=> gets = NoGets

ShownIsOfUrl ==
  gets = NoGets /\ ~over /\ ~hidden =>
    shown.team = at.team /\ OfUrl(shown.items) /\ CountOfUrl(shown.total)

StandupsInv == StandupsTypeOK /\ ReadsAreOfUrl /\ ShownIsOfUrl

Total == Cardinality(Ticks)

(* Numbers of standups and pages stay within their bounds.                 *)
LEMMA Counted ==
  ASSUME NEW S \in SUBSET Ticks
  PROVE  Cardinality(S) \in 0 .. Total
<1>1. IsFiniteSet(Ticks)
  BY StandupsPageAssumption
<1>2. IsFiniteSet(S) /\ Cardinality(S) <= Cardinality(Ticks)
  BY <1>1, FS_Subset
<1>3. Cardinality(S) \in Nat /\ Cardinality(Ticks) \in Nat
  BY <1>1, <1>2, FS_CardinalityType
<1>4. QED
  BY <1>2, <1>3 DEF Total

(* The number of pages is one of a page in the model, and none is without  *)
(* a standup.                                                              *)
LEMMA PagesCounted ==
  ASSUME StandupsTypeOK, NEW p \in 1 .. PageCount
  PROVE  p \in 0 .. MaxPage /\ p \in 0 .. Total
<1>1. /\ shown.total \in 0 .. Total /\ Total \in Nat /\ MaxPage \in Nat
      /\ Total <= MaxPage * ItemsPerPage
  BY StandupsPageAssumption, FS_CardinalityType DEF StandupsTypeOK, Total
<1>2. ASSUME NEW k \in 1 .. 10, ItemsPerPage = k
      PROVE  PageCount <= MaxPage /\ PageCount <= Total
  <2>1. CASE k = 1
    BY <1>1, <1>2, <2>1 DEF PageCount
  <2>2. CASE k = 2
    BY <1>1, <1>2, <2>2 DEF PageCount
  <2>3. CASE k = 3
    BY <1>1, <1>2, <2>3 DEF PageCount
  <2>4. CASE k = 4
    BY <1>1, <1>2, <2>4 DEF PageCount
  <2>5. CASE k = 5
    BY <1>1, <1>2, <2>5 DEF PageCount
  <2>6. CASE k = 6
    BY <1>1, <1>2, <2>6 DEF PageCount
  <2>7. CASE k = 7
    BY <1>1, <1>2, <2>7 DEF PageCount
  <2>8. CASE k = 8
    BY <1>1, <1>2, <2>8 DEF PageCount
  <2>9. CASE k = 9
    BY <1>1, <1>2, <2>9 DEF PageCount
  <2>10. CASE k = 10
    BY <1>1, <1>2, <2>10 DEF PageCount
  <2>11. QED
    BY <2>1, <2>2, <2>3, <2>4, <2>5, <2>6, <2>7, <2>8, <2>9, <2>10
<1>3. PageCount \in Int
  BY <1>1, StandupsPageAssumption DEF PageCount
<1>4. QED
  BY <1>1, <1>2, <1>3, StandupsPageAssumption

(* The queries read what is on the page the URL names.                     *)
LEMMA SelectedIsRead ==
  ASSUME NEW starts \in SUBSET Ticks, NEW p
  PROVE  Selected(starts, p) \in SUBSET Ticks
BY DEF Selected

GetsType ==
  [list : {"no", "sent", "here"}, team : {"no", "sent", "here"},
   read : SUBSET Queries, items : SUBSET Ticks, total : 0 .. Cardinality(Ticks)]
ShownType == [team : PageTeams \cup {"none"}, items : SUBSET Ticks, total : 0 .. Cardinality(Ticks)]

(* No requests, those of a new page, and the empty page.                   *)
LEMMA Constant ==
  /\ 0 \in 0 .. Cardinality(Ticks)
  /\ NoGets \in GetsType /\ Asking \in GetsType /\ Blank \in ShownType
  /\ NoGets.list = "no" /\ NoGets.team = "no" /\ NoGets.read = {}
  /\ Asking.list = "sent" /\ Asking.team = "sent" /\ Asking.read = {} /\ Asking # NoGets
  /\ Blank.total = 0
<1>1. 0 \in 0 .. Cardinality(Ticks)
  <2>1. IsFiniteSet(Ticks)
    BY StandupsPageAssumption
  <2>2. QED
    BY <2>1, FS_CardinalityType
<1>2. getStandups(NoGets) = [list |-> "sent", team |-> "no", read |-> {}, items |-> {}, total |-> 0]
  BY DEF getStandups, NoGets
<1>3. Asking = [list |-> "sent", team |-> "sent", read |-> {}, items |-> {}, total |-> 0]
  BY <1>2 DEF Asking, getTeam
<1>4. Asking \in GetsType
  BY <1>1, <1>3 DEF GetsType
<1>5. NoGets \in GetsType /\ Blank \in ShownType
  BY <1>1 DEF GetsType, ShownType, NoGets, Blank
<1>6. Asking # NoGets
  <2>1. Asking.list # NoGets.list
    BY <1>3 DEF NoGets
  <2>2. QED
    BY <2>1
<1>7. QED
  BY <1>1, <1>3, <1>4, <1>5, <1>6 DEF NoGets, Blank

(* The initial page shows nothing yet and has read nothing.                *)
LEMMA InitStandupsInv == StandupsInit => StandupsInv
<1> SUFFICES ASSUME StandupsInit
             PROVE  StandupsInv
  OBVIOUS
<1>1. StandupsTypeOK
  <2>1. rows \in [PageTeams -> SUBSET Ticks] /\ moves \in 0 .. MaxMoves
    BY StandupsPageAssumption DEF StandupsInit
  <2>2. gets \in GetsType /\ shown \in ShownType /\ current \in 0 .. Cardinality(Ticks)
    BY Constant DEF StandupsInit
  <2>3. QED
    BY <2>1, <2>2 DEF StandupsInit, StandupsTypeOK, GetsType, ShownType
<1>2. ReadsAreOfUrl /\ ShownIsOfUrl
  BY Constant DEF StandupsInit, ReadsAreOfUrl, ShownIsOfUrl
<1>3. QED
  BY <1>1, <1>2 DEF StandupsInv

(* A standup that starts: the page shown, and what was read, may lack it.  *)
LEMMA StandupStartsStep ==
  ASSUME StandupsInv, NEW t \in PageTeams, NEW m \in Ticks, StandupStarts(t, m)
  PROVE  StandupsInv'
<1>1. StandupsTypeOK /\ ReadsAreOfUrl /\ ShownIsOfUrl
  BY DEF StandupsInv
<1>2. StandupsTypeOK'
  BY <1>1 DEF StandupStarts, StandupsTypeOK
<1>3. UNCHANGED <<at, current, gets, shown, over, hidden>>
  BY DEF StandupStarts
<1>4. CASE t # at.team
  <2>1. UNCHANGED <<rows[at.team], news>>
    BY <1>1, <1>4 DEF StandupStarts, StandupsTypeOK
  <2>2. QED
    BY <1>1, <1>2, <1>3, <2>1 DEF StandupsInv, ReadsAreOfUrl, ShownIsOfUrl, OfUrl, CountOfUrl
<1>5. CASE t = at.team
  <2>1. /\ rows'[at.team] = rows[at.team] \cup {m} /\ m \notin rows[at.team]
        /\ rows[at.team] \in SUBSET Nat /\ m \in Nat
        /\ news' # "none"
    BY <1>1, <1>5, StandupsPageAssumption DEF StandupStarts, StandupsTypeOK
  <2>2. ASSUME news' # "between"
        PROVE  news # "between" /\ \A n \in rows[at.team] : ~(n > m)
    BY <1>5, <2>2 DEF StandupStarts
  <2>3. ASSUME NEW items, OfUrl(items), news' # "between"
        PROVE  items \subseteq Selected(rows'[at.team], at.page)
    <3>1. Selected(rows[at.team], at.page) \subseteq Selected(rows[at.team] \cup {m}, at.page)
      BY <2>1, <2>2, <2>3, LaterKeepsPages
    <3>2. QED
      BY <2>1, <2>2, <2>3, <3>1 DEF OfUrl
  <2>4. ReadsAreOfUrl'
    BY <1>1, <1>3, <2>1, <2>3 DEF ReadsAreOfUrl, OfUrl, CountOfUrl
  <2>5. ShownIsOfUrl'
    BY <1>1, <1>3, <2>1, <2>3 DEF ShownIsOfUrl, OfUrl, CountOfUrl
  <2>6. QED
    BY <1>2, <2>4, <2>5 DEF StandupsInv
<1>6. QED
  BY <1>4, <1>5

(* A query of the list.                                                    *)
LEMMA ListReadStep ==
  ASSUME StandupsInv, NEW query \in Queries, ListRead(query)
  PROVE  StandupsInv'
<1>1. StandupsTypeOK /\ ReadsAreOfUrl /\ ShownIsOfUrl
  BY DEF StandupsInv
<1>2. /\ rows[at.team] \in SUBSET Ticks
      /\ Selected(rows[at.team], at.page) \in SUBSET Ticks
      /\ Cardinality(rows[at.team]) \in 0 .. Cardinality(Ticks)
  BY <1>1, SelectedIsRead, Counted DEF StandupsTypeOK, Total
<1>3. /\ gets'.list = "sent" /\ gets'.team = gets.team
      /\ gets'.read = gets.read \cup {query} /\ query \notin gets.read
      /\ gets'.items = IF query = "find" THEN Selected(rows[at.team], at.page) ELSE gets.items
      /\ gets'.total = IF query = "find" THEN gets.total ELSE Cardinality(rows[at.team])
      /\ news' = IF gets.read = {} THEN "none" ELSE news
      /\ UNCHANGED <<rows, at, current, shown, over, hidden, moves>>
  BY <1>1 DEF ListRead, StandupsTypeOK
<1>4. gets' \in GetsType
  BY <1>1, <1>2 DEF ListRead, StandupsTypeOK, GetsType
<1>5. gets # NoGets /\ gets' # NoGets
  BY <1>3, Constant DEF ListRead
<1>6. StandupsTypeOK'
  BY <1>1, <1>3, <1>4, <1>5 DEF StandupsTypeOK, GetsType
<1>7. ReadsAreOfUrl'
  BY <1>1, <1>3, <1>5 DEF ReadsAreOfUrl, OfUrl, CountOfUrl, Queries
<1>8. ShownIsOfUrl'
  BY <1>5 DEF ShownIsOfUrl
<1>9. QED
  BY <1>6, <1>7, <1>8 DEF StandupsInv

(* An answer that arrives, and the page when both are there.               *)
LEMMA ArrivesStep ==
  ASSUME StandupsInv, ListArrives \/ TeamArrives
  PROVE  StandupsInv'
<1>1. StandupsTypeOK /\ ReadsAreOfUrl /\ ShownIsOfUrl
  BY DEF StandupsInv
<1>2. PICK g : /\ Answered(g) /\ gets # NoGets
               /\ \/ g = [gets EXCEPT !.list = "here"] /\ gets.list = "sent" /\ gets.read = Queries
                  \/ g = [gets EXCEPT !.team = "here"] /\ gets.team = "sent"
  BY <1>1 DEF ListArrives, TeamArrives, ReadsAreOfUrl, NoGets
<1>3. /\ g \in [list : {"no", "sent", "here"}, team : {"no", "sent", "here"},
                read : SUBSET Queries, items : SUBSET Ticks, total : 0 .. Cardinality(Ticks)]
      /\ g.items = gets.items /\ g.total = gets.total /\ g.read = gets.read
      /\ g.list = "here" => g.read = Queries
      /\ g.list # "no" /\ g # NoGets
  BY <1>1, <1>2 DEF StandupsTypeOK, ReadsAreOfUrl, NoGets
<1>4. UNCHANGED <<rows, at, current, over, hidden, moves, news>> /\ ~over /\ ~hidden
  BY <1>1, <1>2 DEF ListArrives, TeamArrives, StandupsTypeOK
<1>5. CASE g.list = "here" /\ g.team = "here"
  <2>1. /\ gets' = NoGets
        /\ shown' = [team |-> at.team, items |-> gets.items, total |-> gets.total]
    BY <1>2, <1>3, <1>5 DEF Answered
  <2>2. OfUrl(gets.items) /\ CountOfUrl(gets.total)
    BY <1>1, <1>3, <1>5 DEF ReadsAreOfUrl, Queries
  <2>3. StandupsTypeOK'
    BY <1>1, <1>4, <2>1, Counted DEF StandupsTypeOK, NoGets, Queries, Total
  <2>4. ReadsAreOfUrl'
    BY <2>1 DEF ReadsAreOfUrl, NoGets
  <2>5. ShownIsOfUrl'
    BY <1>4, <2>1, <2>2 DEF ShownIsOfUrl, OfUrl, CountOfUrl
  <2>6. QED
    BY <2>3, <2>4, <2>5 DEF StandupsInv
<1>6. CASE ~(g.list = "here" /\ g.team = "here")
  <2>1. gets' = g /\ UNCHANGED shown
    BY <1>2, <1>6 DEF Answered
  <2>2. StandupsTypeOK'
    BY <1>1, <1>3, <1>4, <2>1 DEF StandupsTypeOK
  <2>3. ReadsAreOfUrl'
    BY <1>1, <1>3, <1>4, <1>6, <2>1 DEF ReadsAreOfUrl, OfUrl, CountOfUrl
  <2>4. ShownIsOfUrl'
    BY <1>3, <2>1 DEF ShownIsOfUrl
  <2>5. QED
    BY <2>2, <2>3, <2>4 DEF StandupsInv
<1>7. QED
  BY <1>5, <1>6

(* A failure, and whatever changes the URL or asks for its page anew.      *)
LEMMA AsksAnewStep ==
  ASSUME StandupsInv,
         \/ GetFails
         \/ \E t \in PageTeams, p \in 0 .. MaxPage : OpenStandups(t, p) \/ GoInHistory(t, p)
         \/ \E p \in 1 .. PageCount : pageChanged(p)
  PROVE  StandupsInv'
<1>1. StandupsTypeOK /\ ReadsAreOfUrl /\ ShownIsOfUrl
  BY DEF StandupsInv
<1>2. gets' \in {NoGets, Asking} =>
        /\ gets' \in GetsType
        /\ ReadsAreOfUrl'
  BY Constant DEF ReadsAreOfUrl
<1>3. CASE GetFails
  <2>1. StandupsTypeOK'
    <3>1. ~over /\ ~hidden /\ gets' = NoGets /\ UNCHANGED <<rows, at, current, moves, news>>
      BY <1>1, <1>3 DEF GetFails, StandupsTypeOK
    <3>2. CASE hidden' = TRUE /\ shown' = Blank /\ UNCHANGED over
      BY <1>1, <3>1, <3>2, Constant DEF StandupsTypeOK, GetsType, ShownType
    <3>3. CASE over' = TRUE /\ UNCHANGED <<shown, hidden>>
      BY <1>1, <3>1, <3>3, Constant DEF StandupsTypeOK, GetsType, ShownType
    <3>4. QED
      BY <1>3, <3>2, <3>3 DEF GetFails
  <2>2. over' \/ hidden'
    BY <1>1, <1>3 DEF GetFails
  <2>3. QED
    BY <1>2, <1>3, <2>1, <2>2 DEF GetFails, StandupsInv, ShownIsOfUrl
<1>4. ASSUME NEW t \in PageTeams, NEW p \in 0 .. MaxPage, OpenStandups(t, p)
      PROVE  StandupsInv'
  <2>1. moves' \in 0 .. MaxMoves /\ at' \in [team : PageTeams, page : 0 .. MaxPage]
    BY <1>1, <1>4, StandupsPageAssumption DEF OpenStandups, MovesTo, StandupsTypeOK
  <2>2. StandupsTypeOK'
    BY <1>1, <1>4, <2>1, Constant DEF OpenStandups, StandupsTypeOK, GetsType, ShownType
  <2>3. QED
    BY <1>2, <1>4, <2>2, Constant DEF OpenStandups, StandupsInv, ShownIsOfUrl
<1>5. ASSUME NEW t \in PageTeams, NEW p \in 0 .. MaxPage, GoInHistory(t, p)
      PROVE  StandupsInv'
  <2>1. moves' \in 0 .. MaxMoves /\ at' \in [team : PageTeams, page : 0 .. MaxPage]
    BY <1>1, <1>5, StandupsPageAssumption DEF GoInHistory, MovesTo, StandupsTypeOK
  <2>2. gets' = IF over THEN NoGets ELSE Asking
    BY <1>5 DEF GoInHistory, Follow
  <2>3. StandupsTypeOK'
    BY <1>1, <1>5, <2>1, <2>2, Constant DEF GoInHistory, StandupsTypeOK, GetsType
  <2>4. QED
    BY <1>2, <1>5, <2>2, <2>3, Constant DEF GoInHistory, StandupsInv, ShownIsOfUrl
<1>6. ASSUME NEW p \in 1 .. PageCount, pageChanged(p)
      PROVE  StandupsInv'
  <2>1. p \in 0 .. MaxPage /\ p \in 0 .. Cardinality(Ticks)
    BY <1>1, PagesCounted DEF Total
  <2>2. UNCHANGED <<rows, shown, over, hidden, news>> /\ current' = p
    BY <1>6 DEF pageChanged
  <2>3. CASE UNCHANGED <<at, gets, moves>>
    BY <1>1, <2>1, <2>2, <2>3
       DEF StandupsInv, StandupsTypeOK, ReadsAreOfUrl, ShownIsOfUrl, OfUrl, CountOfUrl
  <2>4. CASE MovesTo(at.team, p) /\ Follow
    <3>1. at' \in [team : PageTeams, page : 0 .. MaxPage] /\ moves' \in 0 .. MaxMoves
      BY <1>1, <2>1, <2>4, StandupsPageAssumption DEF MovesTo, StandupsTypeOK
    <3>2. gets' = IF over THEN NoGets ELSE Asking
      BY <2>4 DEF Follow
    <3>3. ~hidden
      <4>1. p \in 1 .. ((shown.total + ItemsPerPage - 1) \div ItemsPerPage)
        BY <1>6 DEF PageCount
      <4>2. QED
        BY <1>1, <4>1, StandupsPageAssumption DEF StandupsTypeOK, Blank
    <3>4. StandupsTypeOK'
      BY <1>1, <2>1, <2>2, <3>1, <3>2, <3>3, Constant DEF StandupsTypeOK, GetsType
    <3>5. QED
      BY <1>2, <2>2, <3>2, <3>4, Constant DEF StandupsInv, ShownIsOfUrl
  <2>5. QED
    BY <1>6, <2>3, <2>4 DEF pageChanged
<1>7. QED
  BY <1>3, <1>4, <1>5, <1>6

(* Every step of the notifier, of the requests and of the page keeps the   *)
(* invariant.                                                              *)
LEMMA StandupsInvStep == StandupsInv /\ [StandupsNext]_standupsVars => StandupsInv'
<1> SUFFICES ASSUME StandupsInv, [StandupsNext]_standupsVars
             PROVE  StandupsInv'
  OBVIOUS
<1>1. CASE UNCHANGED standupsVars
  BY <1>1 DEF standupsVars, StandupsInv, StandupsTypeOK, ReadsAreOfUrl, ShownIsOfUrl, OfUrl,
     CountOfUrl
<1>2. QED
  BY <1>1, StandupStartsStep, ListReadStep, ArrivesStep, AsksAnewStep DEF StandupsNext

(* The types of the standups' page.                                        *)
THEOREM StandupsTypeCorrect == StandupsSpec => []StandupsTypeOK
<1>1. StandupsInv => StandupsTypeOK
  BY DEF StandupsInv
<1>2. QED
  BY <1>1, InitStandupsInv, StandupsInvStep, PTL DEF StandupsSpec

(* At rest the page is that of the URL, for every number of standups, of   *)
(* standups on a page, and of navigations.                                 *)
THEOREM PageIsOfUrlHolds == StandupsSpec => []PageIsOfUrl
<1>1. StandupsInv => PageIsOfUrl
  BY DEF StandupsInv, ShownIsOfUrl, PageIsOfUrl, OfUrl, CountOfUrl
<1>2. QED
  BY <1>1, InitStandupsInv, StandupsInvStep, PTL DEF StandupsSpec

-----------------------------------------------------------------------------
(* The pages of the teams: rows and requests                               *)

Durs == Durations \cup {DefaultDuration}
TeamType == [status : teamStatuses, of : Nat, duration : Durs, asked : Durs]

StatusKinds == {"toggle", "move"}
StatusCalls ==
  [kind : StatusKinds, stage : {"sent", "done", "5xx", "offline"},
   team : Nat, status : teamStatuses, load : Nat]
CreateCalls ==
  [kind : {"create"}, stage : CallStages, of : Nat, name : Names, duration : Durs]
CallType == StatusCalls \cup CreateCalls \cup {Over}

(* Rows and requests; a request is about a team or a form there is.        *)
RowsOK ==
  /\ teams \in Seq(TeamType) /\ calls \in Seq(CallType) /\ visits \in Nat
  /\ \A c \in DOMAIN calls :
       /\ calls[c].kind \in StatusKinds => calls[c].team \in TeamIds
       /\ calls[c].kind = "create" => calls[c].of \in 1 .. visits + 1
  /\ OnForm => draft.no = visits + 1

(* What is in a request.                                                   *)
LEMMA CallFields ==
  ASSUME NEW call \in CallType
  PROVE  /\ call.kind \in StatusKinds => call \in StatusCalls
         /\ call.kind = "create" => call \in CreateCalls
         /\ call.kind = "none" => call = Over
         /\ call.kind \in StatusKinds \cup {"create", "none"}
         /\ call.stage \in CallStages \cup {"over"}
         /\ call.stage = "over" <=> call.kind = "none"
BY DEF CallType, StatusCalls, CreateCalls, StatusKinds, Over, CallStages

(* Request c goes on.                                                      *)
Going(c, s) ==
  /\ calls' \in Seq(CallType) /\ DOMAIN calls' = DOMAIN calls
  /\ \A d \in DOMAIN calls : d # c => calls'[d] = calls[d]
  /\ calls'[c].kind = calls[c].kind /\ calls'[c].stage = s
  /\ calls[c].kind \in StatusKinds =>
       /\ calls'[c].team = calls[c].team /\ calls'[c].status = calls[c].status
       /\ calls'[c].load = calls[c].load
  /\ calls[c].kind = "create" =>
       calls'[c].of = calls[c].of /\ calls'[c].name = calls[c].name

(* A call that goes on stays what it is, but for its stage.                *)
LEMMA StageStep ==
  ASSUME calls \in Seq(CallType), NEW c \in DOMAIN calls, NEW s, Stage(c, s),
         \/ calls[c].kind = "create" /\ s \in CallStages
         \/ calls[c].kind \in StatusKinds /\ s \in {"sent", "done", "5xx", "offline"}
  PROVE  Going(c, s)
<1>1. calls[c] \in CallType /\ calls \in [1 .. Len(calls) -> CallType] /\ Len(calls) \in Nat
  OBVIOUS
<1>2. calls' = [calls EXCEPT ![c].stage = s]
  BY DEF Stage
<1>3. CASE calls[c].kind = "create" /\ s \in CallStages
  <2>1. calls[c] \in CreateCalls
    BY <1>1, <1>3, CallFields
  <2>2. [calls[c] EXCEPT !.stage = s] \in CreateCalls
    BY <1>3, <2>1 DEF CreateCalls
  <2>3. calls' \in [1 .. Len(calls) -> CallType]
    BY <1>1, <1>2, <2>2 DEF CallType
  <2>4. calls' \in Seq(CallType)
    BY <1>1, <2>3
  <2>5. calls'[c] = [calls[c] EXCEPT !.stage = s]
    BY <1>1, <1>2
  <2>6. QED
    BY <1>1, <1>2, <1>3, <2>1, <2>4, <2>5 DEF Going, CreateCalls, StatusKinds
<1>4. CASE calls[c].kind \in StatusKinds /\ s \in {"sent", "done", "5xx", "offline"}
  <2>1. calls[c] \in StatusCalls
    BY <1>1, <1>4, CallFields
  <2>2. [calls[c] EXCEPT !.stage = s] \in StatusCalls
    BY <1>4, <2>1 DEF StatusCalls
  <2>3. calls' \in [1 .. Len(calls) -> CallType]
    BY <1>1, <1>2, <2>2 DEF CallType
  <2>4. calls' \in Seq(CallType)
    BY <1>1, <2>3
  <2>5. calls'[c] = [calls[c] EXCEPT !.stage = s]
    BY <1>1, <1>2
  <2>6. QED
    BY <1>1, <1>2, <1>4, <2>1, <2>4, <2>5 DEF Going, StatusCalls, StatusKinds
<1>5. QED
  BY <1>3, <1>4

(* Request c is over.                                                      *)
Ended(c) ==
  /\ calls' \in Seq(CallType) /\ DOMAIN calls' = DOMAIN calls
  /\ \A d \in DOMAIN calls : d # c => calls'[d] = calls[d]
  /\ calls'[c].kind = "none" /\ calls'[c].stage = "over"

(* A call that ends is over; the others stay.                              *)
LEMMA EndsStep ==
  ASSUME calls \in Seq(CallType), NEW c \in DOMAIN calls, Ends(c)
  PROVE  Ended(c)
<1>1. Over \in CallType /\ Over.kind = "none" /\ Over.stage = "over"
  BY DEF CallType, Over
<1>2. /\ calls \in [1 .. Len(calls) -> CallType] /\ Len(calls) \in Nat
      /\ calls' = [calls EXCEPT ![c] = Over]
  BY DEF Ends
<1>3. calls' \in [1 .. Len(calls) -> CallType]
  BY <1>1, <1>2
<1>4. calls' \in Seq(CallType)
  BY <1>2, <1>3
<1>5. QED
  BY <1>1, <1>2, <1>4 DEF Ended

(* A request is sent.                                                      *)
SentLast(call) ==
  /\ calls' \in Seq(CallType) /\ Len(calls) + 1 \notin DOMAIN calls
  /\ DOMAIN calls' = DOMAIN calls \cup {Len(calls) + 1}
  /\ \A d \in DOMAIN calls : calls'[d] = calls[d]
  /\ calls'[Len(calls) + 1] = call

(* A call that is sent comes last; the others stay.                        *)
LEMMA SendStep ==
  ASSUME calls \in Seq(CallType), NEW call \in CallType, SendCall(call)
  PROVE  SentLast(call)
<1>1. calls' = Append(calls, call) /\ Len(calls) \in Nat /\ DOMAIN calls = 1 .. Len(calls)
  BY DEF SendCall
<1>2. calls' \in Seq(CallType) /\ Len(calls') = Len(calls) + 1
  BY <1>1
<1>3. DOMAIN calls' = 1 .. Len(calls) + 1
  BY <1>1, <1>2
<1>4. QED
  BY <1>1, <1>2, <1>3 DEF SentLast

(* A team gets another status.                                             *)
StatusSet(t, s) ==
  /\ teams' \in Seq(TeamType) /\ TeamIds' = TeamIds
  /\ \A u \in TeamIds :
       /\ teams'[u].of = teams[u].of /\ teams'[u].duration = teams[u].duration
       /\ teams'[u].asked = teams[u].asked
       /\ teams'[u].status = IF u = t THEN s ELSE teams[u].status

(* The answer to a switch changes the status of one row.                   *)
LEMMA StatusSetStep ==
  ASSUME teams \in Seq(TeamType), NEW t \in TeamIds, NEW s \in teamStatuses,
         teams' = [teams EXCEPT ![t].status = s]
  PROVE  StatusSet(t, s)
<1>1. teams \in [1 .. Len(teams) -> TeamType] /\ Len(teams) \in Nat /\ TeamIds = 1 .. Len(teams)
  BY DEF TeamIds
<1>2. teams[t] \in TeamType
  BY <1>1
<1>3. [teams[t] EXCEPT !.status = s] \in TeamType
  BY <1>2 DEF TeamType
<1>4. teams' \in [1 .. Len(teams) -> TeamType]
  BY <1>1, <1>3
<1>5. teams' \in Seq(TeamType) /\ TeamIds' = TeamIds
  BY <1>1, <1>4 DEF TeamIds
<1>6. ASSUME NEW u \in TeamIds
      PROVE  /\ teams'[u].of = teams[u].of /\ teams'[u].duration = teams[u].duration
             /\ teams'[u].asked = teams[u].asked
             /\ teams'[u].status = IF u = t THEN s ELSE teams[u].status
  <2>1. CASE u = t
    <3>1. teams'[u] = [teams[t] EXCEPT !.status = s]
      BY <1>1, <2>1
    <3>2. QED
      BY <1>2, <2>1, <3>1 DEF TeamType
  <2>2. CASE u # t
    BY <1>1, <2>2
  <2>3. QED
    BY <2>1, <2>2
<1>7. QED
  BY <1>5, <1>6 DEF StatusSet

(* A team is created.                                                      *)
TeamAdded(call) ==
  /\ teams' \in Seq(TeamType) /\ Len(teams) + 1 \notin TeamIds
  /\ Len(teams') = Len(teams) + 1
  /\ TeamIds' = TeamIds \cup {Len(teams) + 1}
  /\ \A u \in TeamIds : teams'[u] = teams[u]
  /\ teams'[Len(teams) + 1] =
       [status |-> TEAM_STATUS_ACTIVATED, duration |-> DefaultDuration, of |-> call.of,
        asked |-> call.duration]

(* createTeam adds one row, of the form that asked for it.                 *)
LEMMA TeamAddedStep ==
  ASSUME teams \in Seq(TeamType), NEW call \in CreateCalls, teams' = TeamStored(call)
  PROVE  TeamAdded(call)
<1> DEFINE row == [status |-> TEAM_STATUS_ACTIVATED, duration |-> DefaultDuration,
                   of |-> call.of, asked |-> call.duration]
<1>1. row \in TeamType
  BY DEF TeamType, CreateCalls, teamStatuses, Durs
<1>2. teams' = Append(teams, row)
  BY DEF TeamStored
<1> HIDE DEF row
<1>3. teams' \in Seq(TeamType) /\ Len(teams') = Len(teams) + 1 /\ Len(teams) \in Nat
  BY <1>1, <1>2
<1>4. TeamIds = 1 .. Len(teams) /\ TeamIds' = 1 .. Len(teams) + 1
  BY <1>3 DEF TeamIds
<1>5. (\A u \in TeamIds : teams'[u] = teams[u]) /\ teams'[Len(teams) + 1] = row
  BY <1>1, <1>2, <1>4
<1>6. QED
  BY <1>3, <1>4, <1>5 DEF TeamAdded, row

(* The requests that change a team are about teams there are.              *)
LEMMA TouchedTeams ==
  RowsOK => /\ Touched \subseteq TeamIds
            /\ Changes = {c \in DOMAIN calls :
                 calls[c].kind \in StatusKinds /\ calls[c].stage # "over"}
            /\ \A c \in Changes : calls[c] \in StatusCalls
            /\ \A c \in Creates : calls[c] \in CreateCalls
<1> SUFFICES ASSUME RowsOK
             PROVE  /\ Touched \subseteq TeamIds
                    /\ Changes = {c \in DOMAIN calls :
                         calls[c].kind \in StatusKinds /\ calls[c].stage # "over"}
                    /\ \A c \in Changes : calls[c] \in StatusCalls
                    /\ \A c \in Creates : calls[c] \in CreateCalls
  OBVIOUS
<1>1. \A c \in DOMAIN calls : calls[c] \in CallType
  BY DEF RowsOK
<1>2. ASSUME NEW c \in DOMAIN calls
      PROVE  /\ c \in Changes <=> calls[c].kind \in StatusKinds /\ calls[c].stage # "over"
             /\ calls[c].kind \in StatusKinds => calls[c] \in StatusCalls
             /\ calls[c].kind = "create" => calls[c] \in CreateCalls
  <2>1. calls[c] \in CallType
    BY <1>1
  <2>2. calls[c].kind \in StatusKinds => calls[c] \in StatusCalls
    BY <2>1, CallFields
  <2>3. calls[c] \in StatusCalls => calls[c].stage # "failed" /\ calls[c].stage # "over"
    BY DEF StatusCalls
  <2>4. QED
    BY <2>1, <2>2, <2>3, CallFields DEF Changes, UnderWay, StatusKinds
<1>3. \A c \in Changes : c \in DOMAIN calls
  BY DEF Changes, UnderWay
<1>4. Touched \subseteq TeamIds
  BY <1>2, <1>3 DEF Touched, RowsOK
<1>5. QED
  BY <1>2, <1>3, <1>4 DEF Creates

(* A step of the list's request leaves rows and requests alone.            *)
LEMMA FetchRows ==
  ASSUME RowsOK, TeamsRead \/ TeamsArrive \/ TeamsFail
  PROVE  RowsOK' /\ (OnForm' => OnForm /\ draft'.no = draft.no)
<1>1. UNCHANGED <<teams, calls, visits, url>>
  BY DEF TeamsRead, TeamsArrive, TeamsFail
<1>2. OnForm' => OnForm /\ draft' = draft
  BY DEF TeamsRead, TeamsArrive, TeamsFail, Breaks, OnForm
<1>3. RowsOK'
  BY <1>1, <1>2 DEF RowsOK, TeamIds
<1>4. QED
  BY <1>2, <1>3

(* So does another page, which gives a new form its number.                *)
LEMMA GoRows ==
  ASSUME RowsOK, NEW u \in Lists \cup {"form"}, Go(u)
  PROVE  RowsOK'
<1>1. UNCHANGED <<teams, calls>> /\ visits' = visits + 1
  BY DEF Go
<1>2. OnForm' => draft' \in Forms(visits' + 1)
  BY DEF Go, Opened, OnForm
<1>3. OnForm' => draft'.no = visits' + 1
  BY <1>2 DEF Forms
<1>4. QED
  BY <1>1, <1>3 DEF RowsOK, TeamIds

(* A request for another status.                                           *)
LEMMA StatusCallRows ==
  ASSUME PageTypeOK, RowsOK, NEW t \in DOMAIN list, Toggle(t) \/ Move(t)
  PROVE  /\ RowsOK'
         /\ \E kind \in StatusKinds, s \in teamStatuses :
              /\ SentLast([kind |-> kind, stage |-> "sent", team |-> t, status |-> s,
                           load |-> loads])
              /\ kind = "move" => Move(t)
              /\ kind = "toggle" => Toggle(t)
<1>1. PICK kind \in StatusKinds, s \in teamStatuses :
        /\ StatusCall(kind, t, s)
        /\ kind = "move" => Move(t)
        /\ kind = "toggle" => Toggle(t)
  BY DEF Toggle, Move, StatusKinds, teamStatuses
<1> DEFINE call == [kind |-> kind, stage |-> "sent", team |-> t, status |-> s, load |-> loads]
<1>2. t \in TeamIds /\ TeamIds \subseteq Nat
  BY DEF PageTypeOK, RowsOK, TeamIds
<1>3. call \in StatusCalls
  BY <1>2 DEF StatusCalls, PageTypeOK
<1>4. SendCall(call)
  BY <1>1 DEF StatusCall, updateStatus
<1>5. call.kind = kind /\ call.team = t
  OBVIOUS
<1> HIDE DEF call
<1>6. SentLast(call)
  BY <1>3, <1>4, SendStep DEF RowsOK, CallType
<1>7. UNCHANGED <<teams, visits, url, broken, draft>>
  BY <1>1 DEF StatusCall
<1>8. RowsOK'
  BY <1>2, <1>5, <1>6, <1>7 DEF RowsOK, SentLast, TeamIds, OnForm, StatusKinds
<1>9. QED
  BY <1>1, <1>6, <1>8 DEF call

(* The server answers one, or fails, and may have carried it out.          *)
LEMMA StatusReplyRows ==
  ASSUME RowsOK, NEW c \in DOMAIN calls, StatusReply(c), PageFaults \subseteq PageFaultKinds
  PROVE  /\ RowsOK'
         /\ calls[c] \in StatusCalls /\ calls[c].stage = "sent" /\ c \in Changes
         /\ \E s \in {"done", "5xx", "offline"} :
              /\ Going(c, s)
              /\ \/ UNCHANGED teams /\ s # "done"
                 \/ StatusSet(calls[c].team, calls[c].status)
<1>1. /\ calls[c] \in StatusCalls /\ calls[c].kind \in StatusKinds /\ calls[c].stage = "sent"
      /\ calls[c].team \in TeamIds /\ calls[c].status \in teamStatuses
      /\ teams \in Seq(TeamType) /\ calls \in Seq(CallType) /\ c \in Changes
  BY TouchedTeams DEF StatusReply, RowsOK, StatusCalls
<1>2. PICK s \in {"done", "5xx", "offline"} :
        /\ Stage(c, s)
        /\ \/ UNCHANGED teams /\ s # "done"
           \/ teams' = [teams EXCEPT ![calls[c].team].status = calls[c].status]
  <2>1. CASE /\ Stage(c, "done")
             /\ teams' = [teams EXCEPT ![calls[c].team].status = calls[c].status]
    BY <2>1
  <2>2. ASSUME NEW f \in PageFaults, Stage(c, f),
               \/ UNCHANGED teams
               \/ teams' = [teams EXCEPT ![calls[c].team].status = calls[c].status]
        PROVE  \E s \in {"done", "5xx", "offline"} :
                 /\ Stage(c, s)
                 /\ \/ UNCHANGED teams /\ s # "done"
                    \/ teams' = [teams EXCEPT ![calls[c].team].status = calls[c].status]
    <3>1. f \in {"5xx", "offline"}
      BY DEF PageFaultKinds
    <3>2. QED
      BY <2>2, <3>1
  <2>3. QED
    BY <2>1, <2>2 DEF StatusReply
<1>3. Going(c, s)
  BY <1>1, <1>2, StageStep
<1>4. (UNCHANGED teams /\ s # "done") \/ StatusSet(calls[c].team, calls[c].status)
  BY <1>1, <1>2, StatusSetStep
<1>5. teams' \in Seq(TeamType) /\ TeamIds' = TeamIds
  BY <1>1, <1>4 DEF StatusSet, TeamIds
<1>6. UNCHANGED <<visits, url, broken, draft>>
  BY DEF StatusReply
<1>7. RowsOK'
  BY <1>1, <1>3, <1>5, <1>6 DEF RowsOK, Going, OnForm, StatusKinds
<1>8. QED
  BY <1>1, <1>3, <1>4, <1>7

(* The answer of a request arrives, or a failure.                          *)
LEMMA EndRows ==
  ASSUME RowsOK, NEW c \in DOMAIN calls,
         Toggled(c) \/ Moved(c) \/ Created(c) \/ Refused(c) \/ CallFails(c)
  PROVE  /\ RowsOK'
         /\ \/ Ended(c)
            \/ Going(c, "failed") /\ c \in Creates /\ CallFails(c) /\ calls[c] \in CreateCalls
         /\ UNCHANGED <<teams, visits>>
         /\ OnForm' => OnForm /\ draft'.no = draft.no
<1>1. UNCHANGED <<teams, visits>>
  BY DEF Toggled, Moved, Created, Refused, CallFails, SendCall
<1>2. \/ Ended(c)
      \/ Going(c, "failed") /\ c \in Creates /\ CallFails(c) /\ calls[c] \in CreateCalls
  <2>1. CASE Ends(c)
    BY <2>1, EndsStep DEF RowsOK
  <2>2. CASE Stage(c, "failed") /\ c \in Creates /\ CallFails(c)
    BY <2>2, StageStep, TouchedTeams DEF RowsOK, Creates, CallStages
  <2>3. QED
    BY <2>1, <2>2 DEF Toggled, Moved, Created, Refused, CallFails
<1>3. calls' \in Seq(CallType) /\ DOMAIN calls' = DOMAIN calls
      /\ \A d \in DOMAIN calls :
           \/ calls'[d] = calls[d] \/ calls'[d].kind = "none"
           \/ calls'[d].kind = "create" /\ calls[d].kind = "create" /\ calls'[d].of = calls[d].of
  BY <1>2 DEF Ended, Going, Creates
<1>4. OnForm' => OnForm /\ draft'.no = draft.no
  <2>1. CASE UNCHANGED <<url, broken, draft>>
    BY <2>1 DEF OnForm
  <2>2. CASE Breaks
    BY <2>2 DEF Breaks, OnForm
  <2>3. CASE Created(c)
    BY <2>3 DEF Created, Opened, OnForm, Lists
  <2>4. CASE Refused(c)
    <3>1. UNCHANGED <<url, broken>>
      BY <2>4 DEF Refused
    <3>2. draft'.no = draft.no
      BY <2>4 DEF Refused
    <3>3. QED
      BY <3>1, <3>2 DEF OnForm
  <2>5. \/ /\ UNCHANGED url
           /\ Toggled(c) \/ Moved(c) \/ CallFails(c) => UNCHANGED <<broken, draft>> \/ Breaks
        \/ Created(c) \/ Refused(c)
    BY DEF Toggled, Moved, CallFails
  <2>6. QED
    BY <2>1, <2>2, <2>3, <2>4, <2>5
<1>5. \A d \in DOMAIN calls :
        /\ calls'[d].kind \in StatusKinds => calls'[d].team \in TeamIds
        /\ calls'[d].kind = "create" => calls'[d].of \in 1 .. visits + 1
  BY <1>3 DEF RowsOK, StatusKinds
<1>6. RowsOK'
  BY <1>1, <1>3, <1>4, <1>5 DEF RowsOK, TeamIds
<1>7. QED
  BY <1>1, <1>2, <1>4, <1>6

(* Editing and saving the form.                                            *)
LEMMA EditRows ==
  ASSUME PageTypeOK, RowsOK, NEW name \in Names, EditForm(name)
  PROVE  /\ RowsOK' /\ UNCHANGED <<teams, calls, visits>>
         /\ OnForm' => OnForm /\ draft'.no = draft.no
<1>1. UNCHANGED <<teams, calls, visits, url, broken>> /\ draft'.no = draft.no
  BY DEF EditForm, PageTypeOK
<1>2. QED
  BY <1>1 DEF RowsOK, TeamIds, OnForm

(* Saving the form sends one call that names it.                           *)
LEMMA SaveRows ==
  ASSUME PageTypeOK, RowsOK, SaveForm
  PROVE  /\ RowsOK'
         /\ \E call \in CreateCalls :
              /\ call.stage = "sent" /\ call.kind = "create"
              /\ call.of = draft.no /\ call.of = visits + 1
              /\ SentLast(call)
<1> DEFINE call == [kind |-> "create", stage |-> "sent", of |-> draft.no,
                    name |-> draft.name, duration |-> draft.duration]
<1>1. OnForm /\ draft.no = visits + 1 /\ visits \in Nat
  BY DEF SaveForm, RowsOK
<1>2. call \in CreateCalls
  BY <1>1 DEF CreateCalls, CallStages, PageTypeOK, Durs
<1>3. SendCall(call)
  BY DEF SaveForm, createTeam
<1>4. call.stage = "sent" /\ call.kind = "create" /\ call.of = draft.no
  OBVIOUS
<1> HIDE DEF call
<1>5. SentLast(call)
  BY <1>2, <1>3, SendStep DEF RowsOK, CallType
<1>6. UNCHANGED <<teams, visits, url, broken, draft>>
  BY DEF SaveForm
<1>7. RowsOK'
  BY <1>1, <1>4, <1>5, <1>6 DEF RowsOK, SentLast, TeamIds, OnForm, StatusKinds
<1>8. QED
  BY <1>1, <1>2, <1>4, <1>5, <1>7

(* The server refuses a new team, fails, or creates it.                    *)
LEMMA CreateReplyRows ==
  ASSUME RowsOK, NEW c \in DOMAIN calls, CreateReply(c), PageFaults \subseteq PageFaultKinds
  PROVE  /\ RowsOK'
         /\ calls[c] \in CreateCalls /\ calls[c].stage = "sent" /\ c \in Creates
         /\ \/ /\ \E s \in {"invalid", "5xx", "offline"} : Going(c, s)
               /\ UNCHANGED <<teams, doubtful>>
            \/ /\ \E s \in {"done", "5xx", "offline"} : Going(c, s)
               /\ TeamAdded(calls[c])
               /\ doubtful' = IF url \in Lists /\ fetch # "sent"
                                THEN doubtful \cup {Len(teams) + 1} ELSE doubtful
<1>1. /\ calls[c] \in CreateCalls /\ calls[c].kind = "create" /\ calls[c].stage = "sent"
      /\ teams \in Seq(TeamType) /\ calls \in Seq(CallType) /\ c \in Creates
  BY TouchedTeams DEF CreateReply, RowsOK, CreateCalls
<1>2. ASSUME NEW s \in {"invalid", "done", "5xx", "offline"}, Stage(c, s)
      PROVE  Going(c, s)
  BY <1>1, <1>2, StageStep DEF CallStages
<1>3. PageFaults \subseteq {"5xx", "offline"}
  BY DEF PageFaultKinds
<1>4. ASSUME teams' = TeamStored(calls[c])
      PROVE  TeamAdded(calls[c])
  BY <1>1, <1>4, TeamAddedStep
<1>5. \/ /\ \E s \in {"invalid", "5xx", "offline"} : Going(c, s)
         /\ UNCHANGED <<teams, doubtful>>
      \/ /\ \E s \in {"done", "5xx", "offline"} : Going(c, s)
         /\ TeamAdded(calls[c])
         /\ doubtful' = IF url \in Lists /\ fetch # "sent"
                          THEN doubtful \cup {Len(teams) + 1} ELSE doubtful
  <2>1. CASE Stage(c, "invalid") /\ UNCHANGED <<teams, doubtful>>
    BY <1>2, <2>1
  <2>2. CASE \E f \in PageFaults : Stage(c, f) /\ UNCHANGED <<teams, doubtful>>
    BY <1>2, <1>3, <2>2
  <2>3. CASE /\ \E s \in {"done"} \cup PageFaults : Stage(c, s)
             /\ teams' = TeamStored(calls[c])
             /\ doubtful' = IF url \in Lists /\ fetch # "sent"
                              THEN doubtful \cup {Len(teams')} ELSE doubtful
    <3>1. TeamAdded(calls[c])
      BY <1>4, <2>3
    <3>2. QED
      BY <1>2, <1>3, <2>3, <3>1 DEF TeamAdded
  <2>4. QED
    BY <2>1, <2>2, <2>3 DEF CreateReply
<1>6. /\ teams' \in Seq(TeamType) /\ TeamIds \subseteq TeamIds'
      /\ \E s : Going(c, s)
  BY <1>1, <1>5 DEF TeamAdded, TeamIds
<1>7. UNCHANGED <<visits, url, broken, draft>>
  BY DEF CreateReply
<1>8. RowsOK'
  BY <1>1, <1>6, <1>7 DEF RowsOK, Going, OnForm, StatusKinds
<1>9. QED
  BY <1>1, <1>5, <1>8

(* The types of the requests are what RowsOK says of them.                 *)
LEMMA CallsTyped ==
  RowsOK => \A c \in DOMAIN calls : calls[c] # Over =>
              /\ calls[c].kind \in CallKinds /\ calls[c].stage \in CallStages
              /\ calls[c].stage = "invalid" => calls[c].kind = "create"
<1> SUFFICES ASSUME RowsOK, NEW c \in DOMAIN calls, calls[c] # Over
             PROVE  /\ calls[c].kind \in CallKinds /\ calls[c].stage \in CallStages
                    /\ calls[c].stage = "invalid" => calls[c].kind = "create"
  OBVIOUS
<1>1. calls[c] \in StatusCalls \/ calls[c] \in CreateCalls
  BY DEF RowsOK, CallType
<1>2. QED
  BY <1>1 DEF StatusCalls, CreateCalls, StatusKinds, CallKinds, CallStages

(* The rest of PageTypeOK.                                                 *)
PageTyped ==
  /\ \A t \in TeamIds : teams[t].of \in 0 .. visits + 1
  /\ url \in Lists \cup {"form"} /\ broken \in BOOLEAN
  /\ DOMAIN list \subseteq TeamIds
  /\ \A t \in DOMAIN list : list[t] \in [status : teamStatuses, on : BOOLEAN]
  /\ list # Nothing \/ fetch # "no" => url \in Lists /\ ~broken
  /\ fetch \in {"no", "sent", "read", "dead"} /\ DOMAIN read \subseteq TeamIds
  /\ loads \in Nat
  /\ draft \in [no : 0 .. visits + 1, name : Names, duration : Durs, marked : BOOLEAN]
  /\ again \subseteq 1 .. visits + 1 /\ doubtful \subseteq TeamIds

(* What is read of the teams, see ListAgrees.                              *)
ReadTyped == \A t \in DOMAIN read : read[t] \in teamStatuses

TypeInv == RowsOK /\ PageTyped /\ ReadTyped

(* TypeInv implies the types TLC checks.                                   *)
LEMMA TypesArePageTypes == TypeInv => PageTypeOK
<1> SUFFICES ASSUME TypeInv
             PROVE  PageTypeOK
  OBVIOUS
<1>1. \A t \in TeamIds : teams[t] \in
        [status : teamStatuses, of : 0 .. visits + 1,
         duration : Durations \cup {DefaultDuration}, asked : Durations \cup {DefaultDuration}]
  <2>1. \A t \in TeamIds : teams[t] \in TeamType
    BY DEF TypeInv, RowsOK, TeamIds
  <2>2. QED
    BY <2>1 DEF TypeInv, PageTyped, TeamType, Durs
<1>2. QED
  BY <1>1, CallsTyped DEF TypeInv, PageTyped, PageTypeOK, Durs

(* A form, and the record when there is none, up to form n.                *)
DraftType(n) == [no : 0 .. n, name : Names, duration : Durs, marked : BOOLEAN]

(* Every form a visit can fill in is of its type and number.               *)
LEMMA DraftTyped ==
  ASSUME NEW n \in Nat
  PROVE  /\ NoDraft \in DraftType(n) /\ NoDraft.no = 0
         /\ \A form \in Forms(n) : form \in DraftType(n) /\ form.no = n
<1>1. NoDraft \in DraftType(n) /\ NoDraft.no = 0
  BY DEF NoDraft, DraftType, Names, Durs
<1>2. ASSUME NEW form \in Forms(n)
      PROVE  form \in DraftType(n) /\ form.no = n
  <2>1. form \in [no : {n}, name : {"good"}, duration : Durations, marked : {FALSE}]
    BY DEF Forms
  <2>2. PICK d \in Durations :
          form = [no |-> n, name |-> "good", duration |-> d, marked |-> FALSE]
    BY <2>1
  <2>3. QED
    BY <2>2 DEF DraftType, Names, Durs
<1>3. QED
  BY <1>1, <1>2

(* The initial state has the right types.                                  *)
LEMMA InitTypeInv == PageInit => TypeInv
<1> SUFFICES ASSUME PageInit
             PROVE  TypeInv
  OBVIOUS
<1>1. /\ teams \in Seq(TeamType)
      /\ \A t \in TeamIds : teams[t].of = 0
  <2>1. CASE teams = <<>>
    BY <2>1 DEF TeamIds
  <2>2. ASSUME NEW s \in teamStatuses,
               teams = <<[status |-> s, of |-> 0, duration |-> DefaultDuration,
                          asked |-> DefaultDuration]>>
        PROVE  /\ teams \in Seq(TeamType)
               /\ \A t \in TeamIds : teams[t].of = 0
    BY <2>2 DEF TeamIds, TeamType, Durs
  <2>3. QED
    BY <2>1, <2>2 DEF PageInit
<1>2. draft \in DraftType(1) /\ draft.no = IF url = "form" THEN 1 ELSE 0
  BY DraftTyped DEF PageInit
<1>3. RowsOK
  BY <1>1, <1>2 DEF PageInit, RowsOK, OnForm, TeamIds
<1>4. visits = 0 /\ 0 .. visits + 1 = 0 .. 1
  BY DEF PageInit
<1>5. DOMAIN list = {} /\ DOMAIN read = {}
  BY DEF PageInit, Nothing
<1>6. PageTyped
  <2>1. draft \in [no : 0 .. visits + 1, name : Names, duration : Durs, marked : BOOLEAN]
    BY <1>2, <1>4 DEF DraftType
  <2>2. \A t \in TeamIds : teams[t].of \in 0 .. visits + 1
    BY <1>1, <1>4
  <2>3. QED
    BY <1>5, <2>1, <2>2 DEF PageInit, PageTyped, Lists
<1>7. QED
  BY <1>3, <1>5, <1>6 DEF TypeInv, ReadTyped

(* A page that opens has the types, whatever was there before.             *)
LEMMA OpenedTyped ==
  ASSUME TypeInv, RowsOK', NEW u \in Lists \cup {"form"}, Opened(u),
         visits' \in {visits, visits + 1}, UNCHANGED <<teams, loads, again>>
  PROVE  PageTyped' /\ ReadTyped'
<1>1. Touched \subseteq TeamIds
  BY TouchedTeams DEF TypeInv
<1>2. url' = u /\ broken' = FALSE /\ list' = Nothing /\ read' = Nothing
      /\ fetch' = (IF u \in Lists THEN "sent" ELSE "no") /\ doubtful' = Touched
  BY DEF Opened, getTeams
<1>3. draft' \in [no : 0 .. visits' + 1, name : Names, duration : Durs, marked : BOOLEAN]
  <2>1. visits' + 1 \in Nat
    <3>1. visits' \in Nat
      BY Zenon DEF RowsOK
    <3>2. \A n \in Nat : n + 1 \in Nat
      OBVIOUS
    <3>3. QED
      BY <3>1, <3>2, Zenon
  <2>2. draft' \in DraftType(visits' + 1)
    BY <2>1, DraftTyped DEF Opened
  <2>3. QED
    BY <2>2 DEF DraftType
<1>4. DOMAIN list' = {} /\ DOMAIN read' = {}
  BY <1>2 DEF Nothing
<1>5. /\ \A t \in TeamIds' : teams'[t].of \in 0 .. visits' + 1
      /\ again' \subseteq 1 .. visits' + 1
  <2>1. 0 .. visits + 1 \subseteq 0 .. visits' + 1 /\ 1 .. visits + 1 \subseteq 1 .. visits' + 1
    <3>1. visits \in Nat
      BY DEF TypeInv, RowsOK
    <3>2. CASE visits' = visits
      BY <3>2
    <3>3. CASE visits' = visits + 1
      BY <3>1, <3>3
    <3>4. QED
      BY <3>2, <3>3
  <2>2. QED
    BY <2>1 DEF TypeInv, PageTyped, TeamIds
<1>6. UNCHANGED TeamIds
  BY DEF TeamIds
<1>7. QED
  BY <1>1, <1>2, <1>3, <1>4, <1>5, <1>6 DEF TypeInv, PageTyped, ReadTyped

(* So has the error text that takes the place of a page.                   *)
LEMMA BreaksTyped ==
  ASSUME TypeInv, Breaks, UNCHANGED <<teams, url, loads, visits, again>>,
         doubtful' \subseteq TeamIds
  PROVE  PageTyped' /\ ReadTyped'
<1>1. broken' = TRUE /\ fetch' = "no" /\ DOMAIN list' = {} /\ DOMAIN read' = {}
      /\ list' = Nothing
  BY DEF Breaks, Nothing
<1>2. draft' \in [no : 0 .. visits' + 1, name : Names, duration : Durs, marked : BOOLEAN]
  BY DEF Breaks, NoDraft, Names, Durs, TypeInv, RowsOK
<1>3. QED
  BY <1>1, <1>2 DEF TypeInv, PageTyped, ReadTyped, TeamIds

(* Every step keeps the types.                                             *)
LEMMA TypeInvStep ==
  ASSUME TypeInv, PageNext
  PROVE  TypeInv'
<1>1. PageTypeOK /\ RowsOK /\ PageTyped /\ ReadTyped
  BY TypesArePageTypes DEF TypeInv
<1>2. PageFaults \subseteq PageFaultKinds
  BY TeamPagesAssumption
<1>3. ASSUME NEW u \in Lists \cup {"form"}, Go(u)
      PROVE  TypeInv'
  <2>1. RowsOK'
    BY <1>1, <1>3, GoRows
  <2>2. Opened(u) /\ visits' \in {visits, visits + 1} /\ UNCHANGED <<teams, loads, again>>
    BY <1>3 DEF Go
  <2>3. QED
    BY <2>1, <2>2, OpenedTyped DEF TypeInv
<1>4. CASE TeamsRead
  <2>1. RowsOK'
    BY <1>1, <1>4, FetchRows
  <2>2. DOMAIN read' \subseteq TeamIds /\ \A t \in DOMAIN read' : read'[t] = teams[t].status
    BY <1>4 DEF TeamsRead
  <2>3. \A t \in TeamIds : teams[t].status \in teamStatuses
    BY <1>1 DEF PageTypeOK
  <2>4. /\ fetch' = "read" /\ fetch = "sent"
        /\ UNCHANGED <<teams, url, broken, list, loads, draft, visits, again, doubtful>>
    BY <1>4 DEF TeamsRead
  <2>5. PageTyped' /\ ReadTyped'
    BY <1>1, <2>2, <2>3, <2>4 DEF PageTyped, ReadTyped, TeamIds
  <2>6. QED
    BY <2>1, <2>5 DEF TypeInv
<1>5. CASE TeamsArrive
  <2>1. RowsOK'
    BY <1>1, <1>5, FetchRows
  <2>2. /\ list' = [t \in DOMAIN read |->
                      [status |-> read[t], on |-> read[t] = TEAM_STATUS_ACTIVATED]]
        /\ fetch' = "no" /\ fetch = "read" /\ loads' = loads + 1 /\ read' = Nothing
        /\ UNCHANGED <<teams, url, broken, draft, visits, again, doubtful>>
    BY <1>5 DEF TeamsArrive
  <2>3. \A t \in DOMAIN list' : list'[t] \in [status : teamStatuses, on : BOOLEAN]
    <3>1. SUFFICES ASSUME NEW t \in DOMAIN read
                   PROVE  list'[t] \in [status : teamStatuses, on : BOOLEAN]
      BY <2>2
    <3>2. PICK on \in BOOLEAN : on = (read[t] = TEAM_STATUS_ACTIVATED)
      OBVIOUS
    <3>3. list'[t] = [status |-> read[t], on |-> on]
      BY <2>2, <3>2
    <3>4. QED
      BY <1>1, <3>3 DEF ReadTyped
  <2>4. DOMAIN list' = DOMAIN read /\ DOMAIN read' = {}
    BY <2>2 DEF Nothing
  <2>5. PageTyped' /\ ReadTyped'
    BY <1>1, <2>2, <2>3, <2>4 DEF PageTyped, ReadTyped, TeamIds
  <2>6. QED
    BY <2>1, <2>5 DEF TypeInv
<1>6. CASE TeamsFail
  <2>1. RowsOK'
    BY <1>1, <1>6, FetchRows
  <2>2. UNCHANGED <<teams, url, loads, calls, visits, again, doubtful>> /\ fetch = "sent"
    BY <1>6 DEF TeamsFail
  <2>3. CASE Breaks
    BY <1>1, <2>1, <2>2, <2>3, BreaksTyped DEF TypeInv, PageTyped
  <2>4. CASE fetch' = "dead" /\ UNCHANGED <<broken, list, read, draft>>
    BY <1>1, <2>1, <2>2, <2>4 DEF TypeInv, PageTyped, ReadTyped, TeamIds
  <2>5. QED
    BY <1>6, <2>3, <2>4 DEF TeamsFail
<1>7. ASSUME NEW t \in DOMAIN list, Toggle(t) \/ Move(t)
      PROVE  TypeInv'
  <2>1. RowsOK'
    BY <1>1, <1>7, StatusCallRows
  <2>2. /\ UNCHANGED <<teams, url, broken, loads, fetch, read, draft, visits, again>>
        /\ doubtful' \subseteq doubtful \cup {t}
    BY <1>7 DEF Toggle, Move, StatusCall
  <2>3. t \in TeamIds /\ list # Nothing
    BY <1>1 DEF PageTyped, Nothing
  <2>4. /\ DOMAIN list' = DOMAIN list
        /\ \A u \in DOMAIN list' : list'[u] \in [status : teamStatuses, on : BOOLEAN]
    <3>1. CASE Move(t)
      BY <1>1, <3>1 DEF Move, PageTyped
    <3>2. CASE Toggle(t)
      <4>1. list[t] \in [status : teamStatuses, on : BOOLEAN]
        BY <1>1 DEF PageTyped
      <4>2. PICK on \in BOOLEAN : on = ~list[t].on
        BY <4>1
      <4>3. list' = [list EXCEPT ![t] = [list[t] EXCEPT !.on = on]]
        BY <3>2, <4>2 DEF Toggle
      <4>4. [list[t] EXCEPT !.on = on] \in [status : teamStatuses, on : BOOLEAN]
        BY <4>1
      <4>5. QED
        BY <1>1, <4>3, <4>4 DEF PageTyped
    <3>3. QED
      BY <1>7, <3>1, <3>2
  <2>5. PageTyped' /\ ReadTyped'
    BY <1>1, <2>2, <2>3, <2>4 DEF PageTyped, ReadTyped, TeamIds
  <2>6. QED
    BY <2>1, <2>5 DEF TypeInv
<1>8. ASSUME NEW c \in DOMAIN calls, StatusReply(c)
      PROVE  TypeInv'
  <2>1. RowsOK' /\ (UNCHANGED teams \/ StatusSet(calls[c].team, calls[c].status))
    BY <1>1, <1>2, <1>8, StatusReplyRows
  <2>2. UNCHANGED <<url, broken, list, loads, fetch, read, draft, visits, again, doubtful>>
    BY <1>8 DEF StatusReply
  <2>3. TeamIds' = TeamIds /\ \A t \in TeamIds : teams'[t].of = teams[t].of
    BY <2>1 DEF StatusSet, TeamIds
  <2>4. PageTyped' /\ ReadTyped'
    BY <1>1, <2>2, <2>3 DEF PageTyped, ReadTyped
  <2>5. QED
    BY <2>1, <2>4 DEF TypeInv
<1>9. ASSUME NEW c \in DOMAIN calls, CreateReply(c)
      PROVE  TypeInv'
  <2>1. RowsOK'
    BY <1>1, <1>2, <1>9, CreateReplyRows
  <2>2. UNCHANGED <<url, broken, list, loads, fetch, read, draft, visits, again>>
    BY <1>9 DEF CreateReply
  <2>3. \/ UNCHANGED <<teams, doubtful>>
        \/ TeamAdded(calls[c]) /\ doubtful' \subseteq doubtful \cup {Len(teams) + 1}
    BY <1>1, <1>2, <1>9, CreateReplyRows
  <2>4. calls[c].of \in 1 .. visits + 1
    BY <1>1, <1>9 DEF CreateReply, Creates, RowsOK
  <2>5. /\ TeamIds \subseteq TeamIds' /\ doubtful' \subseteq TeamIds'
        /\ \A t \in TeamIds' : teams'[t].of \in 0 .. visits + 1
    <3>1. CASE UNCHANGED <<teams, doubtful>>
      BY <1>1, <3>1 DEF PageTyped, TeamIds
    <3>2. CASE TeamAdded(calls[c]) /\ doubtful' \subseteq doubtful \cup {Len(teams) + 1}
      BY <1>1, <2>4, <3>2 DEF PageTyped, TeamAdded
    <3>3. QED
      BY <2>3, <3>1, <3>2
  <2>6. PageTyped' /\ ReadTyped'
    BY <1>1, <2>2, <2>5 DEF PageTyped, ReadTyped
  <2>7. QED
    BY <2>1, <2>6 DEF TypeInv
<1>10. ASSUME NEW c \in DOMAIN calls,
              Toggled(c) \/ Moved(c) \/ Created(c) \/ Refused(c) \/ CallFails(c)
       PROVE  TypeInv'
  <2>1. RowsOK' /\ UNCHANGED <<teams, visits>> /\ UNCHANGED TeamIds
    BY <1>1, <1>10, EndRows DEF TeamIds
  <2>2. Touched \subseteq TeamIds /\ (c \notin Creates /\ calls[c].stage \in PageFaultKinds =>
                                        calls[c].team \in TeamIds)
    <3>1. calls[c] \in CallType
      BY <1>1 DEF RowsOK
    <3>2. c \notin Creates /\ calls[c].stage \in PageFaultKinds => calls[c].kind \in StatusKinds
      BY <3>1, CallFields DEF Creates, PageFaultKinds
    <3>3. QED
      BY <1>1, <3>2, TouchedTeams DEF RowsOK
  <2>3. Touched' \subseteq TeamIds'
    <3>1. (RowsOK => Touched \subseteq TeamIds)'
      BY TouchedTeams, PTL
    <3>2. QED
      BY <2>1, <3>1
  <2>4. CASE Toggled(c)
    <3>1. UNCHANGED <<url, broken, loads, fetch, read, draft, again, doubtful>>
      BY <2>4 DEF Toggled
    <3>2. CASE UNCHANGED list
      BY <1>1, <2>1, <3>1, <3>2 DEF TypeInv, PageTyped, ReadTyped
    <3>3. CASE /\ list # Nothing
               /\ list' = [list EXCEPT ![calls[c].team] =
                    [status |-> calls[c].status, on |-> calls[c].status = TEAM_STATUS_ACTIVATED]]
      <4>1. PICK on \in BOOLEAN : on = (calls[c].status = TEAM_STATUS_ACTIVATED)
        OBVIOUS
      <4>2. calls[c].status \in teamStatuses
        <5>1. calls[c] \in CallType /\ calls[c].kind \in StatusKinds
          BY <1>1, <2>4 DEF RowsOK, Toggled, StatusKinds
        <5>2. QED
          BY <5>1, CallFields DEF StatusCalls
      <4>3. [status |-> calls[c].status, on |-> on] \in [status : teamStatuses, on : BOOLEAN]
        BY <4>2
      <4>4. list' = [list EXCEPT ![calls[c].team] = [status |-> calls[c].status, on |-> on]]
        BY <3>3, <4>1
      <4>5. /\ DOMAIN list' = DOMAIN list
            /\ \A t \in DOMAIN list' : list'[t] \in [status : teamStatuses, on : BOOLEAN]
        BY <1>1, <4>3, <4>4 DEF PageTyped
      <4>6. QED
        BY <1>1, <2>1, <3>1, <3>3, <4>5 DEF TypeInv, PageTyped, ReadTyped
    <3>4. QED
      BY <2>4, <3>2, <3>3 DEF Toggled, SamePage
  <2>5. CASE Moved(c)
    <3>1. UNCHANGED <<url, broken, list, loads, draft, again>>
      BY <2>5 DEF Moved
    <3>2. CASE UNCHANGED <<fetch, read, doubtful>>
      BY <1>1, <2>1, <3>1, <3>2 DEF TypeInv, PageTyped, ReadTyped
    <3>3. CASE SamePage(c) /\ getTeams /\ doubtful' = Touched'
      <4>1. list # Nothing /\ fetch' = "sent" /\ DOMAIN read' = {}
        BY <3>3 DEF SamePage, getTeams, Nothing
      <4>2. QED
        BY <1>1, <2>1, <2>3, <3>1, <3>3, <4>1 DEF TypeInv, PageTyped, ReadTyped
    <3>4. QED
      BY <2>5, <3>2, <3>3 DEF Moved
  <2>6. CASE Created(c)
    <3>1. UNCHANGED <<loads, again>>
      BY <2>6 DEF Created
    <3>2. CASE Opened("teams")
      BY <2>1, <3>1, <3>2, OpenedTyped DEF TypeInv, Lists
    <3>3. CASE UNCHANGED <<url, broken, list, fetch, read, draft, doubtful>>
      BY <1>1, <2>1, <3>1, <3>3 DEF TypeInv, PageTyped, ReadTyped
    <3>4. QED
      BY <2>6, <3>2, <3>3 DEF Created
  <2>7. CASE Refused(c)
    <3>1. UNCHANGED <<url, broken, list, loads, fetch, read, again, doubtful>>
      BY <2>7 DEF Refused
    <3>2. PICK m \in BOOLEAN : m = (draft.marked \/ (OnForm /\ draft.no = calls[c].of))
      OBVIOUS
    <3>3. draft' = [draft EXCEPT !.marked = m]
      BY <2>7, <3>2 DEF Refused
    <3>4. draft' \in [no : 0 .. visits + 1, name : Names, duration : Durs, marked : BOOLEAN]
      BY <1>1, <3>3 DEF PageTyped
    <3>5. QED
      BY <1>1, <2>1, <3>1, <3>4 DEF TypeInv, PageTyped, ReadTyped
  <2>8. CASE CallFails(c)
    <3>1. UNCHANGED <<url, loads, again>> /\ calls[c].stage \in PageFaultKinds
      BY <2>8 DEF CallFails
    <3>2. doubtful' \subseteq TeamIds
      BY <1>1, <2>2, <2>8, <3>1 DEF CallFails, PageTyped
    <3>3. CASE Breaks
      BY <2>1, <3>1, <3>2, <3>3, BreaksTyped DEF TypeInv
    <3>4. CASE UNCHANGED <<broken, list, fetch, read, draft>>
      BY <1>1, <2>1, <3>1, <3>2, <3>4 DEF TypeInv, PageTyped, ReadTyped
    <3>5. QED
      BY <2>8, <3>3, <3>4 DEF CallFails
  <2>9. QED
    BY <1>10, <2>4, <2>5, <2>6, <2>7, <2>8
<1>11. ASSUME NEW name \in Names, EditForm(name)
       PROVE  TypeInv'
  <2>1. RowsOK' /\ UNCHANGED <<teams, visits>>
    BY <1>1, <1>11, EditRows
  <2>2. draft' \in [no : 0 .. visits + 1, name : Names, duration : Durs, marked : BOOLEAN]
    BY <1>1, <1>11 DEF EditForm, PageTyped
  <2>3. UNCHANGED <<url, broken, list, loads, fetch, read, again, doubtful>>
    BY <1>11 DEF EditForm
  <2>4. QED
    BY <1>1, <2>1, <2>2, <2>3 DEF TypeInv, PageTyped, ReadTyped, TeamIds
<1>12. CASE SaveForm
  <2>1. RowsOK'
    BY <1>1, <1>12, SaveRows
  <2>2. UNCHANGED <<teams, url, broken, list, loads, fetch, read, draft, visits, doubtful>>
    BY <1>12 DEF SaveForm
  <2>3. again' \subseteq 1 .. visits + 1
    <3>1. draft.no = visits + 1 /\ visits \in Nat
      BY <1>1, <1>12 DEF SaveForm, RowsOK
    <3>2. again' \subseteq again \cup {draft.no}
      BY <1>12 DEF SaveForm
    <3>3. again \subseteq 1 .. visits + 1
      BY <1>1 DEF PageTyped
    <3>4. QED
      BY <3>1, <3>2, <3>3
  <2>4. QED
    BY <1>1, <2>1, <2>2, <2>3 DEF TypeInv, PageTyped, ReadTyped, TeamIds
<1>13. QED
  BY <1>3, <1>4, <1>5, <1>6, <1>7, <1>8, <1>9, <1>10, <1>11, <1>12 DEF PageNext

-----------------------------------------------------------------------------
(* A form that is saved once                                               *)

(* A team whose form is still open was answered for, or will be.           *)
FormsAnswered ==
  OnForm => \A t \in TeamIds : teams[t].of = draft.no =>
    \E c \in Creates : calls[c].of = draft.no /\ calls[c].stage \in {"done", "5xx", "offline", "failed"}

(* Of two requests of a form, and of one it makes when it has a team, the  *)
(* form knows.                                                             *)
SavedAgain ==
  \A c \in Creates : calls[c].stage = "sent" =>
    /\ \A d \in Creates :
         d # c /\ calls[d].stage = "sent" /\ calls[d].of = calls[c].of => calls[c].of \in again
    /\ \A t \in TeamIds : teams[t].of = calls[c].of => calls[c].of \in again

TwinInv == TypeInv /\ FormsAnswered /\ SavedAgain /\ TwinTeams

(* The initial state has no form, and no team of one.                      *)
LEMMA InitTwinInv == PageInit => TwinInv
<1>1. ASSUME PageInit
      PROVE  /\ \A t, u \in TeamIds : t = u
             /\ \A t \in TeamIds : teams[t].of = 0
             /\ DOMAIN calls = {} /\ visits = 0
  BY <1>1 DEF PageInit, TeamIds
<1>2. PageInit => FormsAnswered /\ SavedAgain /\ TwinTeams
  BY <1>1, InitTypeInv DEF FormsAnswered, SavedAgain, TwinTeams, Creates, TypeInv, RowsOK
<1>3. QED
  BY <1>2, InitTypeInv DEF TwinInv

(* A step that neither makes teams nor sends or answers forms.             *)
LEMMA QuietTwins ==
  ASSUME TwinInv, UNCHANGED again, UNCHANGED TeamIds,
         \A t \in TeamIds : teams'[t].of = teams[t].of,
         Creates' = Creates, \A c \in Creates : calls'[c] = calls[c],
         OnForm' => \/ OnForm /\ draft'.no = draft.no
                    \/ draft'.no = visits' + 1 /\ visits' = visits + 1
  PROVE  FormsAnswered' /\ SavedAgain' /\ TwinTeams'
<1>1. SavedAgain' /\ TwinTeams'
  BY DEF TwinInv, SavedAgain, TwinTeams
<1>2. CASE OnForm' /\ OnForm /\ draft'.no = draft.no
  BY <1>1, <1>2 DEF TwinInv, FormsAnswered
<1>3. CASE draft'.no = visits' + 1 /\ visits' = visits + 1
  <2>1. \A t \in TeamIds : teams[t].of \in 0 .. visits + 1 /\ visits \in Nat
    BY DEF TwinInv, TypeInv, PageTyped, RowsOK
  <2>2. \A t \in TeamIds : teams'[t].of # draft'.no
    BY <1>3, <2>1
  <2>3. QED
    BY <1>1, <2>2 DEF FormsAnswered
<1>4. QED
  BY <1>1, <1>2, <1>3 DEF FormsAnswered

(* The server answers a form, and makes its team or not.                   *)
LEMMA CreateReplyTwins ==
  ASSUME TwinInv, NEW c \in DOMAIN calls, CreateReply(c)
  PROVE  FormsAnswered' /\ SavedAgain' /\ TwinTeams'
<1>1. PageFaults \subseteq PageFaultKinds
  BY TeamPagesAssumption
<1>2. /\ FormsAnswered /\ SavedAgain /\ TwinTeams /\ RowsOK
      /\ c \in Creates /\ calls[c].stage = "sent" /\ calls[c].kind = "create"
  BY <1>1, CreateReplyRows DEF TwinInv, TypeInv, Creates
<1>3. UNCHANGED <<again, url, broken, draft>>
  BY DEF CreateReply
<1>4. PICK s \in {"invalid", "done", "5xx", "offline"} :
        /\ Going(c, s)
        /\ \/ UNCHANGED teams
           \/ TeamAdded(calls[c]) /\ s # "invalid"
  BY <1>1, <1>2, CreateReplyRows
<1>5. /\ Creates' = Creates
      /\ \A d \in Creates :
           /\ calls'[d].of = calls[d].of
           /\ d # c => calls'[d] = calls[d]
      /\ calls'[c].stage = s
  BY <1>2, <1>4 DEF Going, Creates
<1>6. CASE UNCHANGED teams
  BY <1>2, <1>3, <1>5, <1>6 DEF FormsAnswered, SavedAgain, TwinTeams, TeamIds, OnForm
<1>7. CASE TeamAdded(calls[c]) /\ s # "invalid"
  <2>1. PICK n : /\ n \notin TeamIds /\ TeamIds' = TeamIds \cup {n}
                 /\ teams'[n].of = calls[c].of
                 /\ \A t \in TeamIds : teams'[t] = teams[t]
    BY <1>7 DEF TeamAdded
  <2>2. FormsAnswered'
    BY <1>2, <1>3, <1>5, <1>7, <2>1 DEF FormsAnswered, OnForm
  <2>3. TwinTeams'
    BY <1>2, <1>3, <2>1 DEF SavedAgain, TwinTeams
  <2>4. SavedAgain'
    BY <1>2, <1>3, <1>5, <1>7, <2>1 DEF SavedAgain
  <2>5. QED
    BY <2>2, <2>3, <2>4
<1>8. QED
  BY <1>4, <1>6, <1>7

(* An answer or failure that arrives.                                      *)
LEMMA EndTwins ==
  ASSUME TwinInv, NEW c \in DOMAIN calls,
         Toggled(c) \/ Moved(c) \/ Created(c) \/ Refused(c) \/ CallFails(c)
  PROVE  FormsAnswered' /\ SavedAgain' /\ TwinTeams'
<1>1. FormsAnswered /\ SavedAgain /\ TwinTeams /\ RowsOK
  BY DEF TwinInv, TypeInv
<1>2. /\ \/ Ended(c)
         \/ Going(c, "failed") /\ c \in Creates /\ CallFails(c)
      /\ UNCHANGED <<teams, visits>>
  BY <1>1, EndRows
<1>3. UNCHANGED <<again, TeamIds>>
  BY <1>2 DEF TeamIds, Toggled, Moved, Created, Refused, CallFails
<1>4. /\ Creates' \subseteq Creates
      /\ \A d \in Creates : d # c => d \in Creates' /\ calls'[d] = calls[d]
      /\ c \in Creates' => calls'[c].stage = "failed" /\ calls'[c].of = calls[c].of
  BY <1>2 DEF Ended, Going, Creates
<1>5. SavedAgain' /\ TwinTeams'
  BY <1>1, <1>2, <1>3, <1>4 DEF SavedAgain, TwinTeams
<1>6. FormsAnswered'
  <2>1. CASE Created(c)
    BY <2>1 DEF Created, Opened, OnForm, FormsAnswered
  <2>2. CASE ~Created(c)
    <3>1. OnForm' => OnForm /\ draft'.no = draft.no
      BY <1>1, EndRows
    <3>2. c \in Creates /\ calls[c].stage \in {"done", "5xx", "offline", "failed"} => c \in Creates'
      <4>1. CASE Toggled(c) \/ Moved(c)
        BY <4>1 DEF Toggled, Moved, Creates
      <4>2. CASE Refused(c)
        BY <4>2 DEF Refused
      <4>3. CASE CallFails(c)
        <5>1. c \in Creates => Stage(c, "failed")
          BY <4>3 DEF CallFails
        <5>2. c \in Creates => Going(c, "failed")
          BY <1>1, <5>1, StageStep DEF RowsOK, Creates, CallStages
        <5>3. QED
          BY <5>2 DEF Going, Creates
      <4>4. QED
        BY <2>2, <4>1, <4>2, <4>3
    <3>3. QED
      BY <1>1, <1>2, <1>3, <1>4, <3>1, <3>2 DEF FormsAnswered
  <2>3. QED
    BY <2>1, <2>2
<1>7. QED
  BY <1>5, <1>6

(* The form is saved.                                                      *)
LEMMA SaveTwins ==
  ASSUME TwinInv, SaveForm
  PROVE  FormsAnswered' /\ SavedAgain' /\ TwinTeams'
<1>1. FormsAnswered /\ SavedAgain /\ TwinTeams /\ RowsOK /\ PageTypeOK
  BY TypesArePageTypes DEF TwinInv, TypeInv
<1>2. PICK call \in CreateCalls :
        /\ call.stage = "sent" /\ call.kind = "create" /\ call.of = draft.no
        /\ SentLast(call)
  BY <1>1, SaveRows
<1>3. OnForm /\ UNCHANGED <<teams, url, broken, draft, TeamIds>>
  BY DEF SaveForm, TeamIds
<1>4. PICK n : /\ n \notin DOMAIN calls /\ Creates' = Creates \cup {n}
               /\ calls'[n] = call
               /\ \A d \in Creates : calls'[d] = calls[d]
  BY <1>2 DEF SentLast, Creates
<1>5. again \subseteq again'
  BY DEF SaveForm
<1>6. ASSUME NEW d \in Creates, calls[d].of = draft.no,
             calls[d].stage \in {"sent", "done", "5xx", "offline", "failed"}
      PROVE  draft.no \in again'
  BY <1>6 DEF SaveForm, UnderWay, Creates
<1>7. n \notin Creates
  BY <1>4 DEF Creates
<1>8. TwinTeams'
  BY <1>1, <1>3, <1>5 DEF TwinTeams
<1>9. FormsAnswered'
  BY <1>1, <1>3, <1>4 DEF FormsAnswered, OnForm
<1>10. (\E t \in TeamIds : teams[t].of = draft.no) => draft.no \in again'
  BY <1>1, <1>3, <1>6 DEF FormsAnswered
<1>11. SavedAgain'
  <2> SUFFICES ASSUME NEW e \in Creates', calls'[e].stage = "sent"
               PROVE  /\ \A d \in Creates' :
                           d # e /\ calls'[d].stage = "sent" /\ calls'[d].of = calls'[e].of
                             => calls'[e].of \in again'
                      /\ \A t \in TeamIds' : teams'[t].of = calls'[e].of => calls'[e].of \in again'
    BY DEF SavedAgain
  <2>1. CASE e = n
    BY <1>2, <1>3, <1>4, <1>6, <1>10, <2>1
  <2>2. CASE e \in Creates
    <3>1. ASSUME NEW d \in Creates', d # e, calls'[d].stage = "sent", calls'[d].of = calls'[e].of
          PROVE  calls'[e].of \in again'
      <4>1. CASE d = n
        BY <1>2, <1>4, <1>6, <2>2, <3>1, <4>1
      <4>2. CASE d \in Creates
        BY <1>1, <1>4, <1>5, <2>2, <3>1, <4>2 DEF SavedAgain
      <4>3. QED
        BY <1>4, <3>1, <4>1, <4>2
    <3>2. QED
      BY <1>1, <1>3, <1>4, <1>5, <2>2, <3>1 DEF SavedAgain
  <2>3. QED
    BY <1>4, <2>1, <2>2
<1>12. QED
  BY <1>8, <1>9, <1>11

(* Every step of the page and of its requests keeps TwinInv.               *)
LEMMA TwinInvStep == TwinInv /\ [PageNext]_pageVars => TwinInv'
<1> SUFFICES ASSUME TwinInv, [PageNext]_pageVars
             PROVE  TwinInv'
  OBVIOUS
<1>1. CASE UNCHANGED pageVars
  BY <1>1 DEF pageVars, TwinInv, TypeInv, RowsOK, PageTyped, ReadTyped, FormsAnswered,
     SavedAgain, TwinTeams, TeamIds, OnForm, Creates
<1>2. CASE PageNext
  <2>1. TypeInv' /\ RowsOK /\ PageTypeOK
    BY <1>2, TypeInvStep, TypesArePageTypes DEF TwinInv, TypeInv
  <2>2. ASSUME NEW u \in Lists \cup {"form"}, Go(u)
        PROVE  FormsAnswered' /\ SavedAgain' /\ TwinTeams'
    <3>1. UNCHANGED <<teams, calls, again>> /\ visits' = visits + 1
      BY <2>2 DEF Go
    <3>2. OnForm' => draft'.no = visits' + 1
      BY <2>1 DEF TypeInv, RowsOK
    <3>3. UNCHANGED <<TeamIds, Creates>>
      BY <3>1 DEF TeamIds, Creates
    <3>4. QED
      BY <3>1, <3>2, <3>3, QuietTwins
  <2>3. CASE TeamsRead \/ TeamsArrive \/ TeamsFail \/ \E name \in Names : EditForm(name)
    <3>1. UNCHANGED <<teams, calls, again, url>>
      BY <2>3 DEF TeamsRead, TeamsArrive, TeamsFail, EditForm
    <3>2. OnForm' => OnForm /\ draft'.no = draft.no
      <4>1. CASE TeamsRead \/ TeamsArrive \/ TeamsFail
        BY <2>1, <4>1, FetchRows
      <4>2. ASSUME NEW name \in Names, EditForm(name)
            PROVE  OnForm' => OnForm /\ draft'.no = draft.no
        BY <2>1, <4>2, EditRows
      <4>3. QED
        BY <2>3, <4>1, <4>2
    <3>3. /\ UNCHANGED <<TeamIds, Creates, again>>
          /\ \A t \in TeamIds : teams'[t].of = teams[t].of
          /\ \A c \in Creates : calls'[c] = calls[c]
      BY <3>1 DEF TeamIds, Creates
    <3>4. QED
      BY <2>1, <3>2, <3>3, QuietTwins DEF TwinInv
  <2>4. ASSUME NEW t \in DOMAIN list, Toggle(t) \/ Move(t)
        PROVE  FormsAnswered' /\ SavedAgain' /\ TwinTeams'
    <3>1. UNCHANGED <<teams, again, url, broken, draft, TeamIds>>
      BY <2>4 DEF Toggle, Move, StatusCall, TeamIds
    <3>2. PICK call : SentLast(call) /\ call.kind \in StatusKinds
      <4>1. PICK kind \in StatusKinds, s \in teamStatuses :
              SentLast([kind |-> kind, stage |-> "sent", team |-> t, status |-> s,
                        load |-> loads])
        BY <2>1, <2>4, StatusCallRows
      <4>2. QED
        BY <4>1
    <3>3. Creates' = Creates /\ \A c \in Creates : calls'[c] = calls[c]
      BY <3>2 DEF SentLast, Creates, StatusKinds
    <3>4. QED
      BY <3>1, <3>3, QuietTwins DEF OnForm
  <2>5. ASSUME NEW c \in DOMAIN calls, StatusReply(c)
        PROVE  FormsAnswered' /\ SavedAgain' /\ TwinTeams'
    <3>1. /\ calls[c] \in StatusCalls
          /\ \E s : Going(c, s)
          /\ UNCHANGED teams \/ StatusSet(calls[c].team, calls[c].status)
      BY <2>1, <2>5, StatusReplyRows, TeamPagesAssumption
    <3>2. Creates' = Creates /\ \A d \in Creates : calls'[d] = calls[d]
      BY <3>1 DEF Going, Creates, StatusCalls, StatusKinds
    <3>3. UNCHANGED TeamIds /\ \A t \in TeamIds : teams'[t].of = teams[t].of
      BY <3>1 DEF StatusSet, TeamIds
    <3>4. UNCHANGED <<again, url, broken, draft>>
      BY <2>5 DEF StatusReply
    <3>5. QED
      BY <3>2, <3>3, <3>4, QuietTwins DEF OnForm
  <2>6. QED
    BY <1>2, <2>1, <2>2, <2>3, <2>4, <2>5, CreateReplyTwins, EndTwins, SaveTwins
       DEF PageNext, TwinInv
<1>3. QED
  BY <1>1, <1>2

(* The types of the pages of the teams.                                    *)
THEOREM PagesTypeCorrect == PageSpec => []PageTypeOK
<1>1. TwinInv => PageTypeOK
  BY TypesArePageTypes DEF TwinInv
<1>2. QED
  BY <1>1, InitTwinInv, TwinInvStep, PTL DEF PageSpec

(* A form that makes two teams was saved again before the answer of the    *)
(* first request, or after one that did not come: the server looks for no  *)
(* team of the same form, so this is the only guard there is.              *)
THEOREM TwinTeamsHolds == PageSpec => []TwinTeams
<1>1. TwinInv => TwinTeams
  BY DEF TwinInv
<1>2. QED
  BY <1>1, InitTwinInv, TwinInvStep, PTL DEF PageSpec

-----------------------------------------------------------------------------
(* The list of the teams                                                   *)

OnList == url \in Lists /\ ~broken /\ fetch = "no"

(* While a list is asked for, what was read of it is right, but for teams  *)
(* that requests are about.                                                *)
FetchAgrees ==
  /\ fetch # "no" => Touched \subseteq doubtful
  /\ fetch = "read" => \A t \in TeamIds \ doubtful :
       /\ t \in DOMAIN read <=> Listed(t, url)
       /\ t \in DOMAIN read => read[t] = teams[t].status

(* So is the list, its switches, and the status the next request goes by.  *)
ShownAgrees ==
  OnList => \A t \in TeamIds \ (doubtful \cup Touched) :
    /\ t \in DOMAIN list <=> Listed(t, url)
    /\ t \in DOMAIN list =>
         /\ list[t].status = teams[t].status
         /\ list[t].on = (teams[t].status = TEAM_STATUS_ACTIVATED)

(* A request that leaves no doubt is the only one about its team, was made *)
(* on the list that is shown, and its answer will set that right.          *)
AnswerAgrees ==
  OnList => \A c \in Changes : calls[c].team \notin doubtful =>
    /\ \A d \in Changes : calls[d].team = calls[c].team => d = c
    /\ calls[c].load = loads /\ calls[c].team \in DOMAIN list
    /\ calls[c].kind = "toggle" =>
         /\ calls[c].status # TEAM_STATUS_ACHIEVED /\ url # "archive"
         /\ list[calls[c].team].status # calls[c].status
         /\ calls[c].stage = "done" => teams[calls[c].team].status = calls[c].status

Agreeing == FetchAgrees /\ ShownAgrees /\ AnswerAgrees
ListInv == TypeInv /\ Agreeing

(* The initial list has nothing to disagree with.                          *)
LEMMA InitListInv == PageInit => ListInv
<1>1. ASSUME PageInit
      PROVE  /\ url \in Lists => fetch = "sent"
             /\ fetch # "read" /\ Touched = {}
  BY <1>1 DEF PageInit, Lists, Touched, Changes, UnderWay
<1>2. PageInit => Agreeing
  BY <1>1 DEF Agreeing, FetchAgrees, ShownAgrees, AnswerAgrees, OnList, Lists
<1>3. QED
  BY <1>2, InitTypeInv DEF ListInv

(* Changes, after a step.                                                  *)
LEMMA ChangesNext ==
  RowsOK' => Changes' = {c \in DOMAIN calls' :
               calls'[c].kind \in StatusKinds /\ calls'[c].stage # "over"}
<1>1. RowsOK => Changes = {c \in DOMAIN calls :
        calls[c].kind \in StatusKinds /\ calls[c].stage # "over"}
  BY TouchedTeams
<1>2. (RowsOK => Changes = {c \in DOMAIN calls :
          calls[c].kind \in StatusKinds /\ calls[c].stage # "over"})'
  BY <1>1, PTL
<1>3. QED
  BY <1>2

(* Forms have no part in the requests that change a team.                  *)
LEMMA FormCalls ==
  ASSUME RowsOK, RowsOK',
         \/ UNCHANGED calls
         \/ \E c \in Creates : Ended(c) \/ \E s : Going(c, s)
         \/ \E call \in CreateCalls : SentLast(call)
  PROVE  Changes' = Changes /\ \A c \in Changes : calls'[c] = calls[c]
<1>1. /\ Changes = {c \in DOMAIN calls :
           calls[c].kind \in StatusKinds /\ calls[c].stage # "over"}
      /\ Changes' = {c \in DOMAIN calls' :
           calls'[c].kind \in StatusKinds /\ calls'[c].stage # "over"}
  BY TouchedTeams, ChangesNext
<1>2. CASE UNCHANGED calls
  BY <1>1, <1>2
<1>3. ASSUME NEW c \in Creates, Ended(c) \/ \E s : Going(c, s)
      PROVE  Changes' = Changes /\ \A d \in Changes : calls'[d] = calls[d]
  <2>1. /\ DOMAIN calls' = DOMAIN calls /\ \A d \in DOMAIN calls : d # c => calls'[d] = calls[d]
        /\ calls'[c].kind \in {"create", "none"} /\ calls[c].kind = "create"
    BY <1>3 DEF Ended, Going, Creates
  <2>2. QED
    BY <1>1, <2>1 DEF StatusKinds
<1>4. ASSUME NEW call \in CreateCalls, SentLast(call)
      PROVE  Changes' = Changes /\ \A d \in Changes : calls'[d] = calls[d]
  <2>1. call.kind = "create"
    BY DEF CreateCalls
  <2>2. QED
    BY <1>1, <1>4, <2>1 DEF SentLast, StatusKinds
<1>5. QED
  BY <1>2, <1>3, <1>4

(* A request that changes a team goes on, or ends.                         *)
LEMMA ChangeGoes ==
  ASSUME RowsOK, RowsOK', NEW c \in Changes, NEW s, s # "over", Going(c, s)
  PROVE  /\ Changes' = Changes
         /\ \A d \in Changes :
              /\ calls'[d].kind = calls[d].kind /\ calls'[d].team = calls[d].team
              /\ calls'[d].status = calls[d].status /\ calls'[d].load = calls[d].load
              /\ d # c => calls'[d].stage = calls[d].stage
         /\ calls'[c].stage = s
         /\ Touched' = Touched
<1>1. /\ Changes = {d \in DOMAIN calls :
           calls[d].kind \in StatusKinds /\ calls[d].stage # "over"}
      /\ Changes' = {d \in DOMAIN calls' :
           calls'[d].kind \in StatusKinds /\ calls'[d].stage # "over"}
  BY TouchedTeams, ChangesNext
<1>2. c \in DOMAIN calls /\ calls[c].kind \in StatusKinds
  BY <1>1
<1>3. \A d \in DOMAIN calls : d # c => calls'[d] = calls[d]
  BY DEF Going
<1>4. /\ DOMAIN calls' = DOMAIN calls
      /\ calls'[c].kind = calls[c].kind /\ calls'[c].stage = s
      /\ calls'[c].team = calls[c].team /\ calls'[c].status = calls[c].status
      /\ calls'[c].load = calls[c].load
  BY <1>2 DEF Going
<1>5. Changes' = Changes
  BY <1>1, <1>2, <1>3, <1>4
<1>6. ASSUME NEW d \in Changes
      PROVE  /\ calls'[d].kind = calls[d].kind /\ calls'[d].team = calls[d].team
             /\ calls'[d].status = calls[d].status /\ calls'[d].load = calls[d].load
             /\ d # c => calls'[d].stage = calls[d].stage
  BY <1>1, <1>3, <1>4
<1>7. Touched' = Touched
  BY <1>5, <1>6 DEF Touched
<1>8. QED
  BY <1>4, <1>5, <1>6, <1>7

(* A switch that is over no longer touches its team.                       *)
LEMMA ChangeEnds ==
  ASSUME RowsOK, RowsOK', NEW c \in Changes, Ended(c)
  PROVE  /\ Changes' = Changes \ {c}
         /\ \A d \in Changes' : calls'[d] = calls[d]
         /\ Touched' \subseteq Touched
         /\ Touched \subseteq Touched' \cup {calls[c].team}
<1>1. /\ Changes = {d \in DOMAIN calls :
           calls[d].kind \in StatusKinds /\ calls[d].stage # "over"}
      /\ Changes' = {d \in DOMAIN calls' :
           calls'[d].kind \in StatusKinds /\ calls'[d].stage # "over"}
  BY TouchedTeams, ChangesNext
<1>2. Changes' = Changes \ {c} /\ \A d \in Changes' : calls'[d] = calls[d]
  BY <1>1 DEF Ended, StatusKinds
<1>3. QED
  BY <1>2 DEF Touched

(* Whatever has no part in the list leaves it right.                       *)
LEMMA QuietAgrees ==
  ASSUME ListInv, UNCHANGED <<teams, url, broken, list, loads, fetch, read, doubtful>>,
         Changes' = Changes, \A c \in Changes : calls'[c] = calls[c]
  PROVE  Agreeing'
<1>1. UNCHANGED <<TeamIds, OnList>>
  BY DEF TeamIds, OnList
<1>2. Touched' = Touched
  BY DEF Touched
<1>3. FetchAgrees' /\ ShownAgrees'
  BY <1>1, <1>2 DEF ListInv, Agreeing, FetchAgrees, ShownAgrees, Listed
<1>4. AnswerAgrees'
  BY <1>1 DEF ListInv, Agreeing, AnswerAgrees
<1>5. QED
  BY <1>3, <1>4 DEF Agreeing

(* A page that opens, or breaks, makes no claim.                           *)
LEMMA OpenedAgrees ==
  ASSUME ListInv, NEW u \in Lists \cup {"form"}, Opened(u),
         Changes' = Changes, \A c \in Changes : calls'[c] = calls[c]
  PROVE  Agreeing'
<1>1. Touched' = Touched /\ doubtful' = Touched
  BY DEF Touched, Opened
<1>2. url' = u /\ fetch' = IF u \in Lists THEN "sent" ELSE "no"
  BY DEF Opened, getTeams
<1>3. QED
  BY <1>1, <1>2 DEF Agreeing, FetchAgrees, ShownAgrees, AnswerAgrees, OnList

(* A page that gave way to the error text has nothing to agree with.       *)
LEMMA BreaksAgrees ==
  ASSUME Breaks
  PROVE  Agreeing'
BY DEF Breaks, Agreeing, FetchAgrees, ShownAgrees, AnswerAgrees, OnList

(* The list is read, and arrives, or does not.                             *)
LEMMA FetchStep ==
  ASSUME ListInv, TeamsRead \/ TeamsArrive \/ TeamsFail
  PROVE  Agreeing'
<1>1. RowsOK /\ PageTyped /\ FetchAgrees
  BY DEF ListInv, TypeInv, Agreeing
<1>2. UNCHANGED <<teams, calls, url, doubtful, TeamIds, Touched, Changes>>
  BY DEF TeamsRead, TeamsArrive, TeamsFail, TeamIds, Touched, Changes, UnderWay
<1>3. fetch # "no" /\ Touched \subseteq doubtful
  BY <1>1 DEF TeamsRead, TeamsArrive, TeamsFail, FetchAgrees
<1>4. AnswerAgrees'
  BY <1>2, <1>3 DEF AnswerAgrees, Touched
<1>5. CASE TeamsRead
  <2>1. /\ fetch' = "read"
        /\ read' = [t \in {i \in TeamIds : Listed(i, url)} |-> teams[t].status]
    BY <1>5 DEF TeamsRead
  <2>2. FetchAgrees'
    BY <1>2, <1>3, <2>1 DEF FetchAgrees, Listed
  <2>3. ShownAgrees'
    BY <2>1 DEF ShownAgrees, OnList
  <2>4. QED
    BY <1>4, <2>2, <2>3 DEF Agreeing
<1>6. CASE TeamsArrive
  <2>1. /\ fetch = "read" /\ fetch' = "no"
        /\ list' = [t \in DOMAIN read |->
                      [status |-> read[t], on |-> read[t] = TEAM_STATUS_ACTIVATED]]
    BY <1>6 DEF TeamsArrive
  <2>2. FetchAgrees'
    BY <2>1 DEF FetchAgrees
  <2>3. ASSUME NEW t \in TeamIds \ doubtful
        PROVE  /\ t \in DOMAIN list' <=> Listed(t, url)
               /\ t \in DOMAIN list' =>
                    /\ list'[t].status = teams[t].status
                    /\ list'[t].on = (teams[t].status = TEAM_STATUS_ACTIVATED)
    <3>1. /\ t \in DOMAIN read <=> Listed(t, url)
          /\ t \in DOMAIN read => read[t] = teams[t].status
      BY <1>1, <2>1 DEF FetchAgrees
    <3>2. QED
      BY <2>1, <3>1
  <2>4. ShownAgrees'
    BY <1>2, <2>3 DEF ShownAgrees, Listed
  <2>5. QED
    BY <1>4, <2>2, <2>4 DEF Agreeing
<1>7. CASE TeamsFail
  <2>1. CASE Breaks
    BY <2>1, BreaksAgrees
  <2>2. CASE fetch' = "dead"
    BY <1>2, <1>3, <1>4, <2>2 DEF Agreeing, FetchAgrees, ShownAgrees, OnList
  <2>3. QED
    BY <1>7, <2>1, <2>2 DEF TeamsFail
<1>8. QED
  BY <1>5, <1>6, <1>7

(* A switch is turned, or a team archived or restored.                     *)
LEMMA StatusCallStep ==
  ASSUME ListInv, RowsOK', NEW t \in DOMAIN list, Toggle(t) \/ Move(t)
  PROVE  Agreeing'
<1>1. RowsOK /\ PageTyped /\ PageTypeOK /\ FetchAgrees /\ ShownAgrees /\ AnswerAgrees
  BY TypesArePageTypes DEF ListInv, TypeInv, Agreeing
<1>2. PICK kind \in StatusKinds, s \in teamStatuses :
        /\ SentLast([kind |-> kind, stage |-> "sent", team |-> t, status |-> s,
                     load |-> loads])
        /\ kind = "move" => Move(t)
        /\ kind = "toggle" => Toggle(t)
  BY <1>1, StatusCallRows
<1>3. /\ UNCHANGED <<teams, url, broken, loads, fetch, read, TeamIds>>
      /\ doubtful' = IF t \in Touched \/ fetch # "no" THEN doubtful \cup {t} ELSE doubtful
  BY DEF Toggle, Move, StatusCall, TeamIds
<1>4. PICK n : /\ n \notin DOMAIN calls /\ DOMAIN calls' = DOMAIN calls \cup {n}
               /\ calls'[n] = [kind |-> kind, stage |-> "sent", team |-> t, status |-> s,
                               load |-> loads]
               /\ \A c \in DOMAIN calls : calls'[c] = calls[c]
  BY <1>2 DEF SentLast
<1>5. /\ calls'[n].kind = kind /\ calls'[n].stage = "sent" /\ calls'[n].team = t
      /\ calls'[n].status = s /\ calls'[n].load = loads
  BY <1>4
<1>6. /\ Changes' = Changes \cup {n} /\ n \notin Changes
      /\ \A c \in Changes : calls'[c] = calls[c]
  BY <1>1, <1>4, <1>5, TouchedTeams, ChangesNext
<1>7. Touched' = Touched \cup {t}
  BY <1>5, <1>6 DEF Touched
<1>8. t \in TeamIds /\ list # Nothing /\ url \in Lists /\ ~broken
  BY <1>1 DEF PageTyped, Nothing
<1>9. /\ DOMAIN list' = DOMAIN list
      /\ \A u \in DOMAIN list : u # t => list'[u] = list[u]
      /\ list'[t].status = list[t].status
  <2>1. list[t] \in [status : teamStatuses, on : BOOLEAN]
    BY <1>1 DEF PageTyped
  <2>2. QED
    BY <2>1 DEF Toggle, Move
<1>10. FetchAgrees'
  BY <1>1, <1>3, <1>7 DEF FetchAgrees, Listed
<1>11. ShownAgrees'
  BY <1>1, <1>3, <1>7, <1>9 DEF ShownAgrees, OnList, Listed
<1>12. AnswerAgrees'
  <2> SUFFICES ASSUME OnList', NEW c \in Changes', calls'[c].team \notin doubtful'
               PROVE  /\ \A d \in Changes' : calls'[d].team = calls'[c].team => d = c
                      /\ calls'[c].load = loads' /\ calls'[c].team \in DOMAIN list'
                      /\ calls'[c].kind = "toggle" =>
                           /\ calls'[c].status # TEAM_STATUS_ACHIEVED /\ url' # "archive"
                           /\ list'[calls'[c].team].status # calls'[c].status
                           /\ calls'[c].stage = "done" =>
                                teams'[calls'[c].team].status = calls'[c].status
    BY DEF AnswerAgrees
  <2>1. OnList /\ fetch = "no"
    BY <1>3 DEF OnList
  <2>2. CASE c = n
    <3>1. t \notin Touched /\ t \notin doubtful
      BY <1>3, <1>5, <2>1, <2>2
    <3>2. \A d \in Changes : calls[d].team # t
      BY <3>1 DEF Touched
    <3>3. /\ Listed(t, url) /\ list[t].status = teams[t].status
      BY <1>1, <1>8, <2>1, <3>1 DEF ShownAgrees
    <3>4. kind = "toggle" =>
            /\ list[t].status # TEAM_STATUS_ACHIEVED
            /\ s = IF list[t].status = TEAM_STATUS_ACTIVATED THEN TEAM_STATUS_DEACTIVATED
                   ELSE TEAM_STATUS_ACTIVATED
      BY <1>2, <1>4, <1>5, SMTT(30) DEF Toggle, StatusCall, updateStatus, SendCall
    <3>5. QED
      BY <1>3, <1>5, <1>6, <1>9, <2>2, <3>2, <3>3, <3>4
         DEF Listed, TEAM_STATUS_ACHIEVED, TEAM_STATUS_ACTIVATED, TEAM_STATUS_DEACTIVATED
  <2>3. CASE c \in Changes
    <3>1. calls[c].team \notin doubtful /\ calls[c].team # t
      BY <1>3, <1>6, <2>1, <2>3 DEF Touched
    <3>2. QED
      BY <1>1, <1>3, <1>5, <1>6, <1>9, <2>1, <2>3, <3>1 DEF AnswerAgrees
  <2>4. QED
    BY <1>6, <2>2, <2>3
<1>13. QED
  BY <1>10, <1>11, <1>12 DEF Agreeing

(* The server changes the status, or fails.                                *)
LEMMA StatusReplyAgrees ==
  ASSUME ListInv, RowsOK', NEW c \in DOMAIN calls, StatusReply(c)
  PROVE  Agreeing'
<1>1. RowsOK /\ FetchAgrees /\ ShownAgrees /\ AnswerAgrees
  BY DEF ListInv, TypeInv, Agreeing
<1>2. UNCHANGED <<url, broken, list, loads, fetch, read, doubtful, OnList>>
  BY DEF StatusReply, OnList
<1>3. PICK s \in {"done", "5xx", "offline"} :
        /\ Going(c, s)
        /\ \/ UNCHANGED teams /\ s # "done"
           \/ StatusSet(calls[c].team, calls[c].status)
  BY <1>1, StatusReplyRows, TeamPagesAssumption
<1>4. c \in Changes /\ calls[c].stage = "sent"
  BY <1>1, StatusReplyRows, TeamPagesAssumption
<1>5. /\ Changes' = Changes /\ Touched' = Touched
      /\ \A d \in Changes :
           /\ calls'[d].kind = calls[d].kind /\ calls'[d].team = calls[d].team
           /\ calls'[d].status = calls[d].status /\ calls'[d].load = calls[d].load
           /\ d # c => calls'[d].stage = calls[d].stage
      /\ calls'[c].stage = s
  BY <1>1, <1>3, <1>4, ChangeGoes
<1>6. /\ TeamIds' = TeamIds
      /\ \A u \in TeamIds : u # calls[c].team => teams'[u].status = teams[u].status
      /\ s = "done" => teams'[calls[c].team].status = calls[c].status
  BY <1>1, <1>3, <1>4, TouchedTeams DEF StatusSet, TeamIds, Touched
<1>7. calls[c].team \in Touched
  BY <1>4 DEF Touched
<1>8. FetchAgrees'
  BY <1>1, <1>2, <1>5, <1>6, <1>7 DEF FetchAgrees, Listed
<1>9. ShownAgrees'
  BY <1>1, <1>2, <1>5, <1>6, <1>7 DEF ShownAgrees, Listed
<1>10. AnswerAgrees'
  <2> SUFFICES ASSUME OnList', NEW d \in Changes', calls'[d].team \notin doubtful'
               PROVE  /\ \A e \in Changes' : calls'[e].team = calls'[d].team => e = d
                      /\ calls'[d].load = loads' /\ calls'[d].team \in DOMAIN list'
                      /\ calls'[d].kind = "toggle" =>
                           /\ calls'[d].status # TEAM_STATUS_ACHIEVED /\ url' # "archive"
                           /\ list'[calls'[d].team].status # calls'[d].status
                           /\ calls'[d].stage = "done" =>
                                teams'[calls'[d].team].status = calls'[d].status
    BY DEF AnswerAgrees
  <2>1. OnList /\ d \in Changes /\ calls[d].team \notin doubtful
    BY <1>2, <1>5
  <2>2. /\ \A e \in Changes : calls[e].team = calls[d].team => e = d
        /\ calls[d].load = loads /\ calls[d].team \in DOMAIN list
        /\ calls[d].kind = "toggle" =>
             /\ calls[d].status # TEAM_STATUS_ACHIEVED /\ url # "archive"
             /\ list[calls[d].team].status # calls[d].status
             /\ calls[d].stage = "done" => teams[calls[d].team].status = calls[d].status
    BY <1>1, <2>1 DEF AnswerAgrees
  <2>3. calls[d].team \in TeamIds
    BY <1>1, <2>1, TouchedTeams DEF Touched
  <2>4. CASE d = c
    BY <1>2, <1>5, <1>6, <2>1, <2>2, <2>4
  <2>5. CASE d # c
    <3>1. calls[d].team # calls[c].team
      BY <1>4, <2>2, <2>5
    <3>2. QED
      BY <1>2, <1>5, <1>6, <2>1, <2>2, <2>3, <2>5, <3>1
  <2>6. QED
    BY <2>4, <2>5
<1>11. QED
  BY <1>8, <1>9, <1>10 DEF Agreeing

(* The answer to a request arrives on the page, or no answer does.         *)
LEMMA StatusEndAgrees ==
  ASSUME ListInv, RowsOK', NEW c \in Changes, Toggled(c) \/ Moved(c) \/ CallFails(c)
  PROVE  Agreeing'
<1>1. RowsOK /\ FetchAgrees /\ ShownAgrees /\ AnswerAgrees
  BY DEF ListInv, TypeInv, Agreeing
<1>2. c \in DOMAIN calls /\ c \notin Creates /\ calls[c] \in StatusCalls
  <2>1. c \in DOMAIN calls /\ calls[c] \in StatusCalls
    BY <1>1, TouchedTeams DEF Changes, UnderWay
  <2>2. QED
    BY <2>1 DEF Creates, StatusCalls, StatusKinds
<1>3. Ended(c)
  <2>1. Ends(c)
    BY <1>2 DEF Toggled, Moved, CallFails
  <2>2. QED
    BY <1>1, <1>2, <2>1, EndsStep DEF RowsOK
<1>4. /\ Changes' = Changes \ {c}
      /\ \A d \in Changes' : calls'[d] = calls[d]
      /\ Touched' \subseteq Touched
      /\ Touched \subseteq Touched' \cup {calls[c].team}
  BY <1>1, <1>3, ChangeEnds
<1>5. UNCHANGED <<teams, url, loads, TeamIds>>
  BY DEF Toggled, Moved, CallFails, TeamIds
<1>6. CASE /\ UNCHANGED <<broken, list, fetch, read>>
           /\ doubtful' \in {doubtful, doubtful \cup {calls[c].team}}
           /\ OnList => calls[c].team \in doubtful'
  <2>1. OnList' <=> OnList
    BY <1>5, <1>6 DEF OnList
  <2>2. FetchAgrees'
    BY <1>1, <1>4, <1>5, <1>6 DEF FetchAgrees, Listed
  <2>3. ShownAgrees'
    BY <1>1, <1>4, <1>5, <1>6, <2>1 DEF ShownAgrees, Listed
  <2>4. AnswerAgrees'
    BY <1>1, <1>4, <1>5, <1>6, <2>1 DEF AnswerAgrees
  <2>5. QED
    BY <2>2, <2>3, <2>4 DEF Agreeing
<1>7. CASE Toggled(c)
  <2>1. /\ UNCHANGED <<broken, fetch, read, doubtful>>
        /\ calls[c].stage = "done" /\ calls[c].kind = "toggle"
        /\ list' = IF SamePage(c) /\ list[calls[c].team].status # calls[c].status
                     THEN [list EXCEPT ![calls[c].team] =
                             [status |-> calls[c].status,
                              on |-> calls[c].status = TEAM_STATUS_ACTIVATED]]
                     ELSE list
    BY <1>7 DEF Toggled
  <2>2. OnList' <=> OnList
    BY <1>5, <2>1 DEF OnList
  <2>3. FetchAgrees'
    BY <1>1, <1>4, <1>5, <2>1 DEF FetchAgrees, Listed
  <2>4. /\ DOMAIN list' = DOMAIN list
        /\ \A u \in DOMAIN list : u # calls[c].team => list'[u] = list[u]
    BY <2>1
  <2>5. ASSUME OnList, NEW t \in TeamIds \ (doubtful \cup Touched')
        PROVE  /\ t \in DOMAIN list' <=> Listed(t, url)
               /\ t \in DOMAIN list' =>
                    /\ list'[t].status = teams[t].status
                    /\ list'[t].on = (teams[t].status = TEAM_STATUS_ACTIVATED)
    <3>1. CASE t # calls[c].team
      BY <1>1, <1>4, <2>4, <2>5, <3>1 DEF ShownAgrees
    <3>2. CASE t = calls[c].team
      <4>1. /\ calls[c].load = loads /\ t \in DOMAIN list
            /\ calls[c].status # TEAM_STATUS_ACHIEVED /\ url # "archive"
            /\ list[t].status # calls[c].status
            /\ teams[t].status = calls[c].status
        BY <1>1, <2>1, <2>5, <3>2 DEF AnswerAgrees
      <4>2. list # Nothing /\ SamePage(c)
        BY <4>1 DEF Nothing, SamePage
      <4>3. list'[t] = [status |-> calls[c].status,
                        on |-> calls[c].status = TEAM_STATUS_ACTIVATED]
        BY <2>1, <3>2, <4>1, <4>2
      <4>4. QED
        BY <2>4, <4>1, <4>3 DEF Listed
    <3>3. QED
      BY <3>1, <3>2
  <2>6. ShownAgrees'
    BY <1>5, <2>1, <2>2, <2>5 DEF ShownAgrees, Listed
  <2>7. AnswerAgrees'
    BY <1>1, <1>4, <1>5, <2>1, <2>2, <2>4 DEF AnswerAgrees
  <2>8. QED
    BY <2>3, <2>6, <2>7 DEF Agreeing
<1>8. CASE Moved(c)
  <2>1. CASE getTeams /\ doubtful' = Touched'
    BY <2>1 DEF getTeams, Agreeing, FetchAgrees, ShownAgrees, AnswerAgrees, OnList
  <2>2. CASE ~(SamePage(c) /\ fetch # "dead")
    <3>1. UNCHANGED <<broken, list, fetch, read, doubtful>>
      BY <1>8, <2>2 DEF Moved
    <3>2. OnList => calls[c].team \in doubtful
      <4> SUFFICES ASSUME OnList, calls[c].team \notin doubtful
                   PROVE  FALSE
        OBVIOUS
      <4>1. calls[c].load = loads /\ calls[c].team \in DOMAIN list
        BY <1>1 DEF AnswerAgrees
      <4>2. SamePage(c) /\ fetch = "no"
        BY <4>1 DEF SamePage, Nothing, OnList
      <4>3. QED
        BY <2>2, <4>2
    <3>3. QED
      BY <1>6, <3>1, <3>2
  <2>3. QED
    BY <1>8, <2>1, <2>2 DEF Moved
<1>9. CASE CallFails(c)
  <2>1. doubtful' = doubtful \cup {calls[c].team}
    BY <1>2, <1>9 DEF CallFails
  <2>2. QED
    BY <1>6, <1>9, <2>1, BreaksAgrees DEF CallFails
<1>10. QED
  BY <1>7, <1>8, <1>9

(* A team is created while the list may be open.                           *)
LEMMA CreateReplyAgrees ==
  ASSUME ListInv, RowsOK', NEW c \in DOMAIN calls, CreateReply(c)
  PROVE  Agreeing'
<1>1. RowsOK /\ PageTyped /\ FetchAgrees /\ ShownAgrees /\ AnswerAgrees
  BY DEF ListInv, TypeInv, Agreeing
<1>2. UNCHANGED <<url, broken, list, loads, fetch, read, OnList>>
  BY DEF CreateReply, OnList
<1>3. /\ c \in Creates /\ \E s : Going(c, s)
      /\ \/ UNCHANGED <<teams, doubtful>>
         \/ /\ TeamAdded(calls[c])
            /\ doubtful' = IF url \in Lists /\ fetch # "sent"
                             THEN doubtful \cup {Len(teams) + 1} ELSE doubtful
  BY <1>1, CreateReplyRows, TeamPagesAssumption
<1>4. Changes' = Changes /\ \A d \in Changes : calls'[d] = calls[d]
  BY <1>1, <1>3, FormCalls
<1>5. CASE UNCHANGED <<teams, doubtful>>
  BY <1>2, <1>4, <1>5, QuietAgrees
<1>6. CASE /\ TeamAdded(calls[c])
           /\ doubtful' = IF url \in Lists /\ fetch # "sent"
                            THEN doubtful \cup {Len(teams) + 1} ELSE doubtful
  <2>1. PICK n : /\ TeamIds' = TeamIds \cup {n} /\ n \notin TeamIds
                 /\ \A t \in TeamIds : teams'[t] = teams[t]
                 /\ doubtful' = IF url \in Lists /\ fetch # "sent"
                                  THEN doubtful \cup {n} ELSE doubtful
    BY <1>6 DEF TeamAdded
  <2>2. Touched' = Touched /\ Touched \subseteq TeamIds
    BY <1>1, <1>4, TouchedTeams DEF Touched
  <2>3. fetch # "no" => url \in Lists
    BY <1>1 DEF PageTyped
  <2>4. FetchAgrees'
    BY <1>1, <1>2, <2>1, <2>2, <2>3 DEF FetchAgrees, Listed
  <2>5. ShownAgrees'
    BY <1>1, <1>2, <2>1, <2>2 DEF ShownAgrees, OnList, Listed
  <2>6. \A d \in Changes : calls[d].team \in TeamIds
    BY <2>2 DEF Touched
  <2>7. AnswerAgrees'
    BY <1>1, <1>2, <1>4, <2>1, <2>6 DEF AnswerAgrees
  <2>8. QED
    BY <2>4, <2>5, <2>7 DEF Agreeing
<1>7. QED
  BY <1>3, <1>5, <1>6

(* Every step of the page and of its requests keeps ListInv.               *)
LEMMA ListInvStep == ListInv /\ [PageNext]_pageVars => ListInv'
<1> SUFFICES ASSUME ListInv, [PageNext]_pageVars
             PROVE  ListInv'
  OBVIOUS
<1>1. CASE UNCHANGED pageVars
  BY <1>1 DEF pageVars, ListInv, TypeInv, RowsOK, PageTyped, ReadTyped, Agreeing, FetchAgrees,
     ShownAgrees, AnswerAgrees, TeamIds, OnForm, OnList, Listed, Touched, Changes, UnderWay
<1>2. CASE PageNext
  <2>1. TypeInv' /\ RowsOK' /\ RowsOK /\ PageTypeOK
    BY <1>2, TypeInvStep, TypesArePageTypes DEF ListInv, TypeInv
  <2>2. ASSUME NEW u \in Lists \cup {"form"}, Go(u)
        PROVE  Agreeing'
    <3>1. UNCHANGED calls /\ Opened(u)
      BY <2>2 DEF Go
    <3>2. QED
      BY <2>1, <3>1, FormCalls, OpenedAgrees
  <2>3. CASE SaveForm \/ \E name \in Names : EditForm(name)
    <3>1. UNCHANGED <<teams, url, broken, list, loads, fetch, read, doubtful>>
      BY <2>3 DEF SaveForm, EditForm
    <3>2. UNCHANGED calls \/ \E call \in CreateCalls : SentLast(call)
      BY <2>1, <2>3, SaveRows DEF EditForm
    <3>3. QED
      BY <2>1, <3>1, <3>2, FormCalls, QuietAgrees DEF ListInv
  <2>4. ASSUME NEW c \in DOMAIN calls,
               Toggled(c) \/ Moved(c) \/ Created(c) \/ Refused(c) \/ CallFails(c)
        PROVE  Agreeing'
    <3>1. calls[c] \in CallType
      BY <2>1 DEF RowsOK
    <3>2. c \in Creates \/ (c \in Changes /\ (Toggled(c) \/ Moved(c) \/ CallFails(c)))
      BY <2>1, <2>4, <3>1, CallFields, CallsTyped
         DEF Toggled, Moved, Created, Refused, CallFails, Creates, Changes, UnderWay,
             PageFaultKinds, StatusKinds, Over
    <3>3. CASE c \in Changes /\ (Toggled(c) \/ Moved(c) \/ CallFails(c))
      BY <2>1, <3>3, StatusEndAgrees
    <3>4. CASE c \in Creates
      <4>1. Ended(c) \/ Going(c, "failed")
        BY <2>1, <2>4, EndRows
      <4>2. Changes' = Changes /\ \A d \in Changes : calls'[d] = calls[d]
        BY <2>1, <3>4, <4>1, FormCalls
      <4>3. UNCHANGED <<teams, loads>>
        BY <2>4 DEF Toggled, Moved, Created, Refused, CallFails
      <4>4. ~Toggled(c) /\ ~Moved(c)
        BY <3>4 DEF Toggled, Moved, Creates
      <4>5. CASE Created(c)
        BY <4>2, <4>3, <4>5, OpenedAgrees, QuietAgrees DEF Created, Lists
      <4>6. CASE Refused(c)
        BY <4>2, <4>3, <4>6, QuietAgrees DEF Refused
      <4>7. CASE CallFails(c)
        BY <3>4, <4>2, <4>3, <4>7, BreaksAgrees, QuietAgrees DEF CallFails
      <4>8. QED
        BY <2>4, <4>4, <4>5, <4>6, <4>7
    <3>5. QED
      BY <3>2, <3>3, <3>4
  <2>5. Agreeing'
    <3>1. CASE TeamsRead \/ TeamsArrive \/ TeamsFail
      BY <3>1, FetchStep
    <3>2. ASSUME NEW t \in DOMAIN list, Toggle(t) \/ Move(t)
          PROVE  Agreeing'
      BY <2>1, <3>2, StatusCallStep
    <3>3. ASSUME NEW c \in DOMAIN calls, StatusReply(c) \/ CreateReply(c)
          PROVE  Agreeing'
      BY <2>1, <3>3, StatusReplyAgrees, CreateReplyAgrees
    <3>4. QED
      BY <1>2, <2>2, <2>3, <2>4, <3>1, <3>2, <3>3 DEF PageNext, ListInv
  <2>6. QED
    BY <2>1, <2>5 DEF ListInv
<1>3. QED
  BY <1>1, <1>2

(* With no request of the list under way it shows the teams and switches   *)
(* as the rows have them, whatever the order in which the server carries   *)
(* out the requests and the browser sees them answered, for any number of  *)
(* teams and requests: but for the teams that ListAgrees names.            *)
THEOREM ListAgreesHolds == PageSpec => []ListAgrees
<1>1. ListInv => ListAgrees
  BY DEF ListInv, Agreeing, ShownAgrees, OnList, ListAgrees
<1>2. QED
  BY <1>1, InitListInv, ListInvStep, PTL DEF PageSpec

-----------------------------------------------------------------------------
(* The schedule: the mask of the days, and the arithmetic of ticks         *)

(* The days of a mask.                                                     *)
DaysOf(m) == {d \in 1 .. 7 : HasBit(m, weekDayBits[d])}

(* The days of the mask that a form submits are those that it shows.      *)
LEMMA MaskShowsDays ==
  ASSUME NEW days \in SUBSET (1 .. 7)
  PROVE  /\ DaysOf(ScheduleBitmask(days)) = days
         /\ days # {} => ScheduleBitmask(days) \in 1 .. 127
<1> DEFINE bit(d) == IF d \in days THEN weekDayBits[d] ELSE 0
<1>1. /\ weekDayBits[1] = 1 /\ weekDayBits[2] = 2 /\ weekDayBits[3] = 4 /\ weekDayBits[4] = 8
      /\ weekDayBits[5] = 16 /\ weekDayBits[6] = 32 /\ weekDayBits[7] = 64
  BY DEF weekDayBits
<1>2. ScheduleBitmask(days) = bit(1) + bit(2) + bit(3) + bit(4) + bit(5) + bit(6) + bit(7)
  BY DEF ScheduleBitmask
<1>3. /\ bit(1) \in {0, 1} /\ bit(2) \in {0, 2} /\ bit(3) \in {0, 4} /\ bit(4) \in {0, 8}
      /\ bit(5) \in {0, 16} /\ bit(6) \in {0, 32} /\ bit(7) \in {0, 64}
  BY <1>1
<1>4. /\ bit(1) = 1 <=> 1 \in days
      /\ bit(2) = 2 <=> 2 \in days
      /\ bit(3) = 4 <=> 3 \in days
      /\ bit(4) = 8 <=> 4 \in days
      /\ bit(5) = 16 <=> 5 \in days
      /\ bit(6) = 32 <=> 6 \in days
      /\ bit(7) = 64 <=> 7 \in days
  BY <1>1
<1> HIDE DEF bit
<1>5. /\ ScheduleBitmask(days) \in 0 .. 127
      /\ HasBit(ScheduleBitmask(days), 1) <=> 1 \in days
      /\ HasBit(ScheduleBitmask(days), 2) <=> 2 \in days
      /\ HasBit(ScheduleBitmask(days), 4) <=> 3 \in days
      /\ HasBit(ScheduleBitmask(days), 8) <=> 4 \in days
      /\ HasBit(ScheduleBitmask(days), 16) <=> 5 \in days
      /\ HasBit(ScheduleBitmask(days), 32) <=> 6 \in days
      /\ HasBit(ScheduleBitmask(days), 64) <=> 7 \in days
  <2> DEFINE m == ScheduleBitmask(days)
  <2>1. m \in 0 .. 127
    BY <1>2, <1>3
  <2>2. HasBit(m, 1) <=> bit(1) = 1
    BY <1>2, <1>3 DEF HasBit
  <2>3. HasBit(m, 2) <=> bit(2) = 2
    BY <1>2, <1>3 DEF HasBit
  <2>4. HasBit(m, 4) <=> bit(3) = 4
    BY <1>2, <1>3 DEF HasBit
  <2>5. HasBit(m, 8) <=> bit(4) = 8
    BY <1>2, <1>3 DEF HasBit
  <2>6. HasBit(m, 16) <=> bit(5) = 16
    BY <1>2, <1>3 DEF HasBit
  <2>7. HasBit(m, 32) <=> bit(6) = 32
    BY <1>2, <1>3 DEF HasBit
  <2>8. HasBit(m, 64) <=> bit(7) = 64
    BY <1>2, <1>3 DEF HasBit
  <2>9. QED
    BY <1>4, <2>1, <2>2, <2>3, <2>4, <2>5, <2>6, <2>7, <2>8
<1>6. \A d \in 1 .. 7 : HasBit(ScheduleBitmask(days), weekDayBits[d]) <=> d \in days
  <2>1. \A d \in 1 .. 7 : d \in {1, 2, 3, 4, 5, 6, 7}
    OBVIOUS
  <2>2. QED
    BY <1>1, <1>5, <2>1
<1>7. days # {} => ScheduleBitmask(days) # 0
  <2>1. days # {} => \E d \in 1 .. 7 : HasBit(ScheduleBitmask(days), weekDayBits[d])
    BY <1>6
  <2>2. \A d \in 1 .. 7 : weekDayBits[d] \in Nat \ {0}
    BY DEF weekDayBits
  <2>3. \A b \in Nat \ {0} : ~HasBit(0, b)
    BY DEF HasBit
  <2>4. QED
    BY <2>1, <2>2, <2>3
<1>8. DaysOf(ScheduleBitmask(days)) = days
  BY <1>6 DEF DaysOf
<1>9. QED
  BY <1>5, <1>7, <1>8

(* Division by the length of a day: quotient and remainder.                *)
LEMMA DivMod ==
  ASSUME NEW D \in Nat \ {0}, NEW a \in Int
  PROVE  /\ a \div D \in Int
         /\ a % D \in 0 .. D - 1
         /\ a = D * (a \div D) + (a % D)
<1>1. a % D \in 0 .. D - 1
  OBVIOUS
<1>2. a \div D \in Int
  OBVIOUS
<1>3. QED
  BY <1>1, <1>2

(* Multiples of different numbers are at least a day apart.                *)
LEMMA Apart ==
  ASSUME NEW D \in Nat \ {0}, NEW p \in Int, NEW q \in Int, p < q
  PROVE  D * p + D <= D * q
<1>1. PICK k \in Nat : q = p + 1 + k
  <2>1. q - p - 1 \in Nat /\ q = p + 1 + (q - p - 1)
    OBVIOUS
  <2>2. QED
    BY <2>1
<1>2. D * q = D * p + D + D * k
  BY <1>1
<1>3. D * k >= 0 /\ D * k \in Int /\ D * p \in Int
  OBVIOUS
<1>4. QED
  BY <1>2, <1>3

(* There is one quotient and one remainder.                                *)
LEMMA OneDivMod ==
  ASSUME NEW D \in Nat \ {0}, NEW a \in Int, NEW q \in Int, NEW r \in 0 .. D - 1,
         a = D * q + r
  PROVE  a \div D = q /\ a % D = r
<1> DEFINE p == a \div D
           s == a % D
<1>1. /\ p \in Int /\ s \in 0 .. D - 1 /\ a = D * p + s
  BY DivMod
<1> HIDE DEF p, s
<1>2. D * p \in Int /\ D * q \in Int
  BY <1>1
<1>3. ~(p < q)
  <2> SUFFICES ASSUME p < q PROVE FALSE
    OBVIOUS
  <2>1. D * p + D <= D * q
    BY <1>1, Apart
  <2>2. QED
    BY <1>1, <1>2, <2>1
<1>4. ~(q < p)
  <2> SUFFICES ASSUME q < p PROVE FALSE
    OBVIOUS
  <2>1. D * q + D <= D * p
    BY <1>1, Apart
  <2>2. QED
    BY <1>1, <1>2, <2>1
<1>5. p = q
  BY <1>1, <1>3, <1>4
<1>6. s = r
  BY <1>1, <1>2, <1>5
<1>7. QED
  BY <1>5, <1>6 DEF p, s

(* Numbers with the same remainder keep it when the same is added.         *)
LEMMA SameMod ==
  ASSUME NEW D \in Nat \ {0}, NEW a \in Int, NEW b \in Int, a % D = b % D
  PROVE  \E k \in Int : a = b + D * k
<1> DEFINE p == a \div D
           q == b \div D
           r == b % D
<1>1. p \in Int /\ q \in Int /\ a = D * p + r /\ b = D * q + r /\ r \in Int
  BY DivMod
<1> HIDE DEF p, q, r
<1>2. D * (p - q) = D * p - D * q
  BY <1>1
<1>3. D * p \in Int /\ D * q \in Int /\ p - q \in Int
  BY <1>1
<1>4. a = b + D * (p - q)
  BY <1>1, <1>2, <1>3
<1>5. QED
  BY <1>3, <1>4

(* A number of whole days leaves the remainder.                            *)
LEMMA ModOfSum ==
  ASSUME NEW D \in Nat \ {0}, NEW a \in Int, NEW b \in Int, NEW k \in Int,
         a = b + D * k
  PROVE  a % D = b % D
<1> DEFINE q == b \div D
           r == b % D
<1>1. q \in Int /\ b = D * q + r /\ r \in 0 .. D - 1
  BY DivMod
<1> HIDE DEF q, r
<1>2. D * (q + k) = D * q + D * k /\ q + k \in Int
  BY <1>1
<1>3. D * q \in Int /\ D * k \in Int
  BY <1>1
<1>4. a = D * (q + k) + r
  BY <1>1, <1>2, <1>3
<1>5. a % D = r
  BY <1>1, <1>2, <1>4, OneDivMod
<1>6. QED
  BY <1>5 DEF r

(* Among as many numbers in a row as a day has ticks, one has a remainder. *)
LEMMA OnePerDay ==
  ASSUME NEW D \in Nat \ {0}, NEW first \in Int, NEW v \in Int
  PROVE  \E n \in first .. first + D - 1 :
           \A m \in first .. first + D - 1 : m % D = v % D <=> m = n
<1> DEFINE q == (v - first) \div D
           r == (v - first) % D
           n == first + r
<1>1. q \in Int /\ r \in 0 .. D - 1 /\ v - first = D * q + r
  <2>1. v - first \in Int
    OBVIOUS
  <2>2. QED
    BY <2>1, DivMod
<1> HIDE DEF q, r
<1>2. n \in first .. first + D - 1 /\ n \in Int /\ D * q \in Int
  BY <1>1
<1>3. v = n + D * q
  BY <1>1, <1>2
<1> HIDE DEF n
<1>4. v % D = n % D
  BY <1>1, <1>2, <1>3, ModOfSum
<1>5. \A m \in first .. first + D - 1 : m % D = n % D => m = n
  <2> SUFFICES ASSUME NEW m \in first .. first + D - 1, m % D = n % D
               PROVE  m = n
    OBVIOUS
  <2>1. m \in Int /\ n \in Int
    BY <1>2
  <2>2. PICK k \in Int : m = n + D * k
    BY <2>1, SameMod, Zenon
  <2>3. D * k \in Int /\ D * 0 = 0
    BY <2>2
  <2>4. ~(k < 0)
    <3>1. k < 0 => D * k + D <= D * 0
      BY <2>2, Apart
    <3>2. QED
      BY <1>2, <2>1, <2>2, <2>3, <3>1
  <2>5. ~(0 < k)
    <3>1. 0 < k => D * 0 + D <= D * k
      BY <2>2, Apart
    <3>2. QED
      BY <1>2, <2>1, <2>2, <2>3, <3>1
  <2>6. k = 0
    BY <2>2, <2>4, <2>5
  <2>7. QED
    BY <1>2, <2>2, <2>3, <2>6
<1>6. QED
  BY <1>2, <1>4, <1>5

-----------------------------------------------------------------------------
(* The mask is that of the days chosen, and since the last change a tick   *)
(* started the team just when the query matches it.                        *)
ScheduleInv ==
  /\ ScheduleTypeOK
  /\ ShownDays = chosen
  /\ \A n \in since .. tick - 1 : n \in started <=> Matches(n)

(* The invariant holds when the notifier starts.                           *)
LEMMA InitScheduleInv == ScheduleInit => ScheduleInv
<1> SUFFICES ASSUME ScheduleInit
             PROVE  ScheduleInv
  OBVIOUS
<1>1. chosen \in SUBSET (1 .. 7) /\ chosen # {} /\ mask = ScheduleBitmask(chosen)
  BY StandupScheduleAssumption DEF ScheduleInit
<1>2. DaysOf(mask) = chosen /\ mask \in 1 .. 127
  BY <1>1, MaskShowsDays
<1>3. ShownDays = chosen
  BY <1>2 DEF DaysOf, ShownDays
<1>4. ScheduleTypeOK
  BY <1>2, StandupScheduleAssumption DEF ScheduleInit, ScheduleTypeOK
<1>5. QED
  BY <1>3, <1>4 DEF ScheduleInit, ScheduleInv, ScheduleTypeOK

(* A minute asks for the tick, and leaves the answers before it.           *)
LEMMA MinuteStep == ScheduleInv /\ Minute => ScheduleInv'
<1> SUFFICES ASSUME ScheduleInv, Minute
             PROVE  ScheduleInv'
  OBVIOUS
<1>1. /\ tick < MaxTick /\ tick' = tick + 1
      /\ started' = IF Matches(tick) THEN started \cup {tick} ELSE started
      /\ UNCHANGED <<chosen, mask, start, utcOffset, zone, changes, since>>
  BY DEF Minute
<1>2. /\ tick \in FirstTick .. MaxTick /\ since \in FirstTick .. tick
      /\ started \subseteq FirstTick .. tick - 1
  BY DEF ScheduleInv, ScheduleTypeOK
<1>3. tick' \in FirstTick .. MaxTick /\ since' \in FirstTick .. tick'
  BY <1>1, <1>2, StandupScheduleAssumption
<1>4. started' \subseteq FirstTick .. tick' - 1
  <2>1. tick \in FirstTick .. tick' - 1
    BY <1>1, <1>2, StandupScheduleAssumption
  <2>2. FirstTick .. tick - 1 \subseteq FirstTick .. tick' - 1
    BY <1>1, <1>2, StandupScheduleAssumption
  <2>3. QED
    BY <1>1, <1>2, <2>1, <2>2
<1>5. ScheduleTypeOK'
  BY <1>1, <1>3, <1>4 DEF ScheduleInv, ScheduleTypeOK
<1>6. ShownDays' = chosen'
  BY <1>1 DEF ScheduleInv, ShownDays
<1>7. \A n : Matches(n)' <=> Matches(n)
  BY <1>1 DEF Matches
<1>8. \A n \in since' .. tick' - 1 : n \in started' <=> Matches(n)'
  <2> SUFFICES ASSUME NEW n \in since' .. tick' - 1
               PROVE  n \in started' <=> Matches(n)
    BY <1>7
  <2>1. CASE n = tick
    <3>1. tick \notin started
      BY <1>2, StandupScheduleAssumption
    <3>2. QED
      BY <1>1, <2>1, <3>1
  <2>2. CASE n # tick
    <3>1. n \in since .. tick - 1
      BY <1>1, <1>2, <2>2, StandupScheduleAssumption
    <3>2. n \in started <=> Matches(n)
      BY <3>1 DEF ScheduleInv
    <3>3. QED
      BY <1>1, <2>2, <3>2
  <2>3. QED
    BY <2>1, <2>2
<1>9. QED
  BY <1>5, <1>6, <1>8 DEF ScheduleInv

(* A change begins a new row of ticks.                                     *)
LEMMA ChangedStep ==
  ASSUME ScheduleInv, Changed, tick' = tick, started' = started,
         chosen' \in (SUBSET FormDays) \ {{}}, mask' \in 1 .. 127,
         ShownDays' = chosen', start' = start, utcOffset' = utcOffset,
         zone' \in Offsets
  PROVE  ScheduleInv'
<1>1. changes < MaxChanges /\ changes' = changes + 1 /\ since' = tick
  BY DEF Changed
<1>2. changes \in 0 .. MaxChanges /\ tick \in FirstTick .. MaxTick
  BY DEF ScheduleInv, ScheduleTypeOK
<1>3. /\ changes' \in 0 .. MaxChanges /\ since' \in FirstTick .. tick'
      /\ since' .. tick' - 1 = {}
  BY <1>1, <1>2, StandupScheduleAssumption
<1>4. ScheduleTypeOK'
  BY <1>3 DEF ScheduleInv, ScheduleTypeOK
<1>5. QED
  BY <1>3, <1>4 DEF ScheduleInv

(* The form reads the days out of the mask and writes them back.           *)
LEMMA EditDaysStep ==
  ASSUME ScheduleInv, NEW d \in FormDays, EditDays(d)
  PROVE  ScheduleInv'
<1>1. ShownDays = chosen /\ chosen \subseteq FormDays
  BY DEF ScheduleInv, ScheduleTypeOK
<1>2. DEFINE days == SymDiff(chosen, {d})
<1>3. /\ Changed /\ days # {} /\ mask' = ScheduleBitmask(days) /\ chosen' = days
      /\ UNCHANGED <<tick, start, utcOffset, zone, started>>
  BY <1>1 DEF EditDays
<1>4. days \in SUBSET FormDays /\ days \in SUBSET (1 .. 7)
  BY <1>1, StandupScheduleAssumption DEF SymDiff
<1> HIDE DEF days
<1>5. DaysOf(mask') = days /\ mask' \in 1 .. 127
  BY <1>3, <1>4, MaskShowsDays
<1>6. ShownDays' = chosen'
  BY <1>3, <1>5 DEF DaysOf, ShownDays
<1>7. chosen' \in (SUBSET FormDays) \ {{}} /\ zone' \in Offsets
  BY <1>3, <1>4 DEF ScheduleInv, ScheduleTypeOK
<1>8. QED
  BY <1>3, <1>5, <1>6, <1>7, ChangedStep

(* The clock of the zone does not touch the row of the team.               *)
LEMMA ShiftStep ==
  ASSUME ScheduleInv, NEW o \in Offsets, Shift(o)
  PROVE  ScheduleInv'
<1>1. Changed /\ zone' = o /\ UNCHANGED <<tick, chosen, mask, start, utcOffset, started>>
  BY DEF Shift
<1>2. ShownDays' = chosen'
  BY <1>1 DEF ScheduleInv, ShownDays
<1>3. mask' \in 1 .. 127 /\ chosen' \in (SUBSET FormDays) \ {{}}
  BY <1>1 DEF ScheduleInv, ScheduleTypeOK
<1>4. QED
  BY <1>1, <1>2, <1>3, ChangedStep

(* Every step keeps the invariant.                                         *)
LEMMA ScheduleInvStep == ScheduleInv /\ [ScheduleNext]_scheduleVars => ScheduleInv'
<1> SUFFICES ASSUME ScheduleInv, [ScheduleNext]_scheduleVars
             PROVE  ScheduleInv'
  OBVIOUS
<1>1. CASE Minute
  BY <1>1, MinuteStep
<1>2. CASE \E d \in FormDays : EditDays(d)
  BY <1>2, EditDaysStep
<1>3. CASE \E o \in Offsets : Shift(o)
  BY <1>3, ShiftStep
<1>4. CASE UNCHANGED scheduleVars
  BY <1>4 DEF scheduleVars, ScheduleInv, ScheduleTypeOK, ShownDays, Matches
<1>5. QED
  BY <1>1, <1>2, <1>3, <1>4 DEF ScheduleNext

-----------------------------------------------------------------------------
(* The ticks of a day of the zone.                                         *)
TicksOf(d) == d * Day - zone .. (d + 1) * Day - 1 - zone

(* In the ticks of one day of the zone, all asked since the last change,   *)
(* the query matches one tick, if any.                                     *)
LEMMA DayOfZone ==
  ASSUME ScheduleInv, NEW d \in Int
  PROVE  /\ \A n \in TicksOf(d) : n \in Int /\ IsoDow(n + zone) = 1 + (d % 7)
         /\ \E n \in TicksOf(d) : \A m \in TicksOf(d) :
              m % Day = (start - utcOffset) % Day <=> m = n
<1>1. Day \in Nat \ {0} /\ zone \in Int /\ start \in Int /\ utcOffset \in Int
  BY StandupScheduleAssumption DEF ScheduleInv, ScheduleTypeOK
<1>2. DEFINE first == d * Day - zone
<1>3. d * Day \in Int /\ (d + 1) * Day = d * Day + Day /\ d * Day = Day * d
  BY <1>1
<1>4. first \in Int /\ TicksOf(d) = first .. first + Day - 1
  BY <1>1, <1>3 DEF TicksOf
<1>5. \A n \in TicksOf(d) : n \in Int /\ IsoDow(n + zone) = 1 + (d % 7)
  <2> SUFFICES ASSUME NEW n \in TicksOf(d)
               PROVE  n \in Int /\ (n + zone) \div Day = d
    BY DEF IsoDow
  <2>1. n \in Int /\ n + zone \in Int
    BY <1>1, <1>4
  <2>2. n + zone - Day * d \in 0 .. Day - 1 /\ n + zone = Day * d + (n + zone - Day * d)
    BY <1>1, <1>3, <1>4, <2>1
  <2>3. QED
    BY <1>1, <2>1, <2>2, OneDivMod
<1> HIDE DEF first
<1>6. start - utcOffset \in Int
  BY <1>1
<1>7. \E n \in first .. first + Day - 1 : \A m \in first .. first + Day - 1 :
        m % Day = (start - utcOffset) % Day <=> m = n
  BY <1>1, <1>4, <1>6, OnePerDay
<1>8. QED
  BY <1>4, <1>5, <1>7

(* The invariant says when the team was started.                           *)
LEMMA StartsFromInv == ScheduleInv => StartsOnChosenDays
<1> SUFFICES ASSUME ScheduleInv, NEW d \in 0 .. MaxTick \div Day + 1,
                    TicksOf(d) \subseteq since .. tick - 1
             PROVE  LET starts == started \cap TicksOf(d) IN
                    /\ IF 1 + (d % 7) \in chosen
                         THEN \E n \in TicksOf(d) : starts = {n} ELSE starts = {}
                    /\ zone = utcOffset => \A n \in starts : (n + zone) % Day = start
  BY DEF StartsOnChosenDays, TicksOf
<1> DEFINE starts == started \cap TicksOf(d)
<1>1. /\ Day \in Nat \ {0} /\ zone \in Int /\ utcOffset \in Int
      /\ start \in 0 .. Day - 1 /\ MaxTick \in Nat
  BY StandupScheduleAssumption DEF ScheduleInv, ScheduleTypeOK
<1>2. d \in Int
  OBVIOUS
<1>3. PICK n \in TicksOf(d) : \A m \in TicksOf(d) :
        m % Day = (start - utcOffset) % Day <=> m = n
  BY <1>2, DayOfZone
<1>4. \A m \in TicksOf(d) : m \in Int /\ IsoDow(m + zone) = 1 + (d % 7)
  BY <1>2, DayOfZone
<1>5. 1 + (d % 7) \in 1 .. 7
  BY <1>2
<1>6. HasBit(mask, weekDayBits[1 + (d % 7)]) <=> 1 + (d % 7) \in chosen
  BY <1>5 DEF ScheduleInv, ShownDays
<1>7. \A m \in TicksOf(d) : m \in started <=> (m = n /\ 1 + (d % 7) \in chosen)
  <2> SUFFICES ASSUME NEW m \in TicksOf(d)
               PROVE  m \in started <=> (m = n /\ 1 + (d % 7) \in chosen)
    OBVIOUS
  <2>1. m \in started <=> Matches(m)
    BY DEF ScheduleInv
  <2>2. Matches(m) <=> ((start - utcOffset) % Day = m % Day /\ 1 + (d % 7) \in chosen)
    BY <1>4, <1>6 DEF Matches
  <2>3. QED
    BY <1>3, <2>1, <2>2
<1>8. IF 1 + (d % 7) \in chosen THEN \E m \in TicksOf(d) : starts = {m} ELSE starts = {}
  <2>1. CASE 1 + (d % 7) \in chosen
    <3>1. starts = {n}
      BY <1>7, <2>1
    <3>2. QED
      BY <2>1, <3>1
  <2>2. CASE 1 + (d % 7) \notin chosen
    <3>1. starts = {}
      BY <1>7, <2>2
    <3>2. QED
      BY <2>2, <3>1
  <2>3. QED
    BY <2>1, <2>2
<1>9. ASSUME zone = utcOffset, NEW m \in starts
      PROVE  (m + zone) % Day = start
  <2>1. m \in Int /\ m % Day = (start - zone) % Day
    BY <1>3, <1>4, <1>7, <1>9
  <2>2. DEFINE x == m + zone
               y == start - zone
  <2>3. x \in Int /\ y \in Int /\ start \in Int /\ start = y + zone /\ m = x - zone
    BY <1>1, <2>1
  <2>4. m % Day = y % Day
    BY <2>1
  <2> HIDE DEF x, y
  <2>5. PICK k \in Int : m = y + Day * k
    <3>1. Day \in Nat \ {0} /\ m \in Int /\ y \in Int
      BY <1>1, <2>1, <2>3
    <3>2. QED
      BY <2>4, <3>1, SameMod, Zenon
  <2>6. Day * k \in Int
    BY <1>1, <2>5
  <2>7. x = Day * k + start
    BY <1>1, <2>1, <2>3, <2>5, <2>6
  <2>8. x % Day = start
    <3>1. Day \in Nat \ {0} /\ x \in Int /\ k \in Int /\ start \in 0 .. Day - 1
      BY <1>1, <2>3
    <3>2. QED
      BY <2>7, <3>1, OneDivMod, Zenon
  <2>9. QED
    BY <2>8 DEF x
<1>10. QED
  BY <1>8, <1>9

(* The mask keeps seven bits, with at least one of them set, whatever days *)
(* the form of the team is edited to.                                      *)
THEOREM ScheduleTypeCorrect == ScheduleSpec => []ScheduleTypeOK
<1>1. ScheduleInv => ScheduleTypeOK
  BY DEF ScheduleInv
<1>2. QED
  BY <1>1, InitScheduleInv, ScheduleInvStep, PTL DEF ScheduleSpec

(* On each day of its zone a team starts once, if it is a day the user     *)
(* chose, or never; at the time it is to start if the zone's clock is as   *)
(* the row has it: for any length of a day, any offsets and any edits.     *)
THEOREM StartsOnChosenDaysHolds == ScheduleSpec => []StartsOnChosenDays
BY InitScheduleInv, ScheduleInvStep, StartsFromInv, PTL DEF ScheduleSpec

=============================================================================
