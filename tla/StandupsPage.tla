---------------------------- MODULE StandupsPage ----------------------------
(***************************************************************************)
(* The page of a team's standups in one tab, and the list the server makes *)
(* it from while the notifier adds standups.                               *)
(* (src/frontend/src/app/pages/standups, http/controller/standup.controllert.ts,*)
(* src/frontend/src/api/auto/api/standup.service.ts)                       *)
(*                                                                         *)
(* Angular, rxjs and the paginator are external, as in TeamPages: the      *)
(* component stays while only its parameters change, switchMap drops the   *)
(* requests it had, combineLatest waits for both of its own, and a stream  *)
(* that has failed is over.                                                *)
(***************************************************************************)
EXTENDS Naturals, FiniteSets

CONSTANTS
  PageTeams,     \* teams with a page
  Ticks,         \* at which their standups start
  ItemsPerPage,  \* standups of a page
  MaxPage,       \* pages a URL may name (a bound)
  MaxMoves,      \* changes of the URL (a bound)
  ListFaults     \* the kinds of failure that may happen (a bound)

(* "5xx": the server fails; "other": no answer, or 404, which nobody shows. *)
ListFaultKinds == {"5xx", "other"}

(* The server takes another limit for 5.                                   *)
ASSUME StandupsPageAssumption ==
  /\ Ticks \subseteq Nat /\ IsFiniteSet(Ticks)
  /\ ItemsPerPage \in 1 .. 10
  /\ MaxPage \in Nat /\ Cardinality(Ticks) <= MaxPage * ItemsPerPage
  /\ MaxMoves \in Nat
  /\ ListFaults \subseteq ListFaultKinds

VARIABLES
  rows,     \* Standup rows of each team, by their start
  at,       \* the URL: a team and a page, 0 for none
  current,  \* the field page, 0 while it is undefined
  gets,     \* the two requests of the page
  shown,    \* what they answered last
  over,     \* response$ has failed
  hidden,   \* the page gave way to the error text
  moves,    \* so far
  news      \* standups that came in since the list's first query; no part of the code

standupsVars == <<rows, at, current, gets, shown, over, hidden, moves, news>>

NoGets == [list |-> "no", team |-> "no", read |-> {}, items |-> {}, total |-> 0]
Queries == {"find", "count"}
getStandups(g) == [g EXCEPT !.list = "sent"]
getTeam(g) == [g EXCEPT !.team = "sent"]
Asking == getTeam(getStandups(NoGets))
Blank == [team |-> "none", items |-> {}, total |-> 0]

StandupsTypeOK ==
  /\ rows \in [PageTeams -> SUBSET Ticks]
  /\ at \in [team : PageTeams, page : 0 .. MaxPage]
  /\ current \in 0 .. Cardinality(Ticks)
  /\ gets \in [list : {"no", "sent", "here"}, team : {"no", "sent", "here"},
               read : SUBSET Queries, items : SUBSET Ticks, total : 0 .. Cardinality(Ticks)]
  /\ shown \in [team : PageTeams \cup {"none"}, items : SUBSET Ticks, total : 0 .. Cardinality(Ticks)]
  /\ over \in BOOLEAN /\ hidden \in BOOLEAN
  /\ news \in {"none", "later", "between"}
  /\ over \/ hidden => gets = NoGets
  /\ hidden => shown = Blank
  /\ moves \in 0 .. MaxMoves

StandupsInit ==
  /\ rows = [t \in PageTeams |-> {}]
  /\ at \in [team : PageTeams, page : 0 .. MaxPage]
  /\ current = 0 /\ gets = Asking /\ shown = Blank
  /\ over = FALSE /\ hidden = FALSE /\ moves = 0 /\ news = "none"

(* createStandup of one tick may take longer than that of the next.        *)
StandupStarts(t, m) ==
  /\ m \notin rows[t]
  /\ rows' = [rows EXCEPT ![t] = @ \cup {m}]
  /\ news' = IF t # at.team THEN news
             ELSE IF \E n \in rows[t] : n > m THEN "between"
             ELSE IF news = "none" THEN "later" ELSE news
  /\ UNCHANGED <<at, current, gets, shown, over, hidden, moves>>

-----------------------------------------------------------------------------
(* The server                                                              *)

(* Mutant: the last standup comes first.                                   *)
SelectedLastFirst(starts, page) ==
  LET place(m) == Cardinality({n \in starts : n > m})
      offset == (IF page < 1 THEN 0 ELSE page - 1) * ItemsPerPage
  IN {m \in starts : place(m) \in offset .. offset + ItemsPerPage - 1}

(* StandupController.list: ordered by their start, limit and offset.  A    *)
(* page that is not a number, or less than 1, is the first.                *)
Selected(starts, page) ==
  LET place(m) == Cardinality({n \in starts : n < m})
      offset == (IF page < 1 THEN 0 ELSE page - 1) * ItemsPerPage
  IN {m \in starts : place(m) \in offset .. offset + ItemsPerPage - 1}

(* findAndCount: two queries, without a transaction around them.           *)
ListRead(query) ==
  /\ gets.list = "sent" /\ query \notin gets.read
  /\ gets' = IF query = "find"
               THEN [gets EXCEPT !.read = @ \cup {query}, !.items = Selected(rows[at.team], at.page)]
               ELSE [gets EXCEPT !.read = @ \cup {query}, !.total = Cardinality(rows[at.team])]
  /\ news' = IF gets.read = {} THEN "none" ELSE news
  /\ UNCHANGED <<rows, at, current, shown, over, hidden, moves>>

-----------------------------------------------------------------------------
(* The page                                                                *)

(* The page changes when both requests are answered.                       *)
Answered(g) ==
  IF g.list = "here" /\ g.team = "here"
    THEN gets' = NoGets /\ shown' = [team |-> at.team, items |-> g.items, total |-> g.total]
    ELSE gets' = g /\ UNCHANGED shown

ListArrives ==
  /\ gets.list = "sent" /\ gets.read = Queries
  /\ Answered([gets EXCEPT !.list = "here"])
  /\ UNCHANGED <<rows, at, current, over, hidden, moves, news>>

TeamArrives ==
  /\ gets.team = "sent"
  /\ Answered([gets EXCEPT !.team = "here"])
  /\ UNCHANGED <<rows, at, current, over, hidden, moves, news>>

(* One of the two fails: the interceptor shows the error text instead of   *)
(* the page, or else nobody hears the error and the stream is over.        *)
GetFails ==
  /\ gets # NoGets
  /\ gets' = NoGets
  /\ \/ "5xx" \in ListFaults /\ hidden' = TRUE /\ shown' = Blank /\ UNCHANGED over
     \/ "other" \in ListFaults /\ over' = TRUE /\ UNCHANGED <<shown, hidden>>
  /\ UNCHANGED <<rows, at, current, moves, news>>

MovesTo(t, p) ==
  /\ moves < MaxMoves /\ moves' = moves + 1
  /\ at' = [team |-> t, page |-> p]

(* The page is opened, from elsewhere or in place of the error text.       *)
OpenStandups(t, p) ==
  /\ MovesTo(t, p)
  /\ current' = 0 /\ gets' = Asking /\ shown' = Blank
  /\ over' = FALSE /\ hidden' = FALSE
  /\ UNCHANGED <<rows, news>>

(* The parameters of the route change under the page.                      *)
Follow == gets' = (IF over THEN NoGets ELSE Asking)

(* Back, forward, or further in the history.                               *)
GoInHistory(t, p) ==
  /\ ~hidden /\ at # [team |-> t, page |-> p]
  /\ MovesTo(t, p) /\ Follow
  /\ UNCHANGED <<rows, current, shown, over, hidden, news>>

PageCount == (shown.total + ItemsPerPage - 1) \div ItemsPerPage

(* The paginator offers the pages but the one it takes for the current;    *)
(* it does not look at the URL, which may name page p already.             *)
pageChanged(p) ==
  /\ p # (IF current = 0 THEN 1 ELSE current)
  /\ current' = p
  /\ IF at.page = p THEN UNCHANGED <<at, gets, moves>> ELSE MovesTo(at.team, p) /\ Follow
  /\ UNCHANGED <<rows, shown, over, hidden, news>>

-----------------------------------------------------------------------------

StandupsNext ==
  \/ \E t \in PageTeams, m \in Ticks : StandupStarts(t, m)
  \/ \E query \in Queries : ListRead(query)
  \/ ListArrives \/ TeamArrives \/ GetFails
  \/ \E t \in PageTeams, p \in 0 .. MaxPage : OpenStandups(t, p) \/ GoInHistory(t, p)
  \/ \E p \in 1 .. PageCount : pageChanged(p)

StandupsSpec == StandupsInit /\ [][StandupsNext]_standupsVars

-----------------------------------------------------------------------------

(* At rest the page is that of the URL, however answers, navigations and   *)
(* new standups interleave: it is of the URL's team; its standups still    *)
(* are on that page, so that going through the pages shows each once,      *)
(* unless one came in before others since; and while none came in since,   *)
(* it has all of them and the right total.  Not so once the stream failed. *)
PageIsOfUrl ==
  gets = NoGets /\ ~over /\ ~hidden =>
    /\ shown.team = at.team
    /\ news # "between" => shown.items \subseteq Selected(rows[at.team], at.page)
    /\ news = "none" => /\ shown.items = Selected(rows[at.team], at.page)
                        /\ shown.total = Cardinality(rows[at.team])

=============================================================================
