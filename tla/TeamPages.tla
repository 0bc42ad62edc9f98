----------------------------- MODULE TeamPages -----------------------------
(***************************************************************************)
(* One tab with the pages about teams: the list of teams with its          *)
(* switches, the archive, and the form of a new team; and the requests     *)
(* they make, each of which the server may carry out, and the browser see  *)
(* answered, in any order.                                                 *)
(* (src/frontend/src/app/pages/teams, pages/team, component/async.directive,*)
(* interceptor/api-status.interceptor, http/controller/team.controller.ts) *)
(*                                                                         *)
(* Angular and rxjs are external: a page that is left is destroyed with    *)
(* its subscriptions; switchMap drops the request it had; a stream that    *)
(* has failed is over; going to the url shown does nothing.                *)
(***************************************************************************)
EXTENDS Naturals, Sequences, FiniteSets

CONSTANTS
  Durations,   \* that a form may have
  MaxTeams,    \* rows of Team (a bound)
  MaxCalls,    \* requests that change a team (a bound)
  MaxVisits,   \* pages that are opened (a bound)
  PageFaults   \* the kinds of failure that may happen (a bound)

(* "5xx": the server fails; "offline": no answer.  Both may have happened  *)
(* before the request was carried out, or after.                           *)
PageFaultKinds == {"5xx", "offline"}

ASSUME TeamPagesAssumption ==
  /\ Durations \subseteq Nat
  /\ MaxTeams \in Nat /\ MaxCalls \in Nat /\ MaxVisits \in Nat
  /\ PageFaults \subseteq PageFaultKinds

VARIABLES
  teams,    \* Team rows, in the order of their ids
  url,      \* the page of the tab
  broken,   \* the error text is shown instead of it
  list,     \* what the list shows of each team, a function
  loads,    \* lists shown so far: their teams are different objects
  fetch,    \* GET /api/team of the page
  read,     \* what it read, a function from teams to their status
  calls,    \* requests that change a team
  draft,    \* the form
  visits,   \* so far
  again,    \* forms saved again, see TwinTeams
  doubtful  \* teams whose list may be wrong, see ListAgrees

pageVars == <<teams, url, broken, list, loads, fetch, read, calls, draft, visits, again, doubtful>>

TEAM_STATUS_ACTIVATED == 1
TEAM_STATUS_DEACTIVATED == 2
TEAM_STATUS_ACHIEVED == 3
teamStatuses == {TEAM_STATUS_ACTIVATED, TEAM_STATUS_DEACTIVATED, TEAM_STATUS_ACHIEVED}

(* The default of the column.                                              *)
DefaultDuration == 30

Nothing == <<>>
Lists == {"teams", "archive"}
Names == {"good", "bad"}
TeamIds == DOMAIN teams

CallKinds == {"toggle", "move", "create"}
CallStages == {"sent", "done", "invalid", "5xx", "offline", "failed"}

(* What is left of a request that is over.                                 *)
Over == [kind |-> "none", stage |-> "over"]

(* A form just filled in, the n-th page; and none.  The server refuses a   *)
(* "bad" name.                                                             *)
Forms(n) == [no : {n}, name : {"good"}, duration : Durations, marked : {FALSE}]
NoDraft == [no |-> 0, name |-> "good", duration |-> DefaultDuration, marked |-> FALSE]

PageTypeOK ==
  /\ \A t \in TeamIds : teams[t] \in
       [status : teamStatuses, of : 0 .. visits + 1,
        duration : Durations \cup {DefaultDuration}, asked : Durations \cup {DefaultDuration}]
  /\ url \in Lists \cup {"form"} /\ broken \in BOOLEAN
  /\ DOMAIN list \subseteq TeamIds
  /\ \A t \in DOMAIN list : list[t] \in [status : teamStatuses, on : BOOLEAN]
  /\ list # Nothing \/ fetch # "no" => url \in Lists /\ ~broken
  /\ fetch \in {"no", "sent", "read", "dead"} /\ DOMAIN read \subseteq TeamIds
  /\ loads \in Nat
  /\ \A c \in DOMAIN calls : calls[c] # Over =>
       /\ calls[c].kind \in CallKinds /\ calls[c].stage \in CallStages
       /\ calls[c].stage = "invalid" => calls[c].kind = "create"
  /\ draft \in [no : 0 .. visits + 1, name : Names,
               duration : Durations \cup {DefaultDuration}, marked : BOOLEAN]
  /\ again \subseteq 1 .. visits + 1 /\ doubtful \subseteq TeamIds

PageInit ==
  /\ teams \in {<<>>} \cup
       {<<[status |-> s, of |-> 0, duration |-> DefaultDuration, asked |-> DefaultDuration]>> :
          s \in teamStatuses}
  /\ \/ url = "teams" /\ fetch = "sent" /\ draft = NoDraft
     \/ url = "form" /\ fetch = "no" /\ draft \in Forms(1)
  /\ list = Nothing /\ read = Nothing /\ loads = 0 /\ broken = FALSE
  /\ calls = <<>>
  /\ visits = 0 /\ again = {} /\ doubtful = {}

UnderWay == {c \in DOMAIN calls : calls[c].stage \notin {"over", "failed"}}
Changes == {c \in UnderWay : calls[c].kind # "create"}
Creates == {c \in DOMAIN calls : calls[c].kind = "create"}

(* The teams that requests under way are about.                            *)
Touched == {calls[c].team : c \in Changes}

Listed(t, u) == (teams[t].status = TEAM_STATUS_ACHIEVED) <=> (u = "archive")

-----------------------------------------------------------------------------
(* Pages                                                                   *)

(* A list is asked for; an answer on its way is dropped.                   *)
getTeams == fetch' = "sent" /\ read' = Nothing

(* The page u opens; a form gets its number.                               *)
Opened(u) ==
  /\ url' = u /\ broken' = FALSE
  /\ list' = Nothing
  /\ IF u \in Lists THEN getTeams ELSE fetch' = "no" /\ read' = Nothing
  /\ draft' \in IF u = "form" THEN Forms(visits' + 1) ELSE {NoDraft}
  /\ doubtful' = Touched

Go(u) ==
  /\ visits < MaxVisits /\ u # url
  /\ visits' = visits + 1
  /\ Opened(u)
  /\ UNCHANGED <<teams, loads, calls, again>>

(* The page gives way to the error text.                                   *)
Breaks ==
  /\ broken' = TRUE
  /\ list' = Nothing /\ fetch' = "no" /\ read' = Nothing /\ draft' = NoDraft

(* TeamController.list, for the status of the route.                       *)
TeamsRead ==
  /\ fetch = "sent"
  /\ fetch' = "read"
  /\ read' = [t \in {i \in TeamIds : Listed(i, url)} |-> teams[t].status]
  /\ UNCHANGED <<teams, url, broken, list, loads, calls, draft, visits, again, doubtful>>

TeamsArrive ==
  /\ fetch = "read"
  /\ list' = [t \in DOMAIN read |-> [status |-> read[t], on |-> read[t] = TEAM_STATUS_ACTIVATED]]
  /\ loads' = loads + 1
  /\ fetch' = "no" /\ read' = Nothing
  /\ UNCHANGED <<teams, url, broken, calls, draft, visits, again, doubtful>>

(* Nobody hears the error of teams$: what is shown stays, and update has   *)
(* no effect any more.                                                     *)
TeamsFail ==
  /\ fetch = "sent"
  /\ \/ "5xx" \in PageFaults /\ Breaks
     \/ "offline" \in PageFaults /\ fetch' = "dead" /\ UNCHANGED <<broken, list, read, draft>>
  /\ UNCHANGED <<teams, url, loads, calls, visits, again, doubtful>>

-----------------------------------------------------------------------------
(* The status of a team                                                    *)

SendCall(call) == Len(calls) < MaxCalls /\ calls' = Append(calls, call)

updateStatus(kind, t, s) ==
  SendCall([kind |-> kind, stage |-> "sent", team |-> t, status |-> s, load |-> loads])

StatusCall(kind, t, s) ==
  /\ updateStatus(kind, t, s)
  /\ doubtful' = IF t \in Touched \/ fetch # "no" THEN doubtful \cup {t} ELSE doubtful
  /\ UNCHANGED <<teams, url, broken, loads, fetch, read, draft, visits, again>>

(* The switch moves at once, the status it asks for is that of the last    *)
(* answer.                                                                 *)
Toggle(t) ==
  /\ t \in DOMAIN list /\ list[t].status # TEAM_STATUS_ACHIEVED
  /\ list' = [list EXCEPT ![t].on = ~@]
  /\ StatusCall("toggle", t, IF list[t].status = TEAM_STATUS_ACTIVATED THEN TEAM_STATUS_DEACTIVATED ELSE TEAM_STATUS_ACTIVATED)

(* achieve, restoreTeam                                                    *)
Move(t) ==
  /\ t \in DOMAIN list
  /\ StatusCall("move", t, IF list[t].status = TEAM_STATUS_ACHIEVED THEN TEAM_STATUS_ACTIVATED ELSE TEAM_STATUS_ACHIEVED)
  /\ UNCHANGED list

Stage(c, s) == calls' = [calls EXCEPT ![c].stage = s]
Ends(c) == calls' = [calls EXCEPT ![c] = Over]

StatusReply(c) ==
  /\ c \in Changes /\ calls[c].stage = "sent"
  /\ \/ Stage(c, "done")
        /\ teams' = [teams EXCEPT ![calls[c].team].status = calls[c].status]
     \/ \E f \in PageFaults :
          /\ Stage(c, f)
          /\ \/ UNCHANGED teams
             \/ teams' = [teams EXCEPT ![calls[c].team].status = calls[c].status]
  /\ UNCHANGED <<url, broken, list, loads, fetch, read, draft, visits, again, doubtful>>

(* The page is still the one the request was made on.                      *)
SamePage(c) == list # Nothing /\ calls[c].load = loads

(* Mutant: the team keeps the status it had.                               *)
ToggledKept(c) ==
  /\ calls[c].stage = "done" /\ calls[c].kind = "toggle"
  /\ Ends(c)
  /\ UNCHANGED <<teams, url, broken, list, loads, fetch, read, draft, visits, again, doubtful>>

(* The team takes the status of the answer; its switch follows when that   *)
(* is another than before.                                                 *)
Toggled(c) ==
  /\ calls[c].stage = "done" /\ calls[c].kind = "toggle"
  /\ Ends(c)
  /\ LET t == calls[c].team
         s == calls[c].status IN
     list' = IF SamePage(c) /\ list[t].status # s
               THEN [list EXCEPT ![t] = [status |-> s, on |-> s = TEAM_STATUS_ACTIVATED]] ELSE list
  /\ UNCHANGED <<teams, url, broken, loads, fetch, read, draft, visits, again, doubtful>>

(* update: the list is fetched again, unless its stream has failed.        *)
Moved(c) ==
  /\ calls[c].stage = "done" /\ calls[c].kind = "move"
  /\ Ends(c)
  /\ IF SamePage(c) /\ fetch # "dead"
       THEN getTeams /\ doubtful' = Touched'
       ELSE UNCHANGED <<fetch, read, doubtful>>
  /\ UNCHANGED <<teams, url, broken, list, loads, draft, visits, again>>

(* A request that has no answer leaves the page as it is, and the switch   *)
(* where it was put.                                                       *)
CallFails(c) ==
  /\ calls[c].stage \in PageFaultKinds
  /\ IF c \in Creates THEN Stage(c, "failed") ELSE Ends(c)
  /\ IF calls[c].stage = "5xx" THEN Breaks ELSE UNCHANGED <<broken, list, fetch, read, draft>>
  /\ doubtful' = IF c \in Creates THEN doubtful ELSE doubtful \cup {calls[c].team}
  /\ UNCHANGED <<teams, url, loads, visits, again>>

-----------------------------------------------------------------------------
(* The form of a new team                                                  *)

OnForm == url = "form" /\ ~broken

(* Editing a field takes back the error that an answer has marked it with. *)
EditForm(name) ==
  /\ OnForm /\ name # draft.name
  /\ draft' = [draft EXCEPT !.name = name, !.marked = FALSE]
  /\ UNCHANGED <<teams, url, broken, list, loads, fetch, read, calls, visits, again, doubtful>>

createTeam(team) ==
  SendCall([kind |-> "create", stage |-> "sent", of |-> team.no,
            name |-> team.name, duration |-> team.duration])

(* submit() does not look for a request under way.                         *)
SaveForm ==
  /\ OnForm /\ ~draft.marked
  /\ createTeam(draft)
  /\ again' = again \cup
       {calls[c].of : c \in {d \in Creates :
          calls[d].of = draft.no /\ (d \in UnderWay \/ calls[d].stage = "failed")}}
  /\ UNCHANGED <<teams, url, broken, list, loads, fetch, read, draft, visits, doubtful>>

(* TeamController.create: the team has a duration only by the default of   *)
(* the column.                                                             *)
TeamStored(call) == Append(teams, [status |-> TEAM_STATUS_ACTIVATED, duration |-> DefaultDuration, of |-> call.of,
                               asked |-> call.duration])

CreateReply(c) ==
  /\ c \in Creates /\ calls[c].stage = "sent"
  /\ \/ calls[c].name = "bad" /\ Stage(c, "invalid") /\ UNCHANGED <<teams, doubtful>>
     \/ \E f \in PageFaults : Stage(c, f) /\ UNCHANGED <<teams, doubtful>>
     \/ /\ calls[c].name = "good" /\ Len(teams) < MaxTeams
        /\ \E s \in {"done"} \cup PageFaults : Stage(c, s)
        /\ teams' = TeamStored(calls[c])
        /\ doubtful' = IF url \in Lists /\ fetch # "sent"
                         THEN doubtful \cup {Len(teams')} ELSE doubtful
  /\ UNCHANGED <<url, broken, list, loads, fetch, read, draft, visits, again>>

(* Mutant: the form stays open.                                            *)
CreatedStays(c) ==
  /\ c \in Creates /\ calls[c].stage = "done"
  /\ Ends(c)
  /\ UNCHANGED <<teams, url, broken, list, loads, fetch, read, draft, visits, again, doubtful>>

(* The tab goes to the list, from whatever page it shows by now.           *)
Created(c) ==
  /\ c \in Creates /\ calls[c].stage = "done"
  /\ Ends(c)
  /\ IF url = "teams" THEN UNCHANGED <<url, broken, list, fetch, read, draft, doubtful>>
                      ELSE Opened("teams")
  /\ UNCHANGED <<teams, loads, visits, again>>

(* applyFormErrors marks the field, corrected or not.                      *)
Refused(c) ==
  /\ calls[c].stage = "invalid"
  /\ Ends(c)
  /\ draft' = [draft EXCEPT !.marked = @ \/ (OnForm /\ draft.no = calls[c].of)]
  /\ UNCHANGED <<teams, url, broken, list, loads, fetch, read, visits, again, doubtful>>

-----------------------------------------------------------------------------

PageNext ==
  \/ \E u \in Lists \cup {"form"} : Go(u)
  \/ TeamsRead \/ TeamsArrive \/ TeamsFail
  \/ \E t \in DOMAIN list : Toggle(t) \/ Move(t)
  \/ \E c \in DOMAIN calls :
       \/ StatusReply(c) \/ Toggled(c) \/ Moved(c) \/ CallFails(c)
       \/ CreateReply(c) \/ Created(c) \/ Refused(c)
  \/ \E name \in Names : EditForm(name)
  \/ SaveForm

PageSpec == PageInit /\ [][PageNext]_pageVars

-----------------------------------------------------------------------------

(* When no request of a list is under way, the list has just the teams it  *)
(* is about, with their switches where their rows have them: unless        *)
(* requests about a team overlapped, one was not answered, or the team was *)
(* created while the list was open.                                        *)
ListAgrees ==
  url \in Lists /\ ~broken /\ fetch = "no" =>
    \A t \in TeamIds \ (doubtful \cup Touched) :
      /\ t \in DOMAIN list <=> Listed(t, url)
      /\ t \in DOMAIN list => list[t].on = (teams[t].status = TEAM_STATUS_ACTIVATED)

(* A form makes a second team only if it was saved again before the first  *)
(* answer, or after one that did not come.                                 *)
TwinTeams ==
  \A t, u \in TeamIds : teams[t].of = teams[u].of /\ t # u => teams[t].of \in again \cup {0}

(* A team has the duration its form was saved with.                        *)
CreatedAsSubmitted == \A t \in TeamIds : teams[t].duration = teams[t].asked

=============================================================================
