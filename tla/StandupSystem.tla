--------------------------- MODULE StandupSystem ---------------------------
(***************************************************************************)
(* The notifier and the interaction path side by side.  They share the     *)
(* Postgres tables, the prompts in Slack and the clock, and nothing else:  *)
(* each reads what the other has written and neither waits for the other.  *)
(* The environment each component assumes in its own module is replaced by *)
(* the other component.                                                    *)
(***************************************************************************)
EXTENDS StandupData

CONSTANTS Faults, Rollbar, MaxJobs, WorkerFaults, QueueOption

VARIABLES
  now, duration, created, endAt, rows, answers, message, report,
  up, startLive, endLive, startQuery, creating, loaded, greeting, cursor,
  saving, endQuery, posting, reading, joined, linking,
  workerUp, jobs, dialog, unsaved, writing

N == INSTANCE StandupNotifier
W == INSTANCE StandupWorker

ASSUME SystemAssumption == N!NotifierAssumption /\ W!WorkerAssumption

workerOnly == <<workerUp, jobs, dialog, unsaved, writing>>
notifierOnly ==
  <<duration, report, up, startLive, endLive, startQuery, creating, loaded,
    greeting, cursor, saving, endQuery, posting, reading, joined, linking>>
vars == <<now, created, endAt, rows, answers, message, notifierOnly, workerOnly>>

Init == N!Init /\ W!Init

NotifierStep == (N!Notifier \/ N!Edit) /\ UNCHANGED workerOnly

InteractionStep == (W!Client \/ W!Worker) /\ UNCHANGED notifierOnly

Next == NotifierStep \/ InteractionStep

Spec == Init /\ [][Next]_vars

-----------------------------------------------------------------------------
(* Each component is the environment the other one assumes: what holds of  *)
(* StandupNotifier and StandupWorker alone holds of the two together.      *)

(* The interaction path only does what StandupNotifier's Worker allows: it *)
(* stores answers of users that have a row, and draws a check mark only on *)
(* the message of a user whose answers are stored.                         *)
WorkerIsAsAssumed == N!Spec

(* The notifier only does what StandupWorker's Notifier allows: rows after *)
(* greetings, links after the end, check marks of stored answers.          *)
NotifierIsAsAssumed == W!Spec

-----------------------------------------------------------------------------
(* The two implement the promise of DailyStandup.  A row is the moment a   *)
(* user counts as asked; a cut is taken by findEnd.                        *)

Daily == INSTANCE DailyStandup WITH
  time <- now,
  ends <- endAt,
  open <- created,
  asked <- rows,
  told <- answers,
  cut <- [s \in Standups |-> IF s \in posting THEN {reading[s]} ELSE {}],
  published <- report

(* Notifier, queue and worker together publish at most one report per      *)
(* standup, a consistent cut not older than its end, through crashes and   *)
(* errors of both.                                                         *)
ImplementsDaily == Daily!Spec

(* What the handlers of the interaction path store in time is in the       *)
(* report, although sendReport works from what findEnd read before.        *)
InTimeIsReported == N!InTimeIsReported

(* With a duration of 0, or after a missed end tick, a standup stays       *)
(* without a report, whatever the users submit later.                      *)
MissedForGood == N!MissedForGood

-----------------------------------------------------------------------------
(* What neither component shows alone: the message both of them redraw.    *)

Settled ==
  /\ up /\ saving = {} /\ posting = {} /\ endQuery = {}
  /\ \A s \in Standups : creating[s] = "idle" /\ linking[s] = {}
  /\ \A n \in DOMAIN jobs : jobs[n].stage \in W!Over

Listed(s, u) == \E i \in DOMAIN report[s] : u \in DOMAIN report[s][i]
ReportedAnswer(s, u) == \E i \in DOMAIN report[s] : N!Answered(report[s][i], u)

(* Once everything has come to rest and nothing failed, the message of a   *)
(* user the report lists links to it, unless the user submitted something; *)
(* and stored answers show as a check mark, unless sendReport drew the     *)
(* message from answers it had read before they were stored.               *)
SettledMessages ==
  Settled => \A s \in Standups, u \in Users :
    /\ Listed(s, u) /\ W!Submissions(s, u) = {} => message[s][u].link
    /\ answers[s][u] # NoAnswer =>
         message[s][u].check \/ (message[s][u].link /\ ~ReportedAnswer(s, u))

(* Why it is so: until everything rests, what is missing is on its way.  A *)
(* user the report lists has the link, or sendReport is to draw it.        *)
LinksOnTheWay ==
  \A s \in Standups, u \in Users :
    Listed(s, u) /\ W!Submissions(s, u) = {} => u \in linking[s] \/ message[s][u].link

(* Stored answers show, or a handler of a submission is to redraw: its own *)
(* flush or another one has stored them.                                   *)
ChecksOnTheWay ==
  \A s \in Standups, u \in Users :
    answers[s][u] # NoAnswer =>
      \/ \E n \in W!Submissions(s, u) : jobs[n].stage \in {"assigned", "flushing", "stored"}
      \/ message[s][u].check
      \/ message[s][u].link /\ ~ReportedAnswer(s, u)

(* A message loses its link in one way only: to a submission whose dialog  *)
(* was built before the standup's end and whose answers came to be stored, *)
(* too late for the report or not.                                         *)
LinkLostToSubmission ==
  [][\A s \in Standups, u \in Users :
       message[s][u].link /\ ~message'[s][u].link =>
         \E n \in W!Submissions(s, u) :
           /\ jobs[n].born <= endAt[s]
           /\ answers[s][u] # NoAnswer
           /\ jobs'[n].stage = "done"]_vars

=============================================================================
