-------------------------- MODULE StandupNotifier --------------------------
(***************************************************************************)
(* The notifier process (`standup:notify`): StandupNotifyCommand.handler   *)
(* and the two streams StandupNotifier.create gives it.                    *)
(*                                                                         *)
(*   start$  each cron tick -> findByStart -> createStandup per team ->    *)
(*           one greeting per user.  The greetings of a standup are all    *)
(*           posted at once (the promises are made by map), but concat     *)
(*           takes their results one after the other, and only then is the *)
(*           user's UserStandup row written.                               *)
(*   end$    each cron tick -> findEnd -> sendReport per standup, all of   *)
(*           them under Promise.allSettled.                                *)
(*                                                                         *)
(* An error anywhere in start$ ends start$ for the life of the process,    *)
(* and with it the greetings of every team; end$ is a subscription of its  *)
(* own.  Whatever was under way when start$ ended still completes: a       *)
(* promise is not cancelled by an unsubscription.                          *)
(*                                                                         *)
(* The two streams share one entity manager, hence one object per row: a   *)
(* query of either refreshes the team the other is creating a standup of,  *)
(* and a row start$ is about to save is in standup.users while end$ posts. *)
(*                                                                         *)
(* Every await is a pair of actions, so that the clock, the other          *)
(* pipelines, the worker and the API may come in between.                  *)
(***************************************************************************)
EXTENDS StandupData

CONSTANTS
  Faults,   \* the kinds of failure that may happen (a bound)
  Rollbar   \* is rollBarAccessToken set, so that unhandled rejections are
            \* captured: {TRUE}, {FALSE}, or BOOLEAN for either each time

FaultKinds ==
  {"query", "create", "greet", "save", "post", "update", "crash"}

ASSUME NotifierAssumption == Faults \subseteq FaultKinds /\ Rollbar \subseteq BOOLEAN

VARIABLES
  now,         \* the minute of the last tick
  duration,    \* team.duration
  created,     \* Standup rows
  endAt,       \* standup.endAt of the rows in created
  rows,        \* UserStandup rows: standup -> users
  answers,     \* AnswerRequest rows: standup -> user -> answer
  message,     \* Slack: standup -> user -> prompt in the direct message
  report,      \* Slack: standup -> the reports posted to the channel
  up,          \* does the process run
  startLive,   \* is the subscription of start$ open
  endLive,     \* is the subscription of end$ open
  startQuery,  \* ticks whose findByStart has not answered
  creating,    \* createStandup calls: "idle", "matched", "inserted"
  loaded,      \* the duration of the team object those calls hold
  greeting,    \* standup -> user -> state of the sendGreetingMessage promise
  cursor,      \* position of the greeting concat is subscribed to; 0: none
  saving,      \* standups with a UserStandup row that a flush may write
  endQuery,    \* ticks whose findEnd has not answered
  posting,     \* standups whose report is being posted
  reading,     \* what findEnd read for sendReport: user -> answer
  joined,      \* users added to standup.users since findEnd read it
  linking      \* users whose message sendReport is still updating

store == <<duration, created, endAt, rows, answers>>
slack == <<message, report>>
streams == <<up, startLive, endLive>>
startMem == <<startQuery, creating, loaded, greeting, cursor, saving>>
endMem == <<endQuery, posting, reading, joined, linking>>
vars == <<now, store, slack, streams, startMem, endMem>>

(* Answers that a query of rows reads: a function of the users with a row. *)
Readings == UNION {[S -> Answers \union {NoAnswer}] : S \in SUBSET Users}
NothingRead == [u \in {} |-> NoAnswer]

TypeOK ==
  /\ now \in Minutes
  /\ duration \in [Teams -> Durations]
  /\ created \subseteq Standups
  /\ endAt \in [Standups -> Nat]
  /\ rows \in [Standups -> SUBSET Users]
  /\ answers \in [Standups -> [Users -> Answers \union {NoAnswer}]]
  /\ message \in [Standups -> [Users -> Prompt]]
  /\ report \in [Standups -> Seq(Readings)]
  /\ up \in BOOLEAN /\ startLive \in BOOLEAN /\ endLive \in BOOLEAN
  /\ startQuery \subseteq Minutes
  /\ creating \in [Standups -> {"idle", "matched", "inserted"}]
  /\ loaded \in [Standups -> Nat]
  /\ greeting \in [Standups -> [Users -> {"none", "sending", "sent", "failed"}]]
  /\ cursor \in [Standups -> Nat]
  /\ saving \subseteq Standups
  /\ endQuery \subseteq Minutes
  /\ posting \subseteq Standups
  /\ reading \in [Standups -> Readings]
  /\ joined \in [Standups -> SUBSET Users]
  /\ linking \in [Standups -> SUBSET Users]

NoGreetings == [u \in Users |-> "none"]

Init ==
  /\ now = 0
  /\ duration \in [Teams -> Durations]
  /\ created = {}
  /\ endAt = [s \in Standups |-> 0]
  /\ rows = [s \in Standups |-> {}]
  /\ answers = [s \in Standups |-> [u \in Users |-> NoAnswer]]
  /\ message = [s \in Standups |-> [u \in Users |-> NoPrompt]]
  /\ report = [s \in Standups |-> <<>>]
  /\ up = TRUE /\ startLive = TRUE /\ endLive = TRUE
  /\ startQuery = {}
  /\ creating = [s \in Standups |-> "idle"]
  /\ loaded = [s \in Standups |-> 0]
  /\ greeting = [s \in Standups |-> NoGreetings]
  /\ cursor = [s \in Standups |-> 0]
  /\ saving = {}
  /\ endQuery = {}
  /\ posting = {}
  /\ reading = [s \in Standups |-> NothingRead]
  /\ joined = [s \in Standups |-> {}]
  /\ linking = [s \in Standups |-> {}]

-----------------------------------------------------------------------------
(* The clock and the process.                                              *)

(* A minute's tick: both streams share the interval, start$ first.  A      *)
(* stream that has ended, or a process that is down, misses the tick.      *)
Tick ==
  /\ now < MaxMinute
  /\ now' = now + 1
  /\ startQuery' = IF startLive THEN startQuery \union {now + 1} ELSE startQuery
  /\ endQuery' = IF endLive THEN endQuery \union {now + 1} ELSE endQuery
  /\ UNCHANGED <<store, slack, streams, creating, loaded, greeting, cursor,
                 saving, posting, reading, joined, linking>>

(* The process ends; what it held in memory is lost, what Slack and        *)
(* Postgres already have stays.                                            *)
Stop ==
  /\ up' = FALSE /\ startLive' = FALSE /\ endLive' = FALSE
  /\ startQuery' = {} /\ saving' = {}
  /\ creating' = [s \in Standups |-> "idle"]
  /\ loaded' = [s \in Standups |-> 0]
  /\ greeting' = [s \in Standups |-> NoGreetings]
  /\ cursor' = [s \in Standups |-> 0]
  /\ endQuery' = {} /\ posting' = {}
  /\ reading' = [s \in Standups |-> NothingRead]
  /\ joined' = [s \in Standups |-> {}]
  /\ linking' = [s \in Standups |-> {}]
  /\ UNCHANGED <<now, store>>

Crash ==
  /\ "crash" \in Faults
  /\ up
  /\ Stop
  /\ UNCHANGED slack

Restart ==
  /\ ~up
  /\ up' = TRUE /\ startLive' = TRUE /\ endLive' = TRUE
  /\ UNCHANGED <<now, store, slack, startMem, endMem>>

(* Mutant: the error ends both streams.                                    *)
EndStartAndEnd ==
  /\ startLive' = FALSE /\ endLive' = FALSE
  /\ startQuery' = {}
  /\ UNCHANGED up

(* The error callback of start$: 'Start daily meeting error'.  Queries     *)
(* still open find nobody to hand their teams to.                          *)
EndStart ==
  /\ startLive' = FALSE
  /\ startQuery' = {}
  /\ UNCHANGED <<up, endLive>>

-----------------------------------------------------------------------------
(* start$                                                                  *)

(* Mutants: the start minute compared with <=; one minute off.             *)
DueUpTo(d) == {s \in Standups : StartMinute(s) <= d /\ Asked(s) # <<>>}
DueOneOff(d) == {s \in Standups : StartMinute(s) = d + 1 /\ Asked(s) # <<>>}

(* The standups whose start minute is d.  findByStart joins team.users:    *)
(* a team without users is never matched.                                  *)
Due(d) == {s \in Standups : StartMinute(s) = d /\ Asked(s) # <<>>}

(* Mutant: only the teams of the last query are kept.                      *)
RefreshedOnly(S, calls) == [s \in S |-> duration[Team(s)]]

(* A query that selects the teams of S refreshes the team objects that the *)
(* calls of createStandup in `calls` hold.                                 *)
Refreshed(S, calls) ==
  [s \in Standups |->
     IF calls[s] = "matched" /\ \E r \in S : Team(r) = Team(s)
       THEN duration[Team(s)] ELSE loaded[s]]

FindByStart(d) ==
  /\ d \in startQuery
  /\ startQuery' = startQuery \ {d}
  /\ creating' = [s \in Standups |->
                    IF s \in Due(d) THEN "matched" ELSE creating[s]]
  /\ loaded' = Refreshed(Due(d), creating')
  /\ UNCHANGED <<now, store, slack, streams, greeting, cursor, saving, endMem>>

FindByStartFails(d) ==
  /\ "query" \in Faults
  /\ d \in startQuery
  /\ EndStart
  /\ UNCHANGED <<now, store, slack, creating, loaded, greeting, cursor, saving,
                 endMem>>

(* createStandup's last flush: the Standup row, endAt set by the entity's  *)
(* BeforeCreate hook from the team object.                                 *)
InsertStandup(s) ==
  /\ creating[s] = "matched"
  /\ creating' = [creating EXCEPT ![s] = "inserted"]
  /\ created' = created \union {s}
  /\ endAt' = [endAt EXCEPT ![s] = StartMinute(s) + loaded[s]]
  /\ loaded' = [loaded EXCEPT ![s] = 0]
  /\ UNCHANGED <<now, duration, rows, answers, slack, streams, startQuery,
                 greeting, cursor, saving, endMem>>

(* One of createStandup's statements is rejected.                          *)
InsertStandupFails(s) ==
  /\ "create" \in Faults
  /\ creating[s] = "matched"
  /\ creating' = [creating EXCEPT ![s] = "idle"]
  /\ loaded' = [loaded EXCEPT ![s] = 0]
  /\ EndStart
  /\ UNCHANGED <<now, store, slack, greeting, cursor, saving, endMem>>

(* createStandup's promise resolves: the mergeMap of the command posts     *)
(* every greeting and subscribes to the first, unless start$ has ended.    *)
Greet(s) ==
  /\ creating[s] = "inserted"
  /\ creating' = [creating EXCEPT ![s] = "idle"]
  /\ IF startLive
       THEN /\ greeting' = [greeting EXCEPT ![s] =
                  [u \in Users |-> IF u \in Members(s) THEN "sending" ELSE "none"]]
            /\ cursor' = [cursor EXCEPT ![s] = 1]
       ELSE UNCHANGED <<greeting, cursor>>
  /\ UNCHANGED <<now, store, slack, streams, startQuery, loaded, saving, endMem>>

(* Mutant: mergeMap in place of concat, whatever answers goes first.       *)
GreetingSentMerged(s, u) ==
  /\ greeting[s][u] = "sending"
  /\ greeting' = [greeting EXCEPT ![s][u] = "sent"]
  /\ cursor' = [cursor EXCEPT ![s] = Place(s, u)]
  /\ message' = [message EXCEPT ![s][u] = StandupMsg(FALSE, FALSE)]
  /\ UNCHANGED <<now, store, report, streams, startQuery, creating, loaded,
                 saving, endMem>>

(* chat.postMessage answers ok.                                            *)
GreetingSent(s, u) ==
  /\ greeting[s][u] = "sending"
  /\ greeting' = [greeting EXCEPT ![s][u] = "sent"]
  /\ message' = [message EXCEPT ![s][u] = StandupMsg(FALSE, FALSE)]
  /\ UNCHANGED <<now, store, report, streams, startQuery, creating, loaded,
                 cursor, saving, endMem>>

(* sendGreetingMessage rejects; the message may have landed all the same.  *)
(* Nobody handles the rejection of a greeting concat has not come to: that *)
(* ends the process, unless Rollbar captures it.                           *)
GreetingFails(s, u) ==
  /\ "greet" \in Faults
  /\ greeting[s][u] = "sending"
  /\ \E landed \in BOOLEAN :
       message' = IF landed
                    THEN [message EXCEPT ![s][u] = StandupMsg(FALSE, FALSE)]
                    ELSE message
  /\ UNCHANGED report
  /\ \/ /\ Place(s, u) <= cursor[s] \/ TRUE \in Rollbar
        /\ greeting' = [greeting EXCEPT ![s][u] = "failed"]
        /\ UNCHANGED <<now, store, streams, startQuery, creating, loaded, cursor,
                       saving, endMem>>
     \/ /\ Place(s, u) > cursor[s] /\ FALSE \in Rollbar
        /\ Stop

(* The greeting concat is subscribed to has been rejected.                 *)
GreetingRejected(s) ==
  /\ startLive
  /\ cursor[s] \in DOMAIN Asked(s)
  /\ greeting[s][Asked(s)[cursor[s]]] = "failed"
  /\ EndStart
  /\ UNCHANGED <<now, store, slack, creating, loaded, greeting, cursor, saving,
                 endMem>>

(* switchMap: the message of the greeting concat is at is there, its       *)
(* UserStandup row goes to the database.  Setting userStandup.standup also *)
(* adds to standup.users, unless findEnd's result is yet to replace that.  *)
SaveRow(s) ==
  /\ startLive
  /\ s \notin saving
  /\ cursor[s] \in DOMAIN Asked(s)
  /\ greeting[s][Asked(s)[cursor[s]]] = "sent"
  /\ saving' = saving \union {s}
  /\ \/ UNCHANGED joined
     \/ /\ s \in posting
        /\ joined' = [joined EXCEPT ![s] = @ \union {Asked(s)[cursor[s]]}]
  /\ UNCHANGED <<now, store, slack, streams, startQuery, creating, loaded,
                 greeting, cursor, endQuery, posting, reading, linking>>

(* A flush has committed the row, also if start$ has ended meanwhile;      *)
(* concat then subscribes to the next greeting.                            *)
RowSaved(s) ==
  /\ s \in saving
  /\ saving' = saving \ {s}
  /\ rows' = [rows EXCEPT ![s] = @ \union {Asked(s)[cursor[s]]}]
  /\ cursor' = IF startLive THEN [cursor EXCEPT ![s] = @ + 1] ELSE cursor
  /\ UNCHANGED <<now, duration, created, endAt, answers, slack, streams,
                 startQuery, creating, loaded, greeting, endMem>>

(* The flush is rejected.  The UserStandup is still in standup.users of    *)
(* the entity manager both streams flush: another flush may insert it yet  *)
(* (the row stays in saving), or none ever does.                           *)
RowSaveFails(s) ==
  /\ "save" \in Faults
  /\ s \in saving
  /\ saving' \in {saving, saving \ {s}}
  /\ EndStart
  /\ UNCHANGED <<now, store, slack, creating, loaded, greeting, cursor, endMem>>

-----------------------------------------------------------------------------
(* end$                                                                    *)

(* Mutants: ended by now; ending next minute; joined with the answers.     *)
EndingUpTo(d) == {s \in created : endAt[s] <= d}
EndingEarly(d) == {s \in created : endAt[s] = d + 1}
EndingAnswered(d) ==
  {s \in created : endAt[s] = d /\ \E u \in Users : answers[s][u] # NoAnswer}

Ending(d) == {s \in created : endAt[s] = d}

(* Mutant: the roster is read in place of the rows.                        *)
RosterRead(s) == [u \in Members(s) |-> answers[s][u]]

(* standup.users and their answers.                                        *)
RowsRead(s) == [u \in rows[s] |-> answers[s][u]]

(* findEnd(date) answers: sendReport is called for every standup that ends *)
(* in this minute, with the rows and answers as the query saw them.        *)
FindEnd(d) ==
  /\ d \in endQuery
  /\ endQuery' = endQuery \ {d}
  /\ posting' = posting \union Ending(d)
  /\ reading' = [s \in Standups |->
                   IF s \in Ending(d) THEN RowsRead(s) ELSE reading[s]]
  /\ loaded' = Refreshed(Ending(d), creating)
  /\ UNCHANGED <<now, store, slack, streams, startQuery, creating, greeting,
                 cursor, saving, joined, linking>>

(* findEnd rejects: end$ ends.  The reports under way go on.               *)
FindEndFails(d) ==
  /\ "query" \in Faults
  /\ d \in endQuery
  /\ endLive' = FALSE
  /\ endQuery' = {}
  /\ UNCHANGED <<now, store, slack, up, startLive, startMem, posting, reading,
                 joined, linking>>

(* The report is in the channel: sendReport updates the message of every   *)
(* user standup.users has by now.                                          *)
ReportPosted(s) ==
  /\ s \in posting
  /\ posting' = posting \ {s}
  /\ report' = [report EXCEPT ![s] = Append(@, reading[s])]
  /\ linking' = [linking EXCEPT ![s] = DOMAIN reading[s] \union joined[s]]
  /\ joined' = [joined EXCEPT ![s] = {}]
  /\ UNCHANGED <<now, store, message, streams, startMem, endQuery, reading>>

(* Mutant: a post that failed is tried again.                              *)
ReportRetried(s) ==
  /\ "post" \in Faults
  /\ s \in posting
  /\ \E landed \in BOOLEAN :
       report' = IF landed
                   THEN [report EXCEPT ![s] = Append(@, reading[s])]
                   ELSE report
  /\ UNCHANGED <<now, store, message, streams, startMem, endMem>>

(* postMessage rejects, or answers not_in_channel (then `result` is not    *)
(* set and reading result.ok throws): allSettled keeps the error.          *)
ReportFails(s) ==
  /\ "post" \in Faults
  /\ s \in posting
  /\ posting' = posting \ {s}
  /\ \E landed \in BOOLEAN :
       report' = IF landed
                   THEN [report EXCEPT ![s] = Append(@, reading[s])]
                   ELSE report
  /\ joined' = [joined EXCEPT ![s] = {}]
  /\ UNCHANGED <<now, store, message, streams, startMem, endQuery, reading,
                 linking>>

(* Mutant: every user of the report has submitted.                         *)
ListedInReading(r, u) == u \in DOMAIN r

(* userStandup.answers.length > 0, in a reading.                           *)
Answered(r, u) == u \in DOMAIN r /\ r[u] # NoAnswer

(* chat.update of one user's message: the link replaces the button, the    *)
(* check mark is what findEnd had read.                                    *)
MessageLinked(s, u) ==
  /\ u \in linking[s]
  /\ linking' = [linking EXCEPT ![s] = @ \ {u}]
  /\ message' = [message EXCEPT ![s][u] = StandupMsg(Answered(reading[s], u), TRUE)]
  /\ UNCHANGED <<now, store, report, streams, startMem, endQuery, posting, reading,
                 joined>>

MessageLinkFails(s, u) ==
  /\ "update" \in Faults
  /\ u \in linking[s]
  /\ linking' = [linking EXCEPT ![s] = @ \ {u}]
  /\ UNCHANGED <<now, store, slack, streams, startMem, endQuery, posting, reading,
                 joined>>

-----------------------------------------------------------------------------
(* The environment: the API edits teams, the worker answers for users.     *)

(* TeamController.edit: the duration is not validated.                     *)
EditDuration(t, n) ==
  /\ duration[t] # n
  /\ duration' = [duration EXCEPT ![t] = n]
  /\ UNCHANGED <<now, created, endAt, rows, answers, slack, streams, startMem,
                 endMem>>

(* A flush of the worker stores answers of users that have a row ...       *)
AnswersStored(sheet) ==
  /\ \A s \in Standups, u \in Users : sheet[s][u] # NoAnswer => u \in rows[s]
  /\ answers' = Written(answers, sheet)
  /\ UNCHANGED <<now, duration, created, endAt, rows, slack, streams, startMem,
                 endMem>>

(* Mutant: the redrawn message keeps its link.                             *)
MessageCheckedWithLink(s, u) ==
  /\ answers[s][u] # NoAnswer
  /\ message' = [message EXCEPT ![s][u] = StandupMsg(TRUE, message[s][u].link)]
  /\ UNCHANGED <<now, store, report, streams, startMem, endMem>>

(* ... and handleViewSubmission then redraws its user's message.           *)
MessageChecked(s, u) ==
  /\ answers[s][u] # NoAnswer
  /\ message' = [message EXCEPT ![s][u] = StandupMsg(TRUE, FALSE)]
  /\ UNCHANGED <<now, store, report, streams, startMem, endMem>>

-----------------------------------------------------------------------------

StartStep ==
  \/ \E d \in Minutes : FindByStart(d) \/ FindByStartFails(d)
  \/ \E s \in Standups :
       \/ InsertStandup(s) \/ InsertStandupFails(s)
       \/ Greet(s) \/ GreetingRejected(s)
       \/ SaveRow(s) \/ RowSaved(s) \/ RowSaveFails(s)
       \/ \E u \in Users : GreetingSent(s, u) \/ GreetingFails(s, u)

EndStep ==
  \/ \E d \in Minutes : FindEnd(d) \/ FindEndFails(d)
  \/ \E s \in Standups :
       \/ ReportPosted(s) \/ ReportFails(s)
       \/ \E u \in Users : MessageLinked(s, u) \/ MessageLinkFails(s, u)

Notifier == Tick \/ Crash \/ Restart \/ StartStep \/ EndStep

Edit == \E t \in Teams, n \in Durations : EditDuration(t, n)

Worker ==
  \/ \E sheet \in Sheets : AnswersStored(sheet)
  \/ \E s \in Standups, u \in Users : MessageChecked(s, u)

Next == Notifier \/ Edit \/ Worker

(* Every promise settles and cron keeps ticking; what users and the API do *)
(* is up to them, and no failure is obliged to happen.                     *)
Fairness ==
  /\ WF_vars(Tick) /\ WF_vars(Restart)
  /\ \A d \in Minutes : WF_vars(FindByStart(d) \/ FindByStartFails(d))
                        /\ WF_vars(FindEnd(d) \/ FindEndFails(d))
  /\ \A s \in Standups :
       /\ WF_vars(InsertStandup(s) \/ InsertStandupFails(s))
       /\ WF_vars(Greet(s)) /\ WF_vars(GreetingRejected(s))
       /\ WF_vars(SaveRow(s)) /\ WF_vars(RowSaved(s) \/ RowSaveFails(s))
       /\ WF_vars(ReportPosted(s) \/ ReportFails(s))
       /\ \A u \in Users :
            /\ WF_vars(GreetingSent(s, u) \/ GreetingFails(s, u))
            /\ WF_vars(MessageLinked(s, u) \/ MessageLinkFails(s, u))

Spec == Init /\ [][Next]_vars

FairSpec == Spec /\ Fairness

-----------------------------------------------------------------------------
(* Safety.                                                                 *)

(* UserStandup rows appear in roster order, whatever order Slack answers   *)
(* the greetings in, and every row stands for a message the user has: what *)
(* concat in StandupNotifyCommand.handler is there for.  A greeted user    *)
(* can thus be left without a row only behind the first one missing.       *)
RowsFollowRoster ==
  \A s \in Standups :
    /\ \E k \in 0..Len(Asked(s)) : rows[s] = {Asked(s)[i] : i \in 1..k}
    /\ \A u \in rows[s] : message[s][u].sent

(* The channel never gets two reports of one standup: across crashes and   *)
(* restarts, changes of the team's duration, failed and slow queries.      *)
(* Nothing in the database says that a report was sent; what prevents a    *)
(* second one is that findEnd asks for one minute only.                    *)
AtMostOneReport == \A s \in Standups : Len(report[s]) <= 1

(* A report is never posted before the end the standup got when it was     *)
(* created, even if the duration of its team has been changed since.       *)
ReportOnTime ==
  \A s \in Standups : report[s] # <<>> => s \in created /\ endAt[s] <= now

(* What sendReport posts it read from rows that exist: it lists no user    *)
(* without a UserStandup row and no answer nobody gave.                    *)
ReportBacked ==
  \A s \in Standups : \A i \in DOMAIN report[s] :
    /\ DOMAIN report[s][i] \subseteq rows[s]
    /\ \A u \in DOMAIN report[s][i] :
         report[s][i][u] # NoAnswer => answers[s][u] # NoAnswer

(* A message links to a report that is in the channel, and shows the check *)
(* mark just when that report shows answers of its user: although the      *)
(* users whose messages sendReport updates are collected after the post,   *)
(* and may by then be more than the report lists.                          *)
LinkAgreesWithReport ==
  \A s \in Standups, u \in Users :
    message[s][u].link =>
      \E i \in DOMAIN report[s] :
        message[s][u].check <=> Answered(report[s][i], u)

(* A check mark is only ever shown to a user whose answers are stored,     *)
(* although two processes draw it from data they read at different times.  *)
CheckMeansAnswer ==
  \A s \in Standups, u \in Users :
    message[s][u].check => answers[s][u] # NoAnswer

(* Nothing reports a standup whose end tick went by before its row was     *)
(* there or while the notifier could not see it: once the tick is past     *)
(* and no query or post is open, a standup without report never gets one.  *)
MissedForGood ==
  \A s \in Standups :
    []((/\ s \in created /\ endAt[s] < now /\ endAt[s] \notin endQuery
        /\ s \notin posting /\ report[s] = <<>>)
         => [](report[s] = <<>>))

(* What a user has answered before the end minute is in the report, if one *)
(* is posted at all: the row is read, and read late enough.                *)
InTimeIsReported ==
  \A s \in Standups, u \in Users :
    []((s \in created /\ now < endAt[s] /\ answers[s][u] # NoAnswer)
         => [](\A i \in DOMAIN report[s] :
                 u \in DOMAIN report[s][i] /\ report[s][i][u] # NoAnswer))

-----------------------------------------------------------------------------
(* Why the invariants above are kept: what each step relies on.            *)

(* A standup is started by one tick only: while that tick is to come, or   *)
(* its query is open, there is neither a call of createStandup nor a row.  *)
StartedOnce ==
  /\ startQuery \subseteq 0..now
  /\ \A s \in Standups :
       /\ StartMinute(s) > now \/ StartMinute(s) \in startQuery
            => s \notin created /\ creating[s] = "idle"
       /\ creating[s] = "matched" => s \notin created
       /\ creating[s] = "inserted" => s \in created

(* The users up to the k-th of the roster.                                 *)
FirstAsked(s, k) == {Asked(s)[i] : i \in 1..k}

(* concat's place in the roster and the rows go together.                  *)
SavedInOrder ==
  \A s \in Standups :
    /\ ~up => ~startLive /\ cursor[s] = 0
    /\ creating[s] # "idle" \/ s \notin created
         => rows[s] = {} /\ cursor[s] = 0 /\ s \notin saving
    /\ creating[s] # "idle" => Asked(s) # <<>>
    /\ s \in saving => /\ cursor[s] \in DOMAIN Asked(s)
                       /\ greeting[s][Asked(s)[cursor[s]]] = "sent"
    /\ cursor[s] > 0 /\ (startLive \/ s \in saving)
         => cursor[s] <= Len(Asked(s)) + 1 /\ rows[s] = FirstAsked(s, cursor[s] - 1)
    /\ \A u \in Users : greeting[s][u] = "sent" => message[s][u].sent

(* The tick of a standup's end is used up by its report.                   *)
ReportedOnce ==
  /\ endQuery \subseteq 0..now
  /\ \A s \in Standups :
       /\ s \in posting \/ report[s] # <<>> =>
            s \in created /\ endAt[s] <= now /\ endAt[s] \notin endQuery
       /\ s \in posting => report[s] = <<>>
       /\ linking[s] # {} => report[s] = <<reading[s]>>

(* What sendReport works from was read from rows and answers that exist,   *)
(* and neither is ever taken back.                                         *)
ReadFromStore ==
  \A s \in Standups :
    /\ DOMAIN reading[s] \subseteq rows[s]
    /\ \A u \in DOMAIN reading[s] :
         reading[s][u] # NoAnswer => answers[s][u] # NoAnswer

(* A standup being created has the duration of its team.                   *)
LoadedFromTeam == \A s \in Standups : creating[s] = "matched" => loaded[s] \in Durations

(* A greeting never meets a message that is already there: a standup is    *)
(* greeted once, by the process that inserted it, and others draw only     *)
(* over messages that greetings have sent.                                 *)
GreetedOnce ==
  \A s \in Standups, u \in Users :
    /\ creating[s] # "idle" \/ s \notin created \/ greeting[s][u] = "sending"
         => ~message[s][u].sent
    /\ greeting[s][u] # "none"
         => s \in created /\ creating[s] = "idle" /\ u \in Members(s)

(* Who has answered was asked; who gets a link has a message.              *)
AskedBefore ==
  \A s \in Standups, u \in Users :
    /\ answers[s][u] # NoAnswer => u \in rows[s]
    /\ u \in linking[s] \union joined[s] => message[s][u].sent

-----------------------------------------------------------------------------
(* Liveness.                                                               *)

(* As long as nothing ends start$, every user of every standup the         *)
(* schedule calls for gets a message and a row.                            *)
EveryoneGreeted ==
  \A s \in Standups : <>(rows[s] = Members(s) \/ ~startLive)

(* A standup whose row is there before its end is reported, and nothing    *)
(* that goes wrong in start$ (the greetings of any team) prevents it, but  *)
(* for the rejection that ends the process.                                *)
StartedIsReported ==
  \A s \in Standups :
    (s \in created /\ now < endAt[s] /\ endAt[s] <= MaxMinute)
      ~> (report[s] # <<>> \/ ~up)

(* The message of a user whose row is there before the end gets its link,  *)
(* with the same exception.                                                *)
ReportReachesMessage ==
  \A s \in Standups : \A u \in Users :
    (u \in rows[s] /\ now < endAt[s] /\ endAt[s] <= MaxMinute)
      ~> (message[s][u].link \/ ~up)

=============================================================================
