# A TLA+ model of the standup bot

The bot (`src/src`) greets the users of a team in Slack at the team's start
time, lets them answer the team's questions in a dialog, and posts a report to
a channel when the standup ends. This directory holds its TLA+ modules, the TLC
configurations that check them, and TLAPS proofs of the properties that matter
most. File paths below are relative to `src/src` unless they start with
`frontend/`.

## 1. The system

### Components, their state and their operations

| component | state | operations | hard because |
|---|---|---|---|
| **Notifier** (`slack/standup-notifier.ts`, `command/StandupNotifyCommand.ts`), one process | two RxJS subscriptions; promises under way; rows `Standup`, `UserStandup` | each minute: `findByStart` → `createStandup` → greetings → rows; `findEnd` → `sendReport` → message updates | both streams overlap with themselves and each other over one entity manager; a first error ends `start$` for good; crash between any two awaits; no record that a report was sent |
| **Slack transport** (`slack/slack-bot-transport.service.ts`) | the prompts in Slack, the posts in the channel | `sendGreetingMessage`, `sendReport`, `openDialog`, `updateMessage` | a call may land and still reject |
| **Interactions** (`http/api.middleware.ts`, `services/queue.registry.ts`, `slack/slack-event-listener.ts`) | Bull queue `slack_interactive`; the modal on a user's screen | `handleAction` (open the dialog), `handleViewSubmission` (store answers, redraw the prompt) | the end of the standup is looked at when the dialog is built and never again |
| **Worker** (`command/WorkerCommand.ts`), one process | jobs under way; one entity manager they share | take a job; run its handler | the processor does not await the handler: handlers overlap, failed jobs are not retried; a flush writes what any handler has assigned |
| **Team store** (`repository/team.repository.ts`, `http/controller/team.controller.ts`, `entity/team-snapshot.ts`) | team, users, questions, options, snapshots | `create`, `get`, `edit` → `submit`, `status`; snapshots by `createStandup` | old forms; `createStandup` reads, compares and inserts without a transaction |
| **Transactions** (`decorator/transactional.ts`, `updateChannels`, `services/providers.ts`) | the one connection of a process | begin, attempts, commit, rollback; a transaction per page of channels | the decorator's first retry does not run the method again; some errors leave a transaction open, and everybody else waits |
| **Workspace sync and channel events** (`slack/sync-slack.service.ts`, `evensHandlers`) | users, channels; the worker's entities | page through Slack, upsert; joined, left, archived, unarchived | overlapping handlers of ordered events; upserts past entities that stay in memory |
| **Schedule** (SQL of `findByStart`, `BitmaskType`, the form's days) | mask, start, offset | does a team start now | week day in the zone's time, start in the zone's static offset |
| **Authentication** (`http/controller/auth.controller.ts`, `http/middlewares.ts`) | session in Redis; workspace and user rows | OAuth sign-in, session, logout | sign-ins overlap, their steps fail |
| **Frontend** (`frontend/src/app`) | `user$`, list of teams, form, page of standups | guards, interceptor, switches, archive, save, paging | answers out of order, late, or never; streams that end with their first error |
| **Read-only API, CLI wiring, migrations** | | | queries and plumbing |

They interact through Postgres rows, the prompts in Slack and one queue:

```
 browser --HTTP--> API server ----> Postgres <---- notifier ----> Slack
 Slack --/slack/interactive, /slack/events--> API --Bull--> worker ----> Slack, Postgres
 slack:sync, first sign-in --> Slack, Postgres
```

### What would make each correct

* Notifier: no standup is started or reported twice; reports are on time, list
  only what was stored, and what was stored in time; the users' messages agree
  with them; a failure in the greetings does not stop the reports.
* Interactions: answers come only from a dialog opened in time; a check mark
  means stored answers; no submission is undone by an earlier one; everything
  queued is handled.
* Both together: an observer sees what `DailyStandup` promises.
* Team store: a standup asks what the team was when it was matched; edits are
  stored as the form asked; an active team can be found.
* Transactions: a submit is stored once or not at all; everybody gets the
  connection in the end.
* Channels: a row says what Slack says once the events are handled, and they are.
* Sessions: who has a session has rows; a logout ends on `/about`.
* Pages: list, switches and page agree with the rows and the URL; a form makes one
  team; a team starts on the days that were chosen.

`PROJECT.json` lists the hazards behind these at their lines.

## 2. The modules

| module | what it is |
|---|---|
| `StandupData` | constants (teams, rosters, schedule, durations), standup ids, the prompt and its states |
| `StandupNotifier` | the notifier process, with the worker and the API as an environment |
| `StandupWorker` | button, dialog, endpoint, queue, worker, with the notifier as an environment |
| `DailyStandup` | the abstract promise: opens once, at most one report, a report is a consistent cut not before the end |
| `StandupSystem` | notifier and interaction path composed; refinement of each environment and of `DailyStandup` |
| `TeamStore` | one team: API edits against `createStandup` |
| `Transactional` | requests of one process on its one connection: `@transactional`, pages of channels, plain queries |
| `ChannelSync` | channel rows between events, worker and a synchronisation |
| `WebSession` | sign-in, session and logout, and the application in each tab |
| `TeamPages` | list, archive and new-team form of one tab, and their requests |
| `StandupSchedule` | days, mask and start of a team against the query of every tick |
| `StandupsPage` | the paged list of standups while the notifier adds some |
| `StandupNotifierProofs`, `StandupReportProofs`, `StandupWorkerProofs`, `StandupSystemProofs`, `TeamsProofs`, `PagesProofs`, `ChannelSyncProofs`, `ApiProofs` | theorems |
| `MCNotifier`, `MCWorker`, `MCSystem`, `MCTeam`, `MCTeams`, `MCApi` | instances for TLC |

`MCTeams` (edits, pages, schedule, page of standups) and `MCApi` (requests,
channels, sessions) put modules that share no state into one run: the variable
`part` says whose behaviour it is, the others keep still. The liveness of one
part is thus not bought with steps of another.

### StandupNotifier

Every await is a pair of actions, so anything may come in between: `Tick`
issues the two queries, `FindByStart` and `FindEnd` are their answers, in any
order; `InsertStandup` ends `createStandup`; `Greet` makes all greetings of a
standup at once (the promises are made by `map`), `GreetingSent(s, u)` settles
them in any order, and `cursor` is the place of `concat` in the roster:
`SaveRow`/`RowSaved` write the rows one after the other. `FindEnd` fixes
`reading`, what `sendReport` works from; `ReportPosted`, then `MessageLinked`
per user. Each call has its failure (`...Fails`), enabled by `Faults`:

* an error in `start$` ends that subscription for all teams (`EndStart`), while
  promises under way still settle;
* a greeting rejected before `concat` subscribes to it is an unhandled
  rejection: without Rollbar (`FALSE \in Rollbar`) the process ends. The constant is the set of
  settings considered; where it holds both, as in `NotifierLive`, each rejection may meet either, which is
  more than any one deployment can do, so that what holds there holds of both;
* `Crash` also stands for SIGTERM; `Restart` starts with empty memory.

Two failures leave effects behind: `ReportFails` and `GreetingFails` may have
reached Slack before they reject.

What the model abstracts. Time is minutes, the granularity of cron and of
`findEnd`. A standup is named by its team and start minute. A submission's
answers are one value. `isFinished` is open within the end minute, because
`endAt` is stored without fractions of a second. The notifier's shared entity manager
(MikroORM's identity map, an external library) is modelled by what it does to
the code: `Refreshed` (a query refreshes the team a `createStandup` holds, or does
not) and `joined` (rows added to `standup.users` while a post is awaited). Not
modelled: the order of flushes of that shared manager, and the copies of a
message that a retry inside Slack's client may send. After a rejected flush (`RowSaveFails`)
the new row is still in `standup.users` of the shared manager; the model leaves it open
whether a flush under way or to come inserts it after all. The snapshot steps of `createStandup` are in
`TeamStore`; here the roster is a constant.

### StandupWorker

`Press` and `Submit` append jobs; `Take` starts one without waiting for those
before it; `BuildDialog`/`DialogOpened` and `LoadSubmission`/`AssignAnswers`/`FlushStarts`/
`RedrawMessage` are the two handlers cut at their awaits; `Refuse` is "User standup is not
found". A crash drops jobs that were taken (they are complete for Bull) and keeps those that
were not. `early` and `after` of a job are history variables for the properties. `QueueOption`
is the command line's `--queue`.

All handlers share one entity manager (`WorkerCommand.ts:97`), so assigning the answers and
storing them are two things. `unsaved` is what was assigned and not written yet, of any user;
`writing` is what the flush under way has taken of it. A flush writes all that waits, whoever
asked for it; `EventFlushStarts` is one asked for by the handler of a channel event, in a worker
that has both queues. A rejected flush (`FlushFails`) ends the handler that asked for it, but what
was assigned stays in the entities: anybody's next flush stores it, when the handler
is long over, and nobody draws the check mark. So the answers of a submission that was given up may
appear late; `AnswersComeFromOpenDialogs` says that no others do. Or
the confirmation alone was lost (`FlushLands` with a rejection). What is assigned to an answer while it is being
written may be taken for written and be lost (`lost` in `FlushLands`); the next
submission reads it anew. Left out of mikro-orm: a flush of which some statements went
through before the transaction was rolled back, after which it may take rows for stored that are
not; a query that takes a new, not yet inserted answer out of its collection; the
order in which waiting flushes begin (any may be next).

### StandupSystem and DailyStandup

`StandupSystem` shares tables, prompts and clock between an instance of each
module and replaces the environment each assumes by the other. The runs show
`N!Spec` and `W!Spec` of the composition, so what is checked of a component
alone holds in the system. `Daily` maps rows to *asked*, answers to *told*,
`reading` while a post is under way to *cut*.

### TeamStore

Rows of one team, with the ids' order as sequences. A client loads a form,
changes one thing (`Rearranged`: text, order, a question more or less, an option
more or less; or the users) and sends it; `CheckTeam` is the awaited
`findActiveById` of `edit`, `Submit` the transaction. `Submit` is one step:
it is SERIALIZABLE, and the API's pool has one connection. `Match`,
`FindSnapshot`, `KeepSnapshot`/`TakeSnapshot`, `InsertStandup` are the awaits of
`createStandup`. `Last` leaves open which of two snapshots of one second is
last, `Equals` whether two contents with several users in different order
compare as equal. `versions` is a history variable. Left out: name, schedule,
time zone, report channel, duration (all plain columns), option texts and order,
`clearUnneededSnapshots` (no caller), and a form that changes more than one thing at once.
The team object is what the query read: refreshes by a second query during
one `createStandup` are the business of `StandupNotifier`.

### Transactional

A request is a submit (`@transactional`), a synchronisation with pages left, or a
query. `holder` is who has the connection, `wrote` whether the open transaction
holds the request's changes, `stored` how often they were committed. `Run`,
`FirstConflict`, `Rerun`, `Commit`, `Conflict`, `Wake` are the attempts of the
decorator in its order; `FirstConflict` leaves a transaction that Postgres has
aborted, whose later commit stores nothing and may well resolve. `Begin` with a
failing `SET TRANSACTION`, `RerunFails` and `PageFails` are errors nothing rolls
back after: the request is *abandoned* and keeps the connection. What a method
writes is not modelled, only that it did; `TeamStore!Submit` is the content.

### ChannelSync

`Tell` changes Slack and queues the event; `Take`, `Asked`, `Update`/`Create`,
`FlushStarts`/`FlushEnds` cut the handler at its awaits. `mem` is the worker's
entities, `orig` what mikro-orm takes for their rows: a flush writes the columns in which
they differ (`Dirty`), an entity in memory is not queried again. `Fetch` and
`Upsert` are the pages of a synchronisation, which go past `mem`; a channel of a
creator without a row (`strangers`) fails its page, and leaves the rows before it
`locked`. `Crash` forgets memory and jobs taken. `astray` is the history variable of
`RowAgrees`: rows that an event lost, two handlers at once, or a synchronisation with an
old page may have put wrong. Left out: names and profiles, `updateIm` (no caller).

### WebSession

`Login`, `Exchange`, `Save`/`SaveFails`, `Synced` are `AuthController.auth` at
its awaits, with the session saved when the response ends. A tab is the record `Tab`:
page, navigation waiting for its guard, what `user$` replays, requests, error
text, the 403's timer. `Route` is both guards and the router; `Hidden` what the
interceptor's error text does to subscriptions. All pages of a user are "home".
One user; other users have sessions of their own.

### TeamPages, StandupsPage

The server's part of a request (`TeamsRead`, `StatusReply`, `CreateReply`;
`ListRead`, once for each of the two queries of `findAndCount`) and its answer
(`TeamsArrive`, `Toggled`, `Moved`, `Created`, `Refused`; `ListArrives`,
`TeamArrives`) are separate steps in any order; every request may fail before or after
it was carried out. switchMap, streams that are over after an error, and
components that stay while only parameters change are what the modules take from
Angular and rxjs. The operators named as the generated client's methods
(`getTeams`, `updateStatus`, `createTeam`, `updateTeam`, `getStandups`, `getTeam`,
`getSession`, `logout`) say which request goes out, nothing of its encoding: they stand for the
call of `HttpClient` at the end of each method, not for what prepares its headers.
History variables: `doubtful` (teams about which requests overlapped or failed),
`again` (forms saved again before an answer), `news` (standups that came in since the list was read).

### StandupSchedule

Ticks in UTC from a Monday, a week of days of `Day` ticks. `Matches` is the WHERE of
`findByStart`: the time of day with the row's offset, the day of the week with the
zone's clock, which `Shift` moves as summer time does. `EditDays` is the form's check
boxes through mask and `bit(7)` and back.

## 3. The runs

Two TLC workers; times are of a small machine.

| run | asks | bounds | states |
|---|---|---|---|
| `NotifierTwice` | started once, reported once, on time, from what is stored; links and check marks agree | 2 standups of a team of one user on successive minutes, durations 0–1 edited at any time, all failures | 928 k, 78 s |
| `NotifierLive` | rows follow the roster; everyone is greeted; what is started is reported, also when `start$` has failed, unless the process itself ends; links arrive | 2 teams of 2 and 1 users sharing one, failures of `start$`, with Rollbar or without, fairness | 43 k, 92 s |
| `WorkerFaulty` | types, refusals, check marks, answers from open dialogs | 3 jobs, 2 answers, all failures, both queues | 270 k, 20 s |
| `WorkerLive` | no stale answers; every interaction is handled | 4 jobs, 2 answers, no failure, no queue named (dev command), a duration of 0 and 1 minute, fairness | 75 k, 120 s |
| `WorkerDefault` | the latter with the command line's default for `--queue`: **violated** | 2 jobs, fairness | |
| `SystemFaulty` | each component is the other's environment; both implement `DailyStandup`; answers in time are reported; missed ends stay missed | 1 user, 2 jobs, failing greetings, rows, posts, flushes and redraws, crashes of both, no Rollbar | 412 k, 200 s |
| `SystemCalm` | what the message both redraw looks like, and how it loses its link | 4 jobs, no failure | 1.74 M, 170 s |
| `TeamSnapshots` | standups ask what the team was; edited teams have their snapshot | 2 users, 2 texts, 2 edits, 2 standups, 2 seconds | 1.9 M, 127 s |
| `TeamStale` | an activated team has a question: **violated** | 2 browsers, 3 edits | |
| `Teams` | an up-to-date edit is stored as asked; list and rows agree; no twins; starts on the chosen days; the page is the URL's | 2 browsers, 2 edits; 2 teams, 3 calls, 1 visit; 10 ticks in days of 3, offsets −1 to 1, 1 change; 2 teams with 3 standups, 2 on a page, 2 moves | 1.17 M, 195 s |
| `ApiAndSessions` | a submit is stored once; requests are answered; rows agree with Slack, events are handled; sessions have rows, a logout reaches `/about` | 2 requests, 2 pages; 2 channels, 2 events, 1 synchronisation, failures and crashes of each kind at any step; 2 tabs, 2 sign-ins, 1 failure | 218 k, 189 s |
| `CreatedDuration` | a new team has the duration of its form: **violated** | 1 form, durations 15 and 30 | |

Why these bounds are enough: the properties speak of one standup, one user and
one message, or of two actors on one of them. Two users make an order of
greetings, two standups on successive minutes let the start of one meet the end
of the other, 0 minutes is the duration that meets its own start, four jobs are two
whole rounds of button and dialog (which `WorkerLive` has within one minute, the end minute of the standup,
where `isFinished` may say either), three jobs a button and two submissions, one of which stores what the other's
rejected flush left behind, three edits are the least that make the stale
form bite. Two requests are who holds the connection and who waits; two events of a
channel can overtake each other, and one synchronisation can overlap both; two
tabs share a session; three calls are two that overlap and one after them. Days of three
ticks with offsets of one have starts on both sides of midnight, and ticks 16–26 span the
end of a week. Clock, jobs, rows and calls are bounded, so a run may simply stop:
every configuration has `CHECK_DEADLOCK FALSE`.

**Fairness.** `StandupNotifier!Fairness`: cron ticks, the supervisor restarts
the process, and each promise settles, one way or the other. Nothing is assumed of users,
of the API, or that failures happen. `StandupWorker!Fairness`: Bull hands
out waiting jobs, handlers go on, a flush under way comes to an end, the worker is restarted. All of these are weak: no
step has to win a race. `TxFairness` is strong for each request's step, since knex serves those
who wait for the pool in turn, although the connection is taken again and again; giving up after
the pool's timeout is possible, never counted on. `ChFairness`: the worker runs.
`WebFairness`: the answer of a logout arrives, and the router ends its navigations; sign-ins,
reloads and clicks are free to happen or not.

Not obvious, and shown by the runs: a late submission takes the report's link
from the user's message (`LinkLostToSubmission` says that nothing else does),
and `sendReport` may draw a message without check mark although answers were stored
meanwhile (`SettledMessages`). A standup whose end tick was missed is never
reported (`MissedForGood`); a duration of 0 passes validation and can get there.

Seen while modelling, and within what the properties allow:

* Answers whose flush was rejected are stored by whichever handler of the worker flushes next, without a
  check mark; after the report, if it takes long enough.
* After a conflict in its first attempt, a submit may answer success and store
  nothing (`SubmitIsAtomic` promises that of a first attempt only).
* A synchronisation whose upsert fails keeps its connection and its locks; the worker's
  flushes of these rows then wait (`EventsHandled`, `EveryRequestAnswered` except that case).
* `member_left_channel` is handled as a join of the bot.
* After a 403 a tab bounces between `/` and `/about` until it is reloaded: the guard of
  `/about` still sees the user that `user$` replays.
* The paginator's `page` is not taken from the URL: on `?page=2`, or after going back, it
  marks another page than the one shown, and a click may do nothing. A 404, or a request that
  is not answered, ends the page's stream for good.
* `TeamFormComponent.remove` takes away the last user, not the one clicked
  (`indexOf` is asked for the whole list, which gives −1); `TeamStore` allows any users.
* `timezone.sql:34,37` computes −04:30 as minus three and a half hours.

**Findings.** `WorkerDefault`: `worker` without `--queue` gets `slack_events`
as default, although it "runs queue consumers" and has code for the case of no
option. `TeamStale`: `submit` does not enable the questions a form names, so a
form loaded before its question was removed disables all questions; the
activated team is then not found by `findActiveById` any more. `CreatedDuration`: `create`
does not copy the duration of its body, so a new team has the column's default until it is edited.

## 4. The proofs

TLAPS checks them for all values of the constants under the named assumptions, each
evaluated by the runs too: `DataAssumption` (finite users, rosters as
sequences without repetition, natural durations), `NotifierAssumption`, `WorkerAssumption`
and `SystemAssumption` (both together), `TransactionalAssumption` (`Nobody` is no
request, a synchronisation has a bounded number of pages), `ChannelSyncAssumption`
(there is at least one page: the loop over `conversations.list` is a do-while),
`WebSessionAssumption`, `TeamPagesAssumption`, `StandupsPageAssumption` (a page holds 1 to 10),
`TeamAssumption` (a team may have at least one question, as `@ArrayMinSize(1)` demands of the form) and
`StandupScheduleAssumption` (days of the form are days of the week, the notifier does not end before it starts).

| module | theorems |
|---|---|
| `StandupNotifierProofs` | `TypeCorrect`, `StartedOnceHolds`, `SavedInOrderHolds`, `RowsFollowRosterHolds` |
| `StandupReportProofs` | `ReportedOnceHolds`, `AtMostOneReportHolds`, `ReportOnTimeHolds`, `ReadFromStoreHolds`, `ReportBackedHolds`, `CheckMeansAnswerHolds`, `LinkAgreesWithReportHolds`, `GreetedOnceHolds`, `NotifierImplementsDaily`, `InTimeIsReportedHolds`, `MissedForGoodHolds` |
| `StandupWorkerProofs` | `TypeCorrect`, `JobsBackedHolds`, `RefusedOnlyBeforeRowHolds`, `AnswersComeFromOpenDialogsHolds`, `CheckMeansAnswerHolds`, `NoStaleAnswersHolds` |
| `StandupSystemProofs` | `SystemInvariant`, `WorkerIsAsAssumedHolds`, `NotifierIsAsAssumedHolds`, `ImplementsDailyHolds`, `InTimeIsReportedHolds`, `MissedForGoodHolds`, `LinkLostToSubmissionHolds`, `OnTheWayHolds`, `SettledMessagesHolds` |
| `TeamsProofs` | `StandupAsksTheTeamHolds`, `EditedTeamHasSnapshotHolds`, `FreshEditIsStoredHolds`, `TeamTypeCorrect`, `AllTypeCorrect` |
| `PagesProofs` | `PagesTypeCorrect`, `TwinTeamsHolds`, `ListAgreesHolds`, `StandupsTypeCorrect`, `PageIsOfUrlHolds`, `ScheduleTypeCorrect`, `StartsOnChosenDaysHolds` |
| `ChannelSyncProofs` | `ChTypeCorrect`, `RowAgreesHolds` |
| `ApiProofs` | `TxTypeCorrect`, `SubmitIsAtomicHolds`, `WebTypeCorrect`, `SignedInIsStoredHolds`, `TypeCorrect` |

Some of these (`SavedInOrder`, `ReadFromStore`, `GreetedOnce`, `JobsBacked`, `OnTheWay`, the types of a
part) are steps of an argument and checked by no run of their own.

### The notifier

*Reports.* `AtMostOneReport` alone is not inductive: a second post of a
standup must be known not to be under way. `ReportedOnce` says why: an end tick's
query is answered once, and a standup that is being posted or was reported has no
open query for its end minute. It needs `StartedOnce` (a row is inserted once, so its end never changes),
which says the same of the start tick and carries over a crash because the clock
never returns to a minute. *Rows.* `RowsFollowRoster` follows from
`SavedInOrder`: the position of `concat` and the rows go together, and only a sent
greeting is saved. *Contents.* `ReadFromStore` says that what was read is still
stored; `ReportBacked`, `CheckMeansAnswer` and `LinkAgreesWithReport` then follow
step by step. *Messages.* `GreetedOnce` and `AskedBefore` say that a greeting never meets a
message that is there, and that everybody else only draws over sent ones.

`NotifierInv` is the conjunction. `NotifierImplementsDaily` is the step simulation from it: that `findEnd`
cuts only standups without a report is `ReportedOnce`, that a row is of somebody to
ask is `SavedInOrder`; a failed or crashed step is a stutter or drops a cut. The two temporal properties
are proved with an invariant of their own that starts at the moment the premise holds:
an end in the past with nothing open stays so (`MissedForGood`), and answers that every
report and reading has stay in every one to come (`InTimeIsReported`).

### The interaction path

Nothing is checked again after a hand-over, so the invariant says what each of them passes
on. `DialogsBacked`: a dialog with a submit button belongs to a user with a row, and was
built before an end that is settled. `JobsBacked`: a job queued from it has the same, one that has
stored has stored answers, one that has assigned has answers that are stored or wait, and only a
button's job may have come before the row. With `PromptsOfCreated` (messages and rows belong to
standups whose end no longer changes) refusals and check marks follow. `UnsavedBacked` is about the
shared entities: what waits there, and what a flush has taken, is of a submission whose flush was not
confirmed, and what was assigned since that flush began is not of the one whose flush it is.
`AnswersComeFromOpenDialogs` follows, whoever's flush it is. `WorkerInv` is the conjunction.
`NoStaleAnswers` needs the history: `AfterIsOver` (a job queued after others were over follows jobs
that stay over), `Passed` (the submissions that no flush to come will store: stored, overwritten or
lost before their own flush) and `LastStored`, that the answers are those of a submission no passed one
was queued after, which a dropped job suspends. Most steps are covered by one lemma, that the queue only
grows and its jobs go on (`QueueGrows`).

### Both together

Each module's environment is what it assumes of the other. `SystemInv`, both
invariants side by side, is proved jointly: a step of the worker is one of `StandupNotifier`'s
environment because `WorkerInv` holds before it, and the other way round. Hence
`WorkerIsAsAssumed` and `NotifierIsAsAssumed`, refinements of the system into each module's
specification, and with them every theorem of a module is one of the
system: `ImplementsDaily`, `InTimeIsReported` and `MissedForGood` take no further argument.
`LinkLostToSubmission` and `SettledMessages` speak of the message both redraw and are proved
of the composition. At rest nothing is missing because, before, whatever is missing is on
its way (`LinksOnTheWay`, `ChecksOnTheWay`): the handler or `sendReport` that will draw it is still to
do so. This holds without failures only, as in `SystemCalm`: with `Faults` and `WorkerFaults`
empty, for any users, jobs and standups.

### The API, its pages and the channels

*Snapshots.* The invariant of `TeamsProofs` adds that the last
version is what the tables say (`VersionIsCurrent`), that a `createStandup` call holds
the version it was matched at, or a snapshot with that content (`CallIsBacked`),
and that rows are only added (`Kept`). *Transactions.* `SubmitIsAtomic` needs to know that who
runs a method or commits is the holder (`HolderWorks`, or two requests would share `wrote`), that
a first attempt commits what its method wrote (`FirstCommitWrites`), and that attempts and pages do
not run out before their end (`AttemptsLeft`, `PagesLeft`). *Sessions.* A session is made by two
steps; `LoginsAreBacked` says that a sign-in which gets there has stored its rows or found
them. The types need `AtSlackIsAway`: a tab that is at Slack has no page that could ask for anything.

*Edits.* `FreshEditIsStored` needs to know of the request that its items are those of a
form: it names no row twice and only rows there are, keeps only options it was shown, and
numbers its questions in order (`RequestsAreDrafts`); of the form that its questions have different
places, or it could not be sorted (`FormsAreShown`); and of the tables that no two enabled questions
share a place, which submit restores by numbering them anew (`TablesTyped`). TLC held these of three
questions, two options and two browsers first. Their use rests on lemmas about counting: the numbers
of those before it give the elements of a finite set the places from 1 on (`RankIsPlace`, by the
pigeon-hole principle), so a form shows each question once (`ShownItemsAre`), whatever a user
rearranges leaves it so (`RearrangedAre`), new questions and options get the ids that follow
(`AssignedAre`, `NewOptionsAre`), and the rows that submit leaves enabled are just those of the items
(`StoredQuestionsAre`, `StoredOptionsAre`, `OptionsAsAsked`). A form older than the team is another matter: see `TeamStale`.

*Schedule.* The days of a mask are those it was made of (`MaskShowsDays`: a sum of seven bits, each
left alone by the others), and since the last change the tick started the team just when the query
matches (`ScheduleInv`). A day of the zone is as many ticks in a row as a day has, all of one week
day, and one of these has the remainder that the query asks for (`DayOfZone`, `OnePerDay`), from lemmas about
quotients and remainders that hold of any length of a day.

*Pages.* `PageIsOfUrl`: what was read, and what is shown, is of the URL, as much as `news` leaves of it
(`ReadsAreOfUrl`, `ShownIsOfUrl`; switchMap drops the rest). `TwinTeams`: a form whose
request is still to be answered has at most one, unless saved again (`FormsAnswered`,
`SavedAgain`). `ListAgrees`: what was read (`FetchAgrees`), what is shown (`ShownAgrees`) and what
an answer on its way will do to a switch (`AnswerAgrees`) agree with the rows.

*Channels.* `RowAgrees` says nothing of the time between. Its invariant `ChInv` does: jobs are taken in the order of their
events (`InOrder`), and a channel that is not astray has one event handled at a time
(`OneWorks`), of those not applied the last brings each column to what Slack says, or what the
worker would find says it already (`Followed`), its row is what mikro-orm takes for it, and the entity unless its flush is to
come (`Backed`), and a flush writes the entity as it is (`Writes`). TLC found the first versions of it
too weak, and it holds of one channel with three events (75 k states) and two channels with two (358 k).

`MCApi`'s `TypeOK` and `MCTeams`' `AllTypeOK` are proved of the compositions: no part disturbs
another's invariant.

### Only model-checked

* Liveness under fairness (`EveryoneGreeted`, `StartedIsReported`, `ReportReachesMessage`,
  `InteractionsHandled`, `EveryRequestAnswered`, `EventsHandled`, `LogoutReachesAbout`), which needs
  `ENABLED`: out of the prover's reach.

Every safety invariant and action property that a passing run checks is proved. What the three
runs that end in a violation check is false.

## 5. Not modelled

* The read-only controllers of users, channels, time zones and statistics: one query each,
  nothing to interleave; they are the plain queries of `Transactional`.
* Dependency injection, routing, body parsing, static files, the two unused operators:
  plumbing.
* Migrations and fixtures: run by hand. What the models need of the schema is taken from it.
* Synchronisations of several workspaces at once: they interleave `begin` and `commit` on one
  entity manager, and what that does is mikro-orm's business.
* Two workers, or a forked entity manager: not deployed.
* `updateIm`, `clearUnneededSnapshots`, `findByIdAndUser`: no caller.
* Search, autocomplete and focus of the form's fields, the statistics page: they only show something.

## 6. Plan

The modules of the system are there, and all safety properties that hold are proved. What could be
added:

1. Liveness by hand: the step lemmas (`OnTheWay`, `Followed`, `AttemptsLeft`) already name what is still
   to happen; a proof needs `ENABLED`.
2. Two synchronisations on one entity manager, once mikro-orm says what interleaved transactions do.
