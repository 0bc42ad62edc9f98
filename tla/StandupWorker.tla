--------------------------- MODULE StandupWorker ---------------------------
(***************************************************************************)
(* The way of a user's interaction: a button or a dialog in Slack, the API *)
(* server's /slack/interactive endpoint (ApiMiddleware.useSlackApi), the   *)
(* Bull queue slack_interactive, the worker process (WorkerCommand) and    *)
(* SlackEventListener's two handlers of interactive jobs.                  *)
(*                                                                         *)
(* The queue's processor does not await the handler it calls, so Bull      *)
(* takes a job for complete as soon as it was taken: the handlers of       *)
(* successive jobs run side by side, and a handler that fails or is lost   *)
(* with the process is not run again.                                      *)
(*                                                                         *)
(* The handlers share the process's one entity manager, and with it the    *)
(* entities: what a handler has assigned waits there for a flush, anybody's*)
(* flush writes all that waits, and when a flush is rejected it waits on.  *)
(***************************************************************************)
EXTENDS StandupData

CONSTANTS
  MaxJobs,      \* bound: interactions the API queues
  WorkerFaults, \* the kinds of failure that may happen (a bound)
  QueueOption   \* the worker's option --queue, or NoOption

EventsQueue == "slack_events"
InteractiveQueue == "slack_interactive"
AvailableQueues == {EventsQueue, InteractiveQueue}
NoOption == "undefined"

WorkerFaultKinds == {"enqueue", "open", "store", "redraw", "crash"}

ASSUME WorkerAssumption ==
  /\ MaxJobs \in Nat
  /\ WorkerFaults \subseteq WorkerFaultKinds
  /\ QueueOption \in AvailableQueues \union {NoOption}

VARIABLES
  now, created, endAt, rows, answers, message,  \* as in StandupNotifier
  workerUp,  \* does the worker process run
  jobs,      \* the jobs of slack_interactive, in queue order
  dialog,    \* user -> the modal on the user's screen
  unsaved,   \* a sheet: answers assigned to entities and not yet written
  writing    \* <<sheet>> the flush under way writes, <<>> when there is none

shared == <<now, created, endAt, rows, answers, message>>
memory == <<unsaved, writing>>
vars == <<shared, workerUp, jobs, dialog, memory>>

(* A dialog keeps the standup in its private_metadata and may offer the    *)
(* submit button; born is the minute of the query that decided on it.      *)
Dialogs == [standup : Standups, offer : BOOLEAN, born : Minutes]
NoDialog == [offer |-> FALSE]

(* block_actions: "open", view_submission: "submit".  The fields after     *)
(* answer follow the job through its handler; early and after record, for  *)
(* the properties, whether the user's row was missing when the job was     *)
(* queued and which earlier submissions were over when one was queued.     *)
Stages == {"queued", "started", "loaded", "assigned", "flushing", "stored",
           "done", "refused", "dropped"}
Jobs == [kind : {"open", "submit"}, standup : Standups, user : Users,
         answer : Answers \union {NoAnswer}, stage : Stages,
         offer : BOOLEAN, born : Minutes,
         early : BOOLEAN, after : SUBSET (1..MaxJobs)]

TypeOK ==
  /\ now \in Minutes
  /\ created \subseteq Standups
  /\ endAt \in [Standups -> Nat]
  /\ rows \in [Standups -> SUBSET Users]
  /\ answers \in [Standups -> [Users -> Answers \union {NoAnswer}]]
  /\ message \in [Standups -> [Users -> Prompt]]
  /\ workerUp \in BOOLEAN
  /\ jobs \in Seq(Jobs) /\ Len(jobs) <= MaxJobs
  /\ dialog \in [Users -> Dialogs \union {NoDialog}]
  /\ unsaved \in Sheets
  /\ writing \in Seq(Sheets) /\ Len(writing) <= 1

Init ==
  /\ now = 0
  /\ created = {}
  /\ endAt = [s \in Standups |-> 0]
  /\ rows = [s \in Standups |-> {}]
  /\ answers = [s \in Standups |-> [u \in Users |-> NoAnswer]]
  /\ message = [s \in Standups |-> [u \in Users |-> NoPrompt]]
  /\ workerUp = TRUE
  /\ jobs = <<>>
  /\ dialog = [u \in Users |-> NoDialog]
  /\ unsaved = EmptySheet
  /\ writing = <<>>

-----------------------------------------------------------------------------
(* Slack and the API server.                                               *)

Over == {"done", "refused", "dropped"}

(* queue.add(response)                                                     *)
Enqueue(kind, s, u, a, born) ==
  /\ Len(jobs) < MaxJobs
  /\ jobs' = Append(jobs,
       [kind |-> kind, standup |-> s, user |-> u, answer |-> a,
        stage |-> "queued", offer |-> FALSE, born |-> born,
        early |-> u \notin rows[s],
        after |-> {n \in DOMAIN jobs :
                     kind = "submit" /\ jobs[n].kind = "submit"
                       /\ jobs[n].stage \in Over}])

(* The user presses the button of a prompt.                                *)
Press(s, u) ==
  /\ HasButton(message[s][u])
  /\ Enqueue("open", s, u, NoAnswer, 0)
  /\ UNCHANGED <<shared, workerUp, dialog, memory>>

(* The user submits the dialog; the endpoint acknowledges, Slack closes it.*)
Submit(u, a) ==
  /\ dialog[u].offer
  /\ Enqueue("submit", dialog[u].standup, u, a, dialog[u].born)
  /\ dialog' = [dialog EXCEPT ![u] = NoDialog]
  /\ UNCHANGED <<shared, workerUp, memory>>

(* queue.add rejects: logged, the submission is gone.                      *)
SubmitLost(u) ==
  /\ "enqueue" \in WorkerFaults
  /\ dialog[u].offer
  /\ dialog' = [dialog EXCEPT ![u] = NoDialog]
  /\ UNCHANGED <<shared, workerUp, jobs, memory>>

Cancel(u) ==
  /\ dialog[u] # NoDialog
  /\ dialog' = [dialog EXCEPT ![u] = NoDialog]
  /\ UNCHANGED <<shared, workerUp, jobs, memory>>

-----------------------------------------------------------------------------
(* The worker process.                                                     *)

(* Mutant: without an option the default queue is taken.                   *)
QueueNamesDefault ==
  IF QueueOption = NoOption THEN {EventsQueue} ELSE {QueueOption}

(* queueNames: the builder's default for --queue is slack_events; only the *)
(* `dev` command calls the handler without the option.                     *)
QueueNames ==
  IF QueueOption = NoOption THEN AvailableQueues ELSE {QueueOption}

At(n, kind, stage) ==
  /\ workerUp
  /\ n \in DOMAIN jobs /\ jobs[n].kind = kind /\ jobs[n].stage = stage

Advance(n, stage) == jobs' = [jobs EXCEPT ![n].stage = stage]

(* Bull hands out the oldest waiting job; the handler is not awaited.      *)
Take(n) ==
  /\ workerUp
  /\ InteractiveQueue \in QueueNames
  /\ n \in DOMAIN jobs /\ jobs[n].stage = "queued"
  /\ \A m \in 1..(n - 1) : jobs[m].stage # "queued"
  /\ Advance(n, "started")
  /\ UNCHANGED <<shared, workerUp, dialog, memory>>

(* Mutants: answers joined with an inner join; the row is not looked for.  *)
HasAnsweredRow(n) ==
  /\ jobs[n].user \in rows[jobs[n].standup]
  /\ answers[jobs[n].standup][jobs[n].user] # NoAnswer
HasRowUnchecked(n) == jobs[n].user \in Users

HasRow(n) == jobs[n].user \in rows[jobs[n].standup]

(* findUserStandup answers undefined: 'User standup is not found'.         *)
Refuse(n) ==
  /\ At(n, "open", "started") \/ At(n, "submit", "started")
  /\ ~HasRow(n)
  /\ Advance(n, "refused")
  /\ UNCHANGED <<shared, workerUp, dialog, memory>>

(* Mutant: the end is not looked at.                                       *)
OffersAlways(s) == {TRUE}

(* standup.isFinished() compares milliseconds; endAt is rounded to seconds *)
(* by its column, so within the minute of the end it may say either.       *)
Offers(s) ==
  {b \in BOOLEAN : (now < endAt[s] => b) /\ (now > endAt[s] => ~b)}

(* handleAction: the row is there, openDialog builds the view and awaits   *)
(* views.open.                                                             *)
BuildDialog(n) ==
  /\ At(n, "open", "started")
  /\ HasRow(n)
  /\ \E b \in Offers(jobs[n].standup) :
       jobs' = [jobs EXCEPT ![n].stage = "loaded", ![n].offer = b, ![n].born = now]
  /\ UNCHANGED <<shared, workerUp, dialog, memory>>

(* Mutant: the view is built without its private_metadata.                 *)
DialogOpenedBare(n) ==
  /\ At(n, "open", "loaded")
  /\ dialog' = [dialog EXCEPT ![jobs[n].user] =
       [offer |-> jobs[n].offer, born |-> jobs[n].born]]
  /\ Advance(n, "done")
  /\ UNCHANGED <<shared, workerUp, memory>>

DialogOpened(n) ==
  /\ At(n, "open", "loaded")
  /\ dialog' = [dialog EXCEPT ![jobs[n].user] =
       [standup |-> jobs[n].standup, offer |-> jobs[n].offer, born |-> jobs[n].born]]
  /\ Advance(n, "done")
  /\ UNCHANGED <<shared, workerUp, memory>>

(* views.open rejects, the trigger has expired for one.                    *)
DialogFails(n) ==
  /\ "open" \in WorkerFaults
  /\ At(n, "open", "loaded")
  /\ Advance(n, "dropped")
  /\ UNCHANGED <<shared, workerUp, dialog, memory>>

(* Mutant: the message is redrawn without a flush.                         *)
LoadSubmissionUnflushed(n) ==
  /\ At(n, "submit", "started")
  /\ HasRow(n)
  /\ Advance(n, "stored")
  /\ UNCHANGED <<shared, workerUp, dialog, memory>>

(* handleViewSubmission has its UserStandup and the question snapshots.    *)
LoadSubmission(n) ==
  /\ At(n, "submit", "started")
  /\ HasRow(n)
  /\ Advance(n, "loaded")
  /\ UNCHANGED <<shared, workerUp, dialog, memory>>

(* Mutant: an answer that is found is left as it is.                       *)
AssignMissing(n) ==
  /\ At(n, "submit", "loaded")
  /\ unsaved' = IF answers[jobs[n].standup][jobs[n].user] # NoAnswer THEN unsaved
                ELSE [unsaved EXCEPT ![jobs[n].standup][jobs[n].user] = jobs[n].answer]
  /\ Advance(n, "assigned")
  /\ UNCHANGED <<shared, workerUp, dialog, writing>>

(* Each question's answer is found or added and assigned to, then a flush  *)
(* is asked for.  Nobody looks at the clock: the standup may have ended,   *)
(* or been reported.                                                       *)
AssignAnswers(n) ==
  /\ At(n, "submit", "loaded")
  /\ unsaved' = [unsaved EXCEPT ![jobs[n].standup][jobs[n].user] = jobs[n].answer]
  /\ Advance(n, "assigned")
  /\ UNCHANGED <<shared, workerUp, dialog, writing>>

(* A flush begins when none is under way.                                  *)
FlushStarts(n) ==
  /\ At(n, "submit", "assigned")
  /\ writing = <<>>
  /\ writing' = <<unsaved>>
  /\ Advance(n, "flushing")
  /\ UNCHANGED <<shared, workerUp, dialog, unsaved>>

(* An event's handler flushes the same entity manager, if this worker has  *)
(* the queue of the events as well.                                        *)
EventFlushStarts ==
  /\ workerUp
  /\ EventsQueue \in QueueNames
  /\ writing = <<>> /\ unsaved # EmptySheet
  /\ writing' = <<unsaved>>
  /\ UNCHANGED <<shared, workerUp, jobs, dialog, unsaved>>

(* The handler whose flush it is, if it is one of an interaction's.        *)
AdvanceFlushing(stage) ==
  jobs' = [n \in DOMAIN jobs |->
    IF jobs[n].stage = "flushing" THEN [jobs[n] EXCEPT !.stage = stage] ELSE jobs[n]]

(* The answers are in Postgres.  What was assigned to the same entities    *)
(* while they went there is still to be written, or, if the entity manager *)
(* takes it for what it has written, lost.                                 *)
FlushLands ==
  /\ answers' = Written(answers, writing[1])
  /\ \E lost \in BOOLEAN :
       unsaved' = [s \in Standups |-> [u \in Users |->
         IF writing[1][s][u] = unsaved[s][u] \/ (lost /\ writing[1][s][u] # NoAnswer)
           THEN NoAnswer ELSE unsaved[s][u]]]

FlushEnds ==
  /\ writing # <<>>
  /\ FlushLands
  /\ writing' = <<>>
  /\ AdvanceFlushing("stored")
  /\ UNCHANGED <<now, created, endAt, rows, message, workerUp, dialog>>

(* The flush is rejected: nothing was written and everything is left for   *)
(* the next one, or only the confirmation was lost.                        *)
FlushFails ==
  /\ "store" \in WorkerFaults
  /\ writing # <<>>
  /\ FlushLands \/ UNCHANGED <<answers, unsaved>>
  /\ writing' = <<>>
  /\ AdvanceFlushing("dropped")
  /\ UNCHANGED <<now, created, endAt, rows, message, workerUp, dialog>>

(* chat.update with generateStandupMsg(standup, true): the check mark, the *)
(* button, and no link even if the message had one.                        *)
RedrawMessage(n) ==
  /\ At(n, "submit", "stored")
  /\ message' = [message EXCEPT ![jobs[n].standup][jobs[n].user] =
                   StandupMsg(TRUE, FALSE)]
  /\ Advance(n, "done")
  /\ UNCHANGED <<now, created, endAt, rows, answers, workerUp, dialog, memory>>

RedrawFails(n) ==
  /\ "redraw" \in WorkerFaults
  /\ At(n, "submit", "stored")
  /\ Advance(n, "dropped")
  /\ UNCHANGED <<shared, workerUp, dialog, memory>>

(* Jobs in Redis survive; the handlers under way and what they share do    *)
(* not.  The flush under way may have been carried out.                    *)
WorkerCrash ==
  /\ "crash" \in WorkerFaults
  /\ workerUp
  /\ workerUp' = FALSE
  /\ jobs' = [n \in DOMAIN jobs |->
       IF jobs[n].stage \in Over \union {"queued"} THEN jobs[n]
       ELSE [jobs[n] EXCEPT !.stage = "dropped"]]
  /\ \/ UNCHANGED answers
     \/ writing # <<>> /\ answers' = Written(answers, writing[1])
  /\ unsaved' = EmptySheet /\ writing' = <<>>
  /\ UNCHANGED <<now, created, endAt, rows, message, dialog>>

WorkerRestart ==
  /\ ~workerUp
  /\ workerUp' = TRUE
  /\ UNCHANGED <<shared, jobs, dialog, memory>>

-----------------------------------------------------------------------------
(* The environment: what StandupNotifier does to the state both share.     *)

Tick ==
  /\ now < MaxMinute
  /\ now' = now + 1
  /\ UNCHANGED <<created, endAt, rows, answers, message, workerUp, jobs, dialog,
                 memory>>

Created(s, n) ==
  /\ s \notin created
  /\ StartMinute(s) <= now
  /\ created' = created \union {s}
  /\ endAt' = [endAt EXCEPT ![s] = StartMinute(s) + n]
  /\ UNCHANGED <<now, rows, answers, message, workerUp, jobs, dialog,
                 memory>>

Greeted(s, u) ==
  /\ s \in created /\ u \in Members(s)
  /\ ~message[s][u].sent
  /\ message' = [message EXCEPT ![s][u] = StandupMsg(FALSE, FALSE)]
  /\ UNCHANGED <<now, created, endAt, rows, answers, workerUp, jobs, dialog,
                 memory>>

RowSaved(s, u) ==
  /\ message[s][u].sent
  /\ rows' = [rows EXCEPT ![s] = @ \union {u}]
  /\ UNCHANGED <<now, created, endAt, answers, message, workerUp, jobs, dialog,
                 memory>>

Linked(s, u) ==
  /\ s \in created /\ endAt[s] <= now /\ message[s][u].sent
  /\ \E submitted \in BOOLEAN :
       /\ submitted => answers[s][u] # NoAnswer
       /\ message' = [message EXCEPT ![s][u] = StandupMsg(submitted, TRUE)]
  /\ UNCHANGED <<now, created, endAt, rows, answers, workerUp, jobs, dialog,
                 memory>>

-----------------------------------------------------------------------------

Client ==
  \/ \E s \in Standups, u \in Users : Press(s, u)
  \/ \E u \in Users :
       SubmitLost(u) \/ Cancel(u) \/ \E a \in Answers : Submit(u, a)

Handle(n) ==
  \/ Refuse(n)
  \/ BuildDialog(n) \/ DialogOpened(n) \/ DialogFails(n)
  \/ LoadSubmission(n) \/ AssignAnswers(n) \/ FlushStarts(n)
  \/ RedrawMessage(n) \/ RedrawFails(n)

Flush == EventFlushStarts \/ FlushEnds \/ FlushFails

Worker ==
  \/ \E n \in 1..MaxJobs : Take(n) \/ Handle(n)
  \/ Flush \/ WorkerCrash \/ WorkerRestart

Notifier ==
  \/ Tick
  \/ \E s \in Standups :
       \/ \E n \in Durations : Created(s, n)
       \/ \E u \in Users : Greeted(s, u) \/ RowSaved(s, u) \/ Linked(s, u)

Next == Client \/ Worker \/ Notifier

(* Bull hands out waiting jobs and every await of a handler settles.       *)
Fairness ==
  /\ WF_vars(WorkerRestart) /\ WF_vars(FlushEnds \/ FlushFails)
  /\ \A n \in 1..MaxJobs : WF_vars(Take(n)) /\ WF_vars(Handle(n))

Spec == Init /\ [][Next]_vars

FairSpec == Spec /\ Fairness

-----------------------------------------------------------------------------
(* Safety.                                                                 *)

(* A submission of the user's answers to the standup, from a dialog that   *)
(* was built when the standup had not ended, in one of these stages.       *)
Submitted(s, u, answer, stages) ==
  \E n \in DOMAIN jobs :
    /\ jobs[n].kind = "submit" /\ jobs[n].stage \in stages
    /\ jobs[n].standup = s /\ jobs[n].user = u /\ jobs[n].answer = answer
    /\ jobs[n].born <= endAt[s]

(* Answers change only to those of a submission of the user they belong    *)
(* to, from a dialog built for that standup when it had not ended: one     *)
(* whose flush is still to come or under way, or one that was given up.    *)
(* The end is checked when the dialog is built and never again, and the    *)
(* flush that stores the answers may be another handler's, long after      *)
(* their own was rejected; but a submission that was stored and shown is   *)
(* never stored once more, over a later one.                               *)
AnswersComeFromOpenDialogs ==
  [][\A s \in Standups, u \in Users :
       answers'[s][u] # answers[s][u] =>
         Submitted(s, u, answers'[s][u], {"assigned", "flushing", "dropped"})]_vars

(* 'User standup is not found' meets only a user who pressed the button in *)
(* the time between the greeting and its UserStandup row, never one who    *)
(* submits a dialog.                                                       *)
RefusedOnlyBeforeRow ==
  \A n \in DOMAIN jobs :
    jobs[n].stage = "refused" => jobs[n].kind = "open" /\ jobs[n].early

(* A check mark stands for stored answers, also while the handlers of two  *)
(* submissions of one user and the report's update interleave.             *)
CheckMeansAnswer ==
  \A s \in Standups, u \in Users :
    message[s][u].check => answers[s][u] # NoAnswer

Submissions(s, u) ==
  {n \in DOMAIN jobs :
     jobs[n].kind = "submit" /\ jobs[n].standup = s /\ jobs[n].user = u}

(* Handlers run side by side, so of two submissions the older may be       *)
(* stored last.  It is never one that was over before the other was made:  *)
(* once all of a user's submissions are stored, the answers are those of a *)
(* submission no later one followed.                                       *)
NoStaleAnswers ==
  \A s \in Standups, u \in Users :
    LET mine == Submissions(s, u) IN
    (mine # {} /\ \A n \in mine : jobs[n].stage = "done") =>
      \E n \in mine : /\ answers[s][u] = jobs[n].answer
                      /\ \A m \in mine : n \notin jobs[m].after

-----------------------------------------------------------------------------
(* Why the invariants above are kept: what each hand-over passes on.       *)

(* A standup somebody has a message or a row of is in the database, and    *)
(* its end does not change any more.                                       *)
PromptsOfCreated ==
  \A s \in Standups, u \in Users :
    message[s][u].sent \/ u \in rows[s] => s \in created

(* A dialog on a screen was built for a user with a row; it offers the     *)
(* submit button only if the standup had not ended then.                   *)
DialogsBacked ==
  \A u \in Users :
    dialog[u] # NoDialog =>
      /\ u \in rows[dialog[u].standup]
      /\ dialog[u].offer => dialog[u].born <= endAt[dialog[u].standup]

(* Rows are never taken back, so what was true when a job was queued, or   *)
(* when its handler had found the row, is true when the handler goes on.   *)
JobBacked(j) ==
  /\ ~j.early => j.user \in rows[j.standup]
  /\ j.stage = "refused" => j.kind = "open" /\ j.early
  /\ j.kind = "open" /\ j.stage = "loaded" =>
       /\ j.user \in rows[j.standup]
       /\ j.offer => j.born <= endAt[j.standup]
  /\ j.kind = "submit" =>
       /\ j.answer # NoAnswer /\ ~j.early
       /\ j.born <= endAt[j.standup]
       /\ j.stage \in {"stored", "done"} => answers[j.standup][j.user] # NoAnswer
       /\ j.stage = "assigned" =>
            unsaved[j.standup][j.user] # NoAnswer \/ answers[j.standup][j.user] # NoAnswer
       /\ j.stage = "flushing" =>
            writing[1][j.standup][j.user] # NoAnswer \/ answers[j.standup][j.user] # NoAnswer

JobsBacked == \A n \in DOMAIN jobs : JobBacked(jobs[n])

(* A job that was over when another was queued stays over.                 *)
AfterIsOver ==
  \A m \in DOMAIN jobs : \A n \in jobs[m].after :
    n \in DOMAIN jobs /\ jobs[n].stage \in Over

(* What waits in the entities, and what a flush has taken from them, is of *)
(* a submission whose flush was not confirmed; what was assigned since the *)
(* flush under way began is of one whose own flush it is not.              *)
UnsavedBacked ==
  /\ \A n \in DOMAIN jobs : jobs[n].stage = "flushing" => writing # <<>>
  /\ \A s \in Standups, u \in Users :
       /\ unsaved[s][u] # NoAnswer =>
            Submitted(s, u, unsaved[s][u], {"assigned", "flushing", "dropped"})
       /\ writing # <<>> =>
            /\ writing[1][s][u] # NoAnswer =>
                 Submitted(s, u, writing[1][s][u], {"assigned", "flushing", "dropped"})
            /\ unsaved[s][u] \notin {NoAnswer, writing[1][s][u]} =>
                 Submitted(s, u, unsaved[s][u], {"assigned", "dropped"})

(* The submissions no flush to come will store: stored, or overwritten or  *)
(* lost in the entities before their own flush.                            *)
Passed(s, u) ==
  {n \in Submissions(s, u) :
     \/ jobs[n].stage \in {"stored", "done"}
     \/ jobs[n].stage = "assigned" /\ unsaved[s][u] = NoAnswer
     \/ jobs[n].stage = "flushing" /\ writing[1][s][u] = NoAnswer}

(* Unless a failure makes it unknown who stored last: the answers are      *)
(* those of a submission that no passed one was queued after the end of.   *)
LastStored ==
  \A s \in Standups, u \in Users :
    (Passed(s, u) # {} /\ \A n \in Submissions(s, u) : jobs[n].stage # "dropped") =>
      \E n \in Submissions(s, u) :
        /\ jobs[n].stage \in {"assigned", "flushing", "stored", "done"}
        /\ answers[s][u] = jobs[n].answer
        /\ \A m \in Passed(s, u) : n \notin jobs[m].after

-----------------------------------------------------------------------------
(* Liveness.                                                               *)

(* Each interaction the API queued comes to the end of its handler, as     *)
(* long as nothing fails.                                                  *)
InteractionsHandled ==
  \A n \in 1..MaxJobs :
    (n \in DOMAIN jobs)
      ~> (n \in DOMAIN jobs /\ jobs[n].stage \in {"done", "refused"})

=============================================================================
