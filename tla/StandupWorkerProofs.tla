------------------------ MODULE StandupWorkerProofs ------------------------
(***************************************************************************)
(* Theorems of StandupWorker, for every roster, schedule, number of jobs,  *)
(* queue option and kind of failure.                                       *)
(***************************************************************************)
EXTENDS StandupWorker, TLAPS

-----------------------------------------------------------------------------
(* The queue.                                                              *)

(* A job of the queue is a job, its place one of the first MaxJobs.        *)
LEMMA JobType ==
  ASSUME TypeOK, NEW n \in DOMAIN jobs
  PROVE  /\ n \in 1..MaxJobs
         /\ jobs[n] \in Jobs
BY WorkerAssumption DEF TypeOK

(* The fields of a job.                                                    *)
LEMMA JobFields ==
  ASSUME NEW j \in Jobs
  PROVE  /\ j.kind \in {"open", "submit"} /\ j.stage \in Stages
         /\ j.standup \in Standups /\ j.user \in Users
         /\ j.answer \in Answers \union {NoAnswer}
         /\ j.offer \in BOOLEAN /\ j.early \in BOOLEAN
         /\ j.born \in Minutes /\ j.after \in SUBSET (1..MaxJobs)
BY DEF Jobs

(* The n-th job is at a stage now, and the same in every field its handler *)
(* has no business with.                                                   *)
Restaged(n, stage) ==
  /\ jobs'[n].stage = stage
  /\ jobs'[n].kind = jobs[n].kind
  /\ jobs'[n].standup = jobs[n].standup /\ jobs'[n].user = jobs[n].user
  /\ jobs'[n].answer = jobs[n].answer
  /\ jobs'[n].early = jobs[n].early /\ jobs'[n].after = jobs[n].after
  /\ jobs[n].kind = "submit" => jobs'[n].born = jobs[n].born

(* A handler's step moves its job on; nothing else of the queue changes.   *)
Moved(n, stage) ==
  /\ DOMAIN jobs' = DOMAIN jobs
  /\ \A m \in DOMAIN jobs \ {n} : jobs'[m] = jobs[m]
  /\ Restaged(n, stage)

(* The types of the queue.                                                 *)
JobsOK == jobs \in Seq(Jobs) /\ Len(jobs) <= MaxJobs

(* Advance only moves its job on.                                          *)
LEMMA AdvanceMoves ==
  ASSUME TypeOK, NEW n \in DOMAIN jobs, NEW stage \in Stages, Advance(n, stage)
  PROVE  /\ JobsOK' /\ Moved(n, stage)
         /\ jobs'[n].offer = jobs[n].offer /\ jobs'[n].born = jobs[n].born
<1>1. jobs[n] \in Jobs /\ jobs \in Seq(Jobs) /\ Len(jobs) <= MaxJobs
  BY JobType DEF TypeOK
<1> DEFINE j == [jobs[n] EXCEPT !.stage = stage]
<1>2. jobs' = [jobs EXCEPT ![n] = j]
  BY DEF Advance
<1>3. j \in Jobs
  BY <1>1 DEF Jobs
<1>4. /\ j.stage = stage /\ j.kind = jobs[n].kind /\ j.standup = jobs[n].standup
      /\ j.user = jobs[n].user /\ j.answer = jobs[n].answer
      /\ j.early = jobs[n].early /\ j.after = jobs[n].after
      /\ j.offer = jobs[n].offer /\ j.born = jobs[n].born
  BY <1>1 DEF Jobs
<1> HIDE DEF j
<1>5. jobs' \in Seq(Jobs) /\ Len(jobs') = Len(jobs) /\ DOMAIN jobs' = DOMAIN jobs
  BY <1>1, <1>2, <1>3
<1>6. jobs'[n] = j /\ \A m \in DOMAIN jobs \ {n} : jobs'[m] = jobs[m]
  BY <1>1, <1>2
<1>7. QED
  BY <1>1, <1>4, <1>5, <1>6 DEF JobsOK, Moved, Restaged

(* BuildDialog moves its job on and notes what it decided, and when.       *)
LEMMA BuildDialogMoves ==
  ASSUME TypeOK, NEW n \in 1..MaxJobs, BuildDialog(n)
  PROVE  /\ n \in DOMAIN jobs /\ JobsOK' /\ Moved(n, "loaded")
         /\ jobs[n].kind = "open" /\ jobs[n].stage = "started"
         /\ jobs'[n].offer \in Offers(jobs[n].standup)
         /\ jobs'[n].born = now
<1>1. /\ n \in DOMAIN jobs /\ jobs[n] \in Jobs /\ jobs \in Seq(Jobs)
      /\ Len(jobs) <= MaxJobs /\ now \in Minutes
      /\ jobs[n].kind = "open" /\ jobs[n].stage = "started"
  BY JobType DEF TypeOK, BuildDialog, At
<1>2. PICK b \in Offers(jobs[n].standup) :
        jobs' = [jobs EXCEPT ![n].stage = "loaded", ![n].offer = b, ![n].born = now]
  BY DEF BuildDialog
<1> DEFINE j == [jobs[n] EXCEPT !.stage = "loaded", !.offer = b, !.born = now]
<1>3. jobs' = [jobs EXCEPT ![n] = j]
  BY <1>1, <1>2
<1>4. j \in Jobs
  BY <1>1 DEF Jobs, Stages, Offers
<1>5. /\ j.stage = "loaded" /\ j.kind = jobs[n].kind /\ j.standup = jobs[n].standup
      /\ j.user = jobs[n].user /\ j.answer = jobs[n].answer
      /\ j.early = jobs[n].early /\ j.after = jobs[n].after
      /\ j.offer = b /\ j.born = now
  BY <1>1 DEF Jobs
<1> HIDE DEF j
<1>6. jobs' \in Seq(Jobs) /\ Len(jobs') = Len(jobs) /\ DOMAIN jobs' = DOMAIN jobs
  BY <1>1, <1>3, <1>4
<1>7. jobs'[n] = j /\ \A m \in DOMAIN jobs \ {n} : jobs'[m] = jobs[m]
  BY <1>1, <1>3
<1>8. QED
  BY <1>1, <1>5, <1>6, <1>7 DEF JobsOK, Moved, Restaged

(* What Enqueue appends.                                                   *)
NewJob(kind, s, u, a, born) ==
  [kind |-> kind, standup |-> s, user |-> u, answer |-> a,
   stage |-> "queued", offer |-> FALSE, born |-> born,
   early |-> u \notin rows[s],
   after |-> {n \in DOMAIN jobs :
                kind = "submit" /\ jobs[n].kind = "submit"
                  /\ jobs[n].stage \in Over}]

(* Enqueue leaves the jobs that are queued and adds one.                   *)
LEMMA EnqueueAdds ==
  ASSUME TypeOK, NEW kind \in {"open", "submit"}, NEW s \in Standups, NEW u \in Users,
         NEW a \in Answers \union {NoAnswer}, NEW born \in Minutes,
         Enqueue(kind, s, u, a, born)
  PROVE  /\ JobsOK'
         /\ DOMAIN jobs' = DOMAIN jobs \union {Len(jobs) + 1}
         /\ Len(jobs) + 1 \notin DOMAIN jobs
         /\ \A m \in DOMAIN jobs : jobs'[m] = jobs[m]
         /\ jobs'[Len(jobs) + 1] = NewJob(kind, s, u, a, born)
<1> DEFINE j == NewJob(kind, s, u, a, born)
<1>1. jobs' = Append(jobs, j) /\ Len(jobs) < MaxJobs
  BY DEF Enqueue, NewJob
<1>2. jobs \in Seq(Jobs) /\ Len(jobs) \in Nat /\ MaxJobs \in Nat
  BY WorkerAssumption DEF TypeOK
<1>3. {n \in DOMAIN jobs : kind = "submit" /\ jobs[n].kind = "submit"
                             /\ jobs[n].stage \in Over} \in SUBSET (1..MaxJobs)
  BY <1>1, <1>2
<1>4. j \in Jobs
  BY <1>3 DEF NewJob, Jobs, Stages
<1> HIDE DEF j
<1>5. jobs' \in Seq(Jobs) /\ Len(jobs') = Len(jobs) + 1
  BY <1>1, <1>2, <1>4
<1>6. \A m \in DOMAIN jobs : jobs'[m] = jobs[m]
  BY <1>1, <1>2
<1>7. jobs'[Len(jobs) + 1] = j
  BY <1>1, <1>2
<1>8. QED
  BY <1>1, <1>2, <1>5, <1>6, <1>7 DEF JobsOK, j

(* A crash takes away the handlers under way.                              *)
LEMMA CrashDrops ==
  ASSUME TypeOK, WorkerCrash
  PROVE  /\ JobsOK' /\ DOMAIN jobs' = DOMAIN jobs
         /\ \A n \in DOMAIN jobs :
              jobs'[n] = jobs[n] \/ Restaged(n, "dropped")
<1>1. jobs \in Seq(Jobs) /\ Len(jobs) <= MaxJobs
  BY DEF TypeOK
<1>2. jobs' = [n \in DOMAIN jobs |->
        IF jobs[n].stage \in Over \union {"queued"} THEN jobs[n]
        ELSE [jobs[n] EXCEPT !.stage = "dropped"]]
  BY DEF WorkerCrash
<1>3. ASSUME NEW n \in DOMAIN jobs
      PROVE  jobs[n] \in Jobs /\ [jobs[n] EXCEPT !.stage = "dropped"] \in Jobs
  BY JobType DEF Jobs, Stages
<1>4. \A n \in DOMAIN jobs : jobs'[n] \in Jobs
  BY <1>1, <1>2, <1>3
<1>5. DOMAIN jobs' = 1..Len(jobs) /\ Len(jobs) \in Nat
  BY <1>1, <1>2
<1>6. jobs' \in [1..Len(jobs) -> Jobs]
  BY <1>1, <1>2, <1>4, <1>5
<1>7. jobs' \in Seq(Jobs) /\ Len(jobs') = Len(jobs)
  BY <1>5, <1>6
<1>8. ASSUME NEW n \in DOMAIN jobs
      PROVE  jobs'[n] = jobs[n] \/ Restaged(n, "dropped")
  <2>1. CASE jobs'[n] = jobs[n]
    BY <2>1
  <2>2. CASE jobs'[n] = [jobs[n] EXCEPT !.stage = "dropped"]
    BY <1>3, <2>2 DEF Restaged, Jobs
  <2>3. QED
    BY <1>2, <2>1, <2>2
<1>9. QED
  BY <1>1, <1>5, <1>7, <1>8 DEF JobsOK

(* The end of a flush moves the handlers on whose flush it is.             *)
LEMMA FlushMoves ==
  ASSUME TypeOK, NEW stage \in Stages, AdvanceFlushing(stage)
  PROVE  /\ JobsOK' /\ DOMAIN jobs' = DOMAIN jobs
         /\ \A n \in DOMAIN jobs :
              /\ jobs[n].stage = "flushing" => Restaged(n, stage)
              /\ jobs[n].stage # "flushing" => jobs'[n] = jobs[n]
<1>1. jobs \in Seq(Jobs) /\ Len(jobs) <= MaxJobs
  BY DEF TypeOK
<1>2. jobs' = [n \in DOMAIN jobs |->
        IF jobs[n].stage = "flushing" THEN [jobs[n] EXCEPT !.stage = stage] ELSE jobs[n]]
  BY DEF AdvanceFlushing
<1>3. ASSUME NEW n \in DOMAIN jobs
      PROVE  jobs[n] \in Jobs /\ [jobs[n] EXCEPT !.stage = stage] \in Jobs
  BY JobType DEF Jobs
<1>4. \A n \in DOMAIN jobs : jobs'[n] \in Jobs
  BY <1>1, <1>2, <1>3
<1>5. DOMAIN jobs' = 1..Len(jobs) /\ Len(jobs) \in Nat
  BY <1>1, <1>2
<1>6. jobs' \in [1..Len(jobs) -> Jobs]
  BY <1>1, <1>2, <1>4, <1>5
<1>7. jobs' \in Seq(Jobs) /\ Len(jobs') = Len(jobs)
  BY <1>5, <1>6
<1>8. ASSUME NEW n \in DOMAIN jobs
      PROVE  /\ jobs[n].stage = "flushing" => Restaged(n, stage)
             /\ jobs[n].stage # "flushing" => jobs'[n] = jobs[n]
  <2>1. CASE jobs[n].stage = "flushing"
    <3>1. jobs'[n] = [jobs[n] EXCEPT !.stage = stage]
      BY <1>2, <2>1
    <3>2. QED
      BY <1>3, <2>1, <3>1 DEF Restaged, Jobs
  <2>2. QED
    BY <1>2, <2>1
<1>9. QED
  BY <1>1, <1>5, <1>7, <1>8 DEF JobsOK

-----------------------------------------------------------------------------
(* The entity manager.                                                     *)

(* What one cell of the stored answers is after a sheet is written.        *)
LEMMA WrittenCell ==
  ASSUME NEW stored, NEW sheet, NEW s \in Standups, NEW u \in Users
  PROVE  Written(stored, sheet)[s][u] =
           IF sheet[s][u] # NoAnswer THEN sheet[s][u] ELSE stored[s][u]
BY DEF Written

(* Writing a sheet over stored answers gives stored answers.               *)
LEMMA WrittenType ==
  ASSUME NEW stored \in Sheets, NEW sheet \in Sheets
  PROVE  Written(stored, sheet) \in Sheets
BY DEF Sheets, Written

(* The flush under way writes a sheet.                                     *)
LEMMA WritingType ==
  ASSUME TypeOK, writing # <<>>
  PROVE  writing[1] \in Sheets
BY DEF TypeOK

(* A flush that lands writes what it has taken; of what waits it leaves    *)
(* only what is not the same.                                              *)
LEMMA FlushLandsCell ==
  ASSUME FlushLands, NEW s \in Standups, NEW u \in Users
  PROVE  /\ answers'[s][u] = IF writing[1][s][u] # NoAnswer THEN writing[1][s][u]
                              ELSE answers[s][u]
         /\ \/ unsaved'[s][u] = unsaved[s][u] /\ unsaved[s][u] # writing[1][s][u]
            \/ unsaved'[s][u] = NoAnswer /\ writing[1][s][u] # NoAnswer
            \/ unsaved'[s][u] = NoAnswer /\ unsaved[s][u] = NoAnswer
<1>1. answers'[s][u] = IF writing[1][s][u] # NoAnswer THEN writing[1][s][u]
                       ELSE answers[s][u]
  BY WrittenCell DEF FlushLands
<1>2. PICK lost \in BOOLEAN :
        unsaved' = [r \in Standups |-> [v \in Users |->
          IF writing[1][r][v] = unsaved[r][v] \/ (lost /\ writing[1][r][v] # NoAnswer)
            THEN NoAnswer ELSE unsaved[r][v]]]
  BY DEF FlushLands
<1>3. QED
  BY <1>1, <1>2

(* A flush that lands keeps the types of what it writes and leaves.        *)
LEMMA FlushLandsType ==
  ASSUME TypeOK, writing # <<>>, FlushLands
  PROVE  answers' \in Sheets /\ unsaved' \in Sheets
<1>1. answers \in Sheets /\ unsaved \in Sheets
  BY DEF TypeOK, Sheets
<1>2. answers' \in Sheets
  BY <1>1, WritingType, WrittenType DEF FlushLands
<1>3. PICK lost \in BOOLEAN :
        unsaved' = [r \in Standups |-> [v \in Users |->
          IF writing[1][r][v] = unsaved[r][v] \/ (lost /\ writing[1][r][v] # NoAnswer)
            THEN NoAnswer ELSE unsaved[r][v]]]
  BY DEF FlushLands
<1>4. QED
  BY <1>1, <1>2, <1>3 DEF Sheets

-----------------------------------------------------------------------------
(* TypeOK.                                                                 *)

(* Whatever sendReport or the worker draws is a prompt.                    *)
LEMMA PromptType ==
  ASSUME NEW c \in BOOLEAN, NEW l \in BOOLEAN
  PROVE  StandupMsg(c, l) \in Prompt
BY DEF StandupMsg, Prompt

(* The start minute of a standup is a minute of the run, the users it asks *)
(* are users.                                                              *)
LEMMA StandupFields ==
  ASSUME NEW s \in Standups
  PROVE  StartMinute(s) \in 1..MaxMinute /\ Members(s) \subseteq Users
<1>1. s \in Teams \X (1..MaxMinute)
  BY DataAssumption DEF Standups
<1>2. Team(s) \in Teams /\ StartMinute(s) \in 1..MaxMinute
  BY <1>1 DEF Team, StartMinute
<1>3. Asked(s) \in Seq(Users)
  BY <1>2, DataAssumption DEF Asked
<1>4. QED
  BY <1>2, <1>3 DEF Members

(* A dialog that offers the submit button is one of a standup.             *)
LEMMA OfferedDialog ==
  ASSUME TypeOK, NEW u \in Users, dialog[u].offer \/ dialog[u] # NoDialog
  PROVE  /\ dialog[u] \in Dialogs /\ dialog[u] # NoDialog
         /\ dialog[u].standup \in Standups /\ dialog[u].born \in Minutes
         /\ dialog[u].offer \in BOOLEAN
<1>1. dialog[u] \in Dialogs \union {NoDialog}
  BY DEF TypeOK
<1>2. NoDialog.offer = FALSE
  BY DEF NoDialog
<1>3. dialog[u] \in Dialogs /\ dialog[u] # NoDialog
  BY <1>1, <1>2
<1>4. QED
  BY <1>3 DEF Dialogs

(* The initial state has the right types.                                  *)
LEMMA InitType == Init => TypeOK
<1> SUFFICES ASSUME Init PROVE TypeOK
  OBVIOUS
<1>1. NoPrompt \in Prompt /\ now \in Minutes
  BY DataAssumption DEF Init, NoPrompt, Prompt, Minutes
<1>2. jobs \in Seq(Jobs) /\ Len(jobs) = 0 /\ MaxJobs \in Nat
  BY WorkerAssumption DEF Init
<1>3. unsaved \in Sheets /\ writing \in Seq(Sheets) /\ Len(writing) = 0
  BY DEF Init, EmptySheet, Sheets
<1>4. QED
  BY <1>1, <1>2, <1>3 DEF Init, TypeOK

(* Every step keeps the types.                                             *)
LEMMA TypeStep == TypeOK /\ [Next]_vars => TypeOK'
<1> SUFFICES ASSUME TypeOK, [Next]_vars
             PROVE  TypeOK'
  OBVIOUS
<1> USE DEF shared, memory
<1>1. ASSUME NEW s \in Standups, NEW u \in Users, Press(s, u)
      PROVE  TypeOK'
  <2>1. 0 \in Minutes
    BY DataAssumption DEF Minutes
  <2>2. JobsOK'
    BY <1>1, <2>1, EnqueueAdds DEF Press
  <2>3. QED
    BY <1>1, <2>2 DEF Press, TypeOK, JobsOK
<1>2. ASSUME NEW u \in Users, NEW a \in Answers, Submit(u, a)
      PROVE  TypeOK'
  <2>1. dialog[u].standup \in Standups /\ dialog[u].born \in Minutes
    BY <1>2, OfferedDialog DEF Submit
  <2>2. JobsOK'
    BY <1>2, <2>1, EnqueueAdds DEF Submit
  <2>3. QED
    BY <1>2, <2>2 DEF Submit, TypeOK, JobsOK
<1>3. ASSUME NEW u \in Users, SubmitLost(u) \/ Cancel(u)
      PROVE  TypeOK'
  BY <1>3 DEF SubmitLost, Cancel, TypeOK
<1>4. ASSUME NEW n \in 1..MaxJobs, NEW stage \in Stages, n \in DOMAIN jobs,
             Advance(n, stage), UNCHANGED <<shared, workerUp, dialog, memory>>
      PROVE  TypeOK'
  BY <1>4, AdvanceMoves DEF TypeOK, JobsOK
<1>5. ASSUME NEW n \in 1..MaxJobs,
             \/ Take(n) \/ Refuse(n) \/ DialogFails(n) \/ LoadSubmission(n)
             \/ RedrawFails(n)
      PROVE  TypeOK'
  BY <1>4, <1>5 DEF Take, Refuse, DialogFails, LoadSubmission, RedrawFails, At, Stages
<1>6. ASSUME NEW n \in 1..MaxJobs, BuildDialog(n)
      PROVE  TypeOK'
  BY <1>6, BuildDialogMoves DEF BuildDialog, TypeOK, JobsOK
<1>7. ASSUME NEW n \in 1..MaxJobs, DialogOpened(n)
      PROVE  TypeOK'
  <2>1. n \in DOMAIN jobs /\ jobs[n] \in Jobs
    BY <1>7, JobType DEF DialogOpened, At
  <2>2. JobsOK'
    BY <1>7, <2>1, AdvanceMoves DEF DialogOpened, Stages
  <2>3. [standup |-> jobs[n].standup, offer |-> jobs[n].offer,
         born |-> jobs[n].born] \in Dialogs
    BY <2>1 DEF Jobs, Dialogs
  <2>4. QED
    BY <1>7, <2>1, <2>2, <2>3 DEF DialogOpened, TypeOK, JobsOK
<1>8. ASSUME NEW n \in 1..MaxJobs, AssignAnswers(n)
      PROVE  TypeOK'
  <2>1. n \in DOMAIN jobs /\ jobs[n] \in Jobs
    BY <1>8, JobType DEF AssignAnswers, At
  <2>2. JobsOK'
    BY <1>8, <2>1, AdvanceMoves DEF AssignAnswers, Stages
  <2>3. unsaved' \in Sheets
    BY <1>8, <2>1, JobFields DEF AssignAnswers, TypeOK, Sheets
  <2>4. QED
    BY <1>8, <2>2, <2>3 DEF AssignAnswers, TypeOK, JobsOK
<1>9. ASSUME NEW n \in 1..MaxJobs, RedrawMessage(n)
      PROVE  TypeOK'
  <2>1. n \in DOMAIN jobs /\ jobs[n] \in Jobs
    BY <1>9, JobType DEF RedrawMessage, At
  <2>2. JobsOK'
    BY <1>9, <2>1, AdvanceMoves DEF RedrawMessage, Stages
  <2>3. message' \in [Standups -> [Users -> Prompt]]
    BY <1>9, <2>1, JobFields, PromptType DEF RedrawMessage, TypeOK
  <2>4. QED
    BY <1>9, <2>2, <2>3 DEF RedrawMessage, TypeOK, JobsOK
<1>10. CASE WorkerCrash
  <2>1. answers \in Sheets
    BY DEF TypeOK, Sheets
  <2>2. answers' \in Sheets
    BY <1>10, <2>1, WritingType, WrittenType DEF WorkerCrash
  <2>3. EmptySheet \in Sheets
    BY DEF EmptySheet, Sheets
  <2>4. unsaved' \in Sheets /\ writing' \in Seq(Sheets) /\ Len(writing') <= 1
    BY <1>10, <2>3 DEF WorkerCrash
  <2>5. answers' \in [Standups -> [Users -> Answers \union {NoAnswer}]]
    BY <2>2 DEF Sheets
  <2>6. QED
    BY <1>10, <2>4, <2>5, CrashDrops DEF WorkerCrash, TypeOK, JobsOK
<1>11. CASE WorkerRestart
  BY <1>11 DEF WorkerRestart, TypeOK
<1>12. CASE Tick
  BY <1>12, DataAssumption DEF Tick, TypeOK, Minutes
<1>13. ASSUME NEW s \in Standups, NEW n \in Durations, Created(s, n)
       PROVE  TypeOK'
  <2>1. StartMinute(s) + n \in Nat
    BY StandupFields, DataAssumption
  <2>2. QED
    BY <1>13, <2>1 DEF Created, TypeOK
<1>14. ASSUME NEW s \in Standups, NEW u \in Users, Greeted(s, u)
       PROVE  TypeOK'
  BY <1>14, PromptType DEF Greeted, TypeOK
<1>15. ASSUME NEW s \in Standups, NEW u \in Users, RowSaved(s, u)
       PROVE  TypeOK'
  BY <1>15 DEF RowSaved, TypeOK
<1>16. ASSUME NEW s \in Standups, NEW u \in Users, Linked(s, u)
       PROVE  TypeOK'
  <2>1. PICK c \in BOOLEAN : message' = [message EXCEPT ![s][u] = StandupMsg(c, TRUE)]
    BY <1>16 DEF Linked
  <2>2. message' \in [Standups -> [Users -> Prompt]]
    BY <2>1, PromptType DEF TypeOK
  <2>3. QED
    BY <1>16, <2>2 DEF Linked, TypeOK
<1>17. CASE UNCHANGED vars
  BY <1>17 DEF vars, TypeOK
<1>18. ASSUME writing' = <<unsaved>> \/ writing' = <<>>
       PROVE  writing' \in Seq(Sheets) /\ Len(writing') <= 1
  <2>1. unsaved \in Sheets
    BY DEF TypeOK
  <2>2. <<unsaved>> \in Seq(Sheets) /\ Len(<<unsaved>>) = 1
    BY <2>1
  <2>3. CASE writing' = <<unsaved>>
    BY <2>2, <2>3
  <2>4. CASE writing' = <<>>
    BY <2>4
  <2>5. QED
    BY <1>18, <2>3, <2>4
<1>19. ASSUME NEW n \in 1..MaxJobs, FlushStarts(n)
       PROVE  TypeOK'
  <2>1. n \in DOMAIN jobs /\ JobsOK'
    BY <1>19, AdvanceMoves DEF FlushStarts, At, Stages
  <2>2. QED
    BY <1>18, <1>19, <2>1 DEF FlushStarts, TypeOK, JobsOK
<1>20. CASE EventFlushStarts
  BY <1>18, <1>20 DEF EventFlushStarts, TypeOK
<1>21. CASE FlushEnds \/ FlushFails
  <2>1. answers \in Sheets /\ unsaved \in Sheets
    BY DEF TypeOK, Sheets
  <2>2. answers' \in Sheets /\ unsaved' \in Sheets
    <3>1. writing # <<>> /\ (FlushLands \/ UNCHANGED <<answers, unsaved>>)
      BY <1>21 DEF FlushEnds, FlushFails
    <3>2. QED
      BY <2>1, <3>1, FlushLandsType
  <2>3. answers' \in [Standups -> [Users -> Answers \union {NoAnswer}]]
    BY <2>2 DEF Sheets
  <2>4. JobsOK'
    BY <1>21, FlushMoves DEF FlushEnds, FlushFails, Stages
  <2>5. QED
    BY <1>18, <1>21, <2>2, <2>3, <2>4 DEF FlushEnds, FlushFails, TypeOK, JobsOK
<1>22. CASE Client
  BY <1>1, <1>2, <1>3, <1>22 DEF Client
<1>23. CASE Worker
  BY <1>5, <1>6, <1>7, <1>8, <1>9, <1>10, <1>11, <1>19, <1>20, <1>21, <1>23
     DEF Worker, Handle, Flush
<1>24. CASE Notifier
  BY <1>12, <1>13, <1>14, <1>15, <1>16, <1>24 DEF Notifier
<1>25. QED
  BY <1>17, <1>22, <1>23, <1>24 DEF Next

(* Queue, dialogs, tables and messages keep their types, whatever fails    *)
(* and however clients, handlers and notifier interleave.                  *)
THEOREM TypeCorrect == Spec => []TypeOK
<1>1. Init => TypeOK
  BY InitType
<1>2. TypeOK /\ [Next]_vars => TypeOK'
  BY TypeStep
<1>3. QED
  BY <1>1, <1>2, PTL DEF Spec

-----------------------------------------------------------------------------
(* The way of a job.                                                       *)

(* The stages a submission goes through; only a failure drops it.          *)
NextStage(stage, next) ==
  \/ stage = "queued" /\ next = "started"
  \/ stage = "started" /\ next \in {"refused", "loaded"}
  \/ stage = "loaded" /\ next = "assigned"
  \/ stage = "assigned" /\ next = "flushing"
  \/ stage = "flushing" /\ next = "stored"
  \/ stage = "stored" /\ next = "done"
  \/ stage \notin Over /\ next = "dropped" /\ WorkerFaults # {}

(* A handler's step is due: its job was not over, and it goes on as a      *)
(* submission does.                                                        *)
Goes(n, stage) ==
  /\ jobs[n].stage \notin Over
  /\ stage = "dropped" => WorkerFaults # {}
  /\ jobs[n].kind = "submit" =>
       /\ NextStage(jobs[n].stage, stage)
       /\ jobs[n].stage = "stored" /\ stage = "done" => RedrawMessage(n)

(* Jobs stay in the queue and keep what they say; one that is over stays   *)
(* over; only RedrawMessage ends one that is stored; a new one follows     *)
(* only jobs that were over.                                               *)
QueueGrows ==
  /\ \A n \in DOMAIN jobs :
       /\ n \in DOMAIN jobs'
       /\ jobs'[n] = jobs[n] \/ (Restaged(n, jobs'[n].stage) /\ Goes(n, jobs'[n].stage))
  /\ \A n \in DOMAIN jobs' \ DOMAIN jobs :
       /\ jobs'[n].stage = "queued"
       /\ \A m \in jobs'[n].after : m \in DOMAIN jobs /\ jobs[m].stage \in Over

(* Every step only lets the queue grow and its jobs go on.                 *)
LEMMA QueueGrowsStep == TypeOK /\ [Next]_vars => QueueGrows
<1> SUFFICES ASSUME TypeOK, [Next]_vars
             PROVE  QueueGrows
  OBVIOUS
<1>1. CASE UNCHANGED jobs
  BY <1>1 DEF QueueGrows
<1>2. ASSUME NEW kind \in {"open", "submit"}, NEW s \in Standups, NEW u \in Users,
             NEW a \in Answers \union {NoAnswer}, NEW born \in Minutes,
             Enqueue(kind, s, u, a, born)
      PROVE  QueueGrows
  <2>1. PICK k :
          /\ DOMAIN jobs' = DOMAIN jobs \union {k}
          /\ \A m \in DOMAIN jobs : jobs'[m] = jobs[m]
          /\ jobs'[k] = NewJob(kind, s, u, a, born)
    BY <1>2, EnqueueAdds
  <2>2. /\ jobs'[k].stage = "queued"
        /\ \A m \in jobs'[k].after : m \in DOMAIN jobs /\ jobs[m].stage \in Over
    BY <2>1 DEF NewJob
  <2>3. QED
    BY <2>1, <2>2 DEF QueueGrows
<1>3. ASSUME NEW s \in Standups, NEW u \in Users, Press(s, u)
      PROVE  QueueGrows
  <2>1. 0 \in Minutes
    BY DataAssumption DEF Minutes
  <2>2. QED
    BY <1>2, <1>3, <2>1 DEF Press
<1>4. ASSUME NEW u \in Users, NEW a \in Answers, Submit(u, a)
      PROVE  QueueGrows
  BY <1>2, <1>4, OfferedDialog DEF Submit
<1>5. ASSUME NEW n \in DOMAIN jobs, NEW stage \in Stages, Moved(n, stage), Goes(n, stage)
      PROVE  QueueGrows
  <2>1. jobs'[n].stage = stage /\ Restaged(n, stage)
    BY <1>5 DEF Moved, Restaged
  <2>2. QED
    BY <1>5, <2>1 DEF Moved, QueueGrows
<1>6. ASSUME NEW n \in 1..MaxJobs, Take(n) \/ Handle(n), ~BuildDialog(n)
      PROVE  QueueGrows
  <2>1. n \in DOMAIN jobs
    BY <1>6 DEF Take, Handle, Refuse, DialogOpened, DialogFails, LoadSubmission,
       AssignAnswers, FlushStarts, RedrawMessage, RedrawFails, At
  <2>2. PICK stage \in Stages : Advance(n, stage) /\ Goes(n, stage)
    BY <1>6 DEF Take, Handle, Refuse, DialogOpened, DialogFails, LoadSubmission,
       AssignAnswers, FlushStarts, RedrawMessage, RedrawFails, At, Stages, Goes,
       NextStage, Over
  <2>3. QED
    BY <1>5, <2>1, <2>2, AdvanceMoves
<1>7. ASSUME NEW n \in 1..MaxJobs, BuildDialog(n)
      PROVE  QueueGrows
  <2>1. /\ n \in DOMAIN jobs /\ Moved(n, "loaded")
        /\ jobs[n].kind = "open" /\ jobs[n].stage = "started"
    BY <1>7, BuildDialogMoves
  <2>2. QED
    BY <1>5, <2>1 DEF Stages, Over, Goes
<1>8. ASSUME DOMAIN jobs' = DOMAIN jobs, NEW stage \in Stages,
             \A n \in DOMAIN jobs :
               jobs'[n] = jobs[n] \/ (Restaged(n, stage) /\ Goes(n, stage))
      PROVE  QueueGrows
  <2>1. \A n \in DOMAIN jobs : Restaged(n, stage) => jobs'[n].stage = stage
    BY DEF Restaged
  <2>2. QED
    BY <1>8, <2>1 DEF QueueGrows
<1>9. CASE WorkerCrash
  <2>1. DOMAIN jobs' = DOMAIN jobs /\ WorkerFaults # {}
    BY <1>9, CrashDrops DEF WorkerCrash
  <2>2. ASSUME NEW n \in DOMAIN jobs
        PROVE  jobs'[n] = jobs[n] \/ (Restaged(n, "dropped") /\ Goes(n, "dropped"))
    <3>1. jobs'[n] = jobs[n] \/ (Restaged(n, "dropped") /\ jobs[n].stage \notin Over)
      BY <1>9, CrashDrops DEF WorkerCrash
    <3>2. QED
      BY <2>1, <3>1 DEF Goes, NextStage
  <2>3. QED
    BY <1>8, <2>1, <2>2 DEF Stages
<1>10. ASSUME NEW stage \in {"stored", "dropped"}, AdvanceFlushing(stage),
              stage = "dropped" => WorkerFaults # {}
       PROVE  QueueGrows
  <2>1. /\ DOMAIN jobs' = DOMAIN jobs /\ stage \in Stages
        /\ \A n \in DOMAIN jobs :
             /\ jobs[n].stage = "flushing" => Restaged(n, stage)
             /\ jobs[n].stage # "flushing" => jobs'[n] = jobs[n]
    BY <1>10, FlushMoves DEF Stages
  <2>2. \A n \in DOMAIN jobs : jobs[n].stage = "flushing" => Goes(n, stage)
    BY <1>10 DEF Goes, NextStage, Over
  <2>3. QED
    BY <1>8, <2>1, <2>2
<1>11. CASE FlushEnds \/ FlushFails
  BY <1>10, <1>11 DEF FlushEnds, FlushFails
<1>12. CASE Client
  BY <1>1, <1>3, <1>4, <1>12 DEF Client, SubmitLost, Cancel
<1>13. CASE Worker
  BY <1>1, <1>6, <1>7, <1>9, <1>11, <1>13
     DEF Worker, Flush, EventFlushStarts, WorkerRestart
<1>14. CASE Notifier \/ UNCHANGED vars
  BY <1>1, <1>14 DEF Notifier, Tick, Created, Greeted, RowSaved, Linked, vars
<1>15. QED
  BY <1>12, <1>13, <1>14 DEF Next

(* A submission of the queue stays one, and goes on as submissions do.     *)
LEMMA SubmissionGoesOn ==
  ASSUME QueueGrows, NEW n \in DOMAIN jobs, jobs[n].kind = "submit"
  PROVE  /\ n \in DOMAIN jobs' /\ jobs'[n].kind = "submit"
         /\ jobs'[n].standup = jobs[n].standup /\ jobs'[n].user = jobs[n].user
         /\ jobs'[n].answer = jobs[n].answer /\ jobs'[n].born = jobs[n].born
         /\ jobs'[n].early = jobs[n].early /\ jobs'[n].after = jobs[n].after
         /\ \/ jobs'[n].stage = jobs[n].stage
            \/ /\ NextStage(jobs[n].stage, jobs'[n].stage)
               /\ jobs[n].stage = "stored" /\ jobs'[n].stage = "done" => RedrawMessage(n)
BY DEF QueueGrows, Restaged, Goes

-----------------------------------------------------------------------------
(* What is in the tables stays there.                                      *)

(* Rows are of standups in the database, whose ends are settled; neither   *)
(* rows nor answers are taken back.                                        *)
StoreStays ==
  /\ created \subseteq created'
  /\ \A s \in created : endAt'[s] = endAt[s]
  /\ \A s \in Standups : rows[s] \subseteq rows'[s]
  /\ \A s \in Standups, u \in Users :
       answers[s][u] # NoAnswer => answers'[s][u] # NoAnswer

(* No step of handlers, clients or notifier takes anything from the        *)
(* tables.                                                                 *)
LEMMA StoreStaysStep == TypeOK /\ [Next]_vars => StoreStays
<1> SUFFICES ASSUME TypeOK, [Next]_vars
             PROVE  StoreStays
  OBVIOUS
<1>1. CASE UNCHANGED <<created, endAt, rows, answers>>
  BY <1>1 DEF StoreStays
<1>2. ASSUME UNCHANGED <<created, endAt, rows>>,
             answers' = Written(answers, writing[1]) \/ answers' = answers
      PROVE  StoreStays
  <2>1. \A s \in Standups, u \in Users :
          answers[s][u] # NoAnswer => answers'[s][u] # NoAnswer
    BY <1>2, WrittenCell
  <2>2. QED
    BY <1>2, <2>1 DEF StoreStays
<1>3. ASSUME NEW s \in Standups, NEW n \in Durations, Created(s, n)
      PROVE  StoreStays
  BY <1>3 DEF Created, StoreStays, TypeOK
<1>4. ASSUME NEW s \in Standups, NEW u \in Users, RowSaved(s, u)
      PROVE  StoreStays
  BY <1>4 DEF RowSaved, StoreStays, TypeOK
<1>5. CASE Client \/ UNCHANGED vars
  BY <1>1, <1>5 DEF Client, Press, Submit, SubmitLost, Cancel, shared, vars
<1>6. CASE Worker
  <2>1. ASSUME NEW n \in 1..MaxJobs, Take(n) \/ Handle(n)
        PROVE  UNCHANGED <<created, endAt, rows, answers>>
    <3>1. CASE Take(n) \/ Refuse(n) \/ LoadSubmission(n)
      BY <3>1 DEF Take, Refuse, LoadSubmission, shared
    <3>2. CASE BuildDialog(n)
      BY <3>2 DEF BuildDialog, shared
    <3>3. CASE DialogOpened(n) \/ DialogFails(n)
      BY <3>3 DEF DialogOpened, DialogFails, shared
    <3>4. CASE AssignAnswers(n) \/ FlushStarts(n) \/ RedrawMessage(n) \/ RedrawFails(n)
      BY <3>4 DEF AssignAnswers, FlushStarts, RedrawMessage, RedrawFails, shared
    <3>5. QED
      BY <2>1, <3>1, <3>2, <3>3, <3>4 DEF Handle
  <2>2. ASSUME EventFlushStarts \/ WorkerRestart
        PROVE  UNCHANGED <<created, endAt, rows, answers>>
    BY <2>2 DEF EventFlushStarts, WorkerRestart, shared
  <2>3. ASSUME FlushEnds \/ FlushFails \/ WorkerCrash
        PROVE  /\ UNCHANGED <<created, endAt, rows>>
               /\ answers' = Written(answers, writing[1]) \/ answers' = answers
    BY <2>3 DEF FlushEnds, FlushFails, FlushLands, WorkerCrash
  <2>4. QED
    BY <1>1, <1>2, <1>6, <2>1, <2>2, <2>3 DEF Worker, Flush
<1>7. CASE Notifier
  BY <1>1, <1>3, <1>4, <1>7 DEF Notifier, Tick, Greeted, Linked
<1>8. QED
  BY <1>5, <1>6, <1>7 DEF Next

(* The initial state has neither messages nor rows.                        *)
LEMMA InitPromptsOfCreated == Init => PromptsOfCreated
BY DEF Init, PromptsOfCreated, NoPrompt

(* A message is first drawn by a greeting, a row saved after one.          *)
LEMMA PromptsOfCreatedStep ==
  TypeOK /\ PromptsOfCreated /\ JobsBacked /\ [Next]_vars => PromptsOfCreated'
<1> SUFFICES ASSUME TypeOK, PromptsOfCreated, JobsBacked, [Next]_vars
             PROVE  PromptsOfCreated'
  OBVIOUS
<1>1. CASE UNCHANGED <<rows, message>> /\ created \subseteq created'
  BY <1>1 DEF PromptsOfCreated
<1>2. ASSUME NEW n \in 1..MaxJobs, RedrawMessage(n)
      PROVE  PromptsOfCreated'
  <2>1. /\ n \in DOMAIN jobs /\ jobs[n] \in Jobs /\ jobs[n].kind = "submit"
        /\ jobs[n].user \in rows[jobs[n].standup]
    BY <1>2, JobType DEF RedrawMessage, At, JobsBacked, JobBacked
  <2>2. jobs[n].standup \in Standups /\ jobs[n].user \in Users
    BY <2>1, JobFields
  <2>3. jobs[n].standup \in created
    BY <2>1, <2>2 DEF PromptsOfCreated
  <2>4. /\ message' = [message EXCEPT ![jobs[n].standup][jobs[n].user] =
                         StandupMsg(TRUE, FALSE)]
        /\ UNCHANGED <<created, rows>>
    BY <1>2 DEF RedrawMessage
  <2>5. QED
    BY <2>2, <2>3, <2>4 DEF PromptsOfCreated, TypeOK
<1>3. ASSUME NEW s \in Standups, NEW u \in Users, Greeted(s, u) \/ Linked(s, u)
      PROVE  PromptsOfCreated'
  <2>1. s \in created /\ UNCHANGED <<created, rows>>
    BY <1>3 DEF Greeted, Linked
  <2>2. \A r \in Standups \ {s} : message'[r] = message[r]
    BY <1>3 DEF Greeted, Linked, TypeOK
  <2>3. QED
    BY <2>1, <2>2 DEF PromptsOfCreated
<1>4. ASSUME NEW s \in Standups, NEW u \in Users, RowSaved(s, u)
      PROVE  PromptsOfCreated'
  BY <1>4 DEF RowSaved, PromptsOfCreated, TypeOK
<1>5. CASE Client \/ UNCHANGED vars
  BY <1>1, <1>5 DEF Client, Press, Submit, SubmitLost, Cancel, shared, vars
<1>6. CASE Worker
  BY <1>1, <1>2, <1>6 DEF Worker, Take, Handle, Refuse, BuildDialog, DialogOpened,
        DialogFails, LoadSubmission, AssignAnswers, FlushStarts, RedrawFails, Flush,
        EventFlushStarts, FlushEnds, FlushFails, WorkerCrash, WorkerRestart, shared
<1>7. CASE Notifier
  BY <1>1, <1>3, <1>4, <1>7 DEF Notifier, Tick, Created
<1>8. QED
  BY <1>5, <1>6, <1>7 DEF Next

-----------------------------------------------------------------------------
(* What a hand-over passes on.                                             *)

(* A dialog stays backed while nobody opens another.                       *)
LEMMA DialogKept ==
  ASSUME TypeOK, PromptsOfCreated, DialogsBacked, StoreStays, NEW u \in Users,
         dialog'[u] = dialog[u] \/ dialog'[u] = NoDialog
  PROVE  dialog'[u] # NoDialog =>
           /\ u \in rows'[dialog'[u].standup]
           /\ dialog'[u].offer => dialog'[u].born <= endAt'[dialog'[u].standup]
<1> SUFFICES ASSUME dialog'[u] # NoDialog, dialog'[u] = dialog[u]
             PROVE  /\ u \in rows'[dialog[u].standup]
                    /\ dialog[u].offer => dialog[u].born <= endAt'[dialog[u].standup]
  OBVIOUS
<1>1. /\ u \in rows[dialog[u].standup]
      /\ dialog[u].offer => dialog[u].born <= endAt[dialog[u].standup]
  BY DEF DialogsBacked
<1>2. dialog[u].standup \in Standups
  BY OfferedDialog
<1>3. dialog[u].standup \in created
  BY <1>1, <1>2 DEF PromptsOfCreated
<1>4. QED
  BY <1>1, <1>2, <1>3 DEF StoreStays

(* The initial state shows no dialog.                                      *)
LEMMA InitDialogsBacked == Init => DialogsBacked
BY DEF Init, DialogsBacked

(* The dialog that opens is the one its handler had built.                 *)
LEMMA DialogsBackedStep ==
  TypeOK /\ PromptsOfCreated /\ DialogsBacked /\ JobsBacked /\ [Next]_vars
    => DialogsBacked'
<1> SUFFICES ASSUME TypeOK, PromptsOfCreated, DialogsBacked, JobsBacked, [Next]_vars
             PROVE  DialogsBacked'
  OBVIOUS
<1>1. StoreStays
  BY StoreStaysStep
<1>2. ASSUME \A u \in Users : dialog'[u] = dialog[u] \/ dialog'[u] = NoDialog
      PROVE  DialogsBacked'
  BY <1>1, <1>2, DialogKept DEF DialogsBacked
<1>3. ASSUME NEW n \in 1..MaxJobs, DialogOpened(n)
      PROVE  DialogsBacked'
  <2> DEFINE s == jobs[n].standup
             w == jobs[n].user
  <2>1. /\ n \in DOMAIN jobs /\ jobs[n] \in Jobs
        /\ w \in rows[s]
        /\ jobs[n].offer => jobs[n].born <= endAt[s]
    BY <1>3, JobType DEF DialogOpened, At, JobsBacked, JobBacked
  <2>2. s \in Standups /\ w \in Users
    BY <2>1, JobFields
  <2>3. s \in created
    BY <2>1, <2>2 DEF PromptsOfCreated
  <2>4. w \in rows'[s] /\ endAt'[s] = endAt[s]
    BY <1>1, <2>1, <2>2, <2>3 DEF StoreStays
  <2>5. dialog'[w] = [standup |-> s, offer |-> jobs[n].offer, born |-> jobs[n].born]
    BY <1>3, <2>2 DEF DialogOpened, TypeOK
  <2>6. \A u \in Users \ {w} : dialog'[u] = dialog[u]
    BY <1>3 DEF DialogOpened, TypeOK
  <2>7. \A u \in Users :
          dialog'[u] # NoDialog =>
            /\ u \in rows'[dialog'[u].standup]
            /\ dialog'[u].offer => dialog'[u].born <= endAt'[dialog'[u].standup]
    <3> SUFFICES ASSUME NEW u \in Users
                 PROVE  dialog'[u] # NoDialog =>
                          /\ u \in rows'[dialog'[u].standup]
                          /\ dialog'[u].offer =>
                               dialog'[u].born <= endAt'[dialog'[u].standup]
      OBVIOUS
    <3>1. CASE u = w
      BY <2>1, <2>4, <2>5, <3>1
    <3>2. CASE u # w
      BY <1>1, <2>6, <3>2, DialogKept
    <3>3. QED
      BY <3>1, <3>2
  <2>8. QED
    BY <2>7 DEF DialogsBacked
<1>4. CASE UNCHANGED dialog
  BY <1>2, <1>4
<1>5. CASE Client
  BY <1>2, <1>4, <1>5 DEF Client, Press, Submit, SubmitLost, Cancel, TypeOK
<1>6. CASE Worker
  BY <1>3, <1>4, <1>6 DEF Worker, Take, Handle, Refuse, BuildDialog, DialogFails,
        LoadSubmission, AssignAnswers, FlushStarts, RedrawMessage, RedrawFails, Flush,
        EventFlushStarts, FlushEnds, FlushFails, WorkerCrash, WorkerRestart
<1>7. CASE Notifier \/ UNCHANGED vars
  BY <1>4, <1>7 DEF Notifier, Tick, Created, Greeted, RowSaved, Linked, vars
<1>8. QED
  BY <1>5, <1>6, <1>7 DEF Next

(* What a submission has assigned waits, is being written or is stored.    *)
Kept(j) ==
  /\ j.stage = "assigned" =>
       unsaved[j.standup][j.user] # NoAnswer \/ answers[j.standup][j.user] # NoAnswer
  /\ j.stage = "flushing" =>
       writing[1][j.standup][j.user] # NoAnswer \/ answers[j.standup][j.user] # NoAnswer

(* A job whose handler does not go on stays backed.                        *)
LEMMA JobKept ==
  ASSUME TypeOK, PromptsOfCreated, StoreStays, NEW m \in DOMAIN jobs,
         JobBacked(jobs[m]), jobs'[m] = jobs[m],
         UNCHANGED memory \/ (jobs[m].kind = "submit" => Kept(jobs[m])')
  PROVE  JobBacked(jobs[m])'
<1>1. jobs[m] \in Jobs /\ jobs[m].standup \in Standups /\ jobs[m].user \in Users
  BY JobType, JobFields
<1>2. rows[jobs[m].standup] \subseteq rows'[jobs[m].standup]
  BY <1>1 DEF StoreStays
<1>3. jobs[m].user \in rows[jobs[m].standup] =>
        endAt'[jobs[m].standup] = endAt[jobs[m].standup]
  BY <1>1 DEF PromptsOfCreated, StoreStays
<1>4. answers[jobs[m].standup][jobs[m].user] # NoAnswer =>
        answers'[jobs[m].standup][jobs[m].user] # NoAnswer
  BY <1>1 DEF StoreStays
<1>5. JobBacked(jobs[m]) /\ jobs[m].kind = "submit" => Kept(jobs[m])
  BY DEF JobBacked, Kept
<1>6. jobs[m].kind = "submit" => Kept(jobs[m])'
  BY <1>4, <1>5 DEF Kept, memory
<1>7. QED
  BY <1>2, <1>3, <1>4, <1>6 DEF JobBacked, Kept

(* A job that moves on stays backed if the stage it reaches says so.       *)
LEMMA JobMovedOn ==
  ASSUME TypeOK, PromptsOfCreated, StoreStays, NEW m \in DOMAIN jobs,
         JobBacked(jobs[m]), NEW stage \in Stages, Restaged(m, stage),
         stage = "refused" => jobs[m].kind = "open" /\ jobs[m].early,
         stage = "loaded" /\ jobs[m].kind = "open" =>
           /\ jobs[m].user \in rows[jobs[m].standup]
           /\ jobs'[m].offer => jobs'[m].born <= endAt[jobs[m].standup],
         jobs[m].kind = "submit" /\ stage = "stored" =>
           answers'[jobs[m].standup][jobs[m].user] # NoAnswer,
         jobs[m].kind = "submit" /\ stage \in {"assigned", "flushing"} =>
           Kept(jobs[m])',
         stage = "done" => jobs[m].kind = "open" \/ jobs[m].stage = "stored"
  PROVE  JobBacked(jobs[m])'
<1>1. jobs[m] \in Jobs /\ jobs[m].standup \in Standups /\ jobs[m].user \in Users
      /\ jobs[m].kind \in {"open", "submit"}
  BY JobType, JobFields
<1>2. rows[jobs[m].standup] \subseteq rows'[jobs[m].standup]
  BY <1>1 DEF StoreStays
<1>3. jobs[m].user \in rows[jobs[m].standup] =>
        endAt'[jobs[m].standup] = endAt[jobs[m].standup]
  BY <1>1 DEF PromptsOfCreated, StoreStays
<1>4. answers[jobs[m].standup][jobs[m].user] # NoAnswer =>
        answers'[jobs[m].standup][jobs[m].user] # NoAnswer
  BY <1>1 DEF StoreStays
<1>5. /\ jobs'[m].standup = jobs[m].standup /\ jobs'[m].user = jobs[m].user
      /\ jobs'[m].kind = jobs[m].kind /\ jobs'[m].stage = stage
      /\ jobs'[m].answer = jobs[m].answer /\ jobs'[m].early = jobs[m].early
      /\ jobs[m].kind = "submit" => jobs'[m].born = jobs[m].born
  BY DEF Restaged
<1>6. CASE jobs[m].kind = "open"
  BY <1>1, <1>2, <1>3, <1>5, <1>6 DEF JobBacked
<1>7. CASE jobs[m].kind = "submit"
  BY <1>1, <1>2, <1>3, <1>4, <1>5, <1>7 DEF JobBacked, Kept
<1>8. QED
  BY <1>1, <1>6, <1>7

(* The initial state has no jobs.                                          *)
LEMMA InitJobsBacked == Init => JobsBacked
BY DEF Init, JobsBacked

(* Every step keeps JobsBacked, although rows, ends and answers are read   *)
(* one or more steps before they are relied on.                            *)
LEMMA JobsBackedStep ==
  TypeOK /\ PromptsOfCreated /\ DialogsBacked /\ JobsBacked /\ UnsavedBacked
    /\ [Next]_vars => JobsBacked'
<1> SUFFICES ASSUME TypeOK, PromptsOfCreated, DialogsBacked, JobsBacked, UnsavedBacked,
                    [Next]_vars
             PROVE  JobsBacked'
  OBVIOUS
<1>1. StoreStays
  BY StoreStaysStep
<1>2. ASSUME NEW n \in DOMAIN jobs, NEW stage \in Stages, Moved(n, stage),
             JobBacked(jobs[n])',
             \/ UNCHANGED memory
             \/ \A m \in DOMAIN jobs \ {n} : jobs[m].kind = "submit" => Kept(jobs[m])'
      PROVE  JobsBacked'
  <2>1. ASSUME NEW m \in DOMAIN jobs \ {n}
        PROVE  JobBacked(jobs[m])'
    BY <1>1, <1>2, <2>1, JobKept DEF Moved, JobsBacked
  <2>2. DOMAIN jobs' = DOMAIN jobs
    BY <1>2 DEF Moved
  <2>3. QED
    BY <1>2, <2>1, <2>2 DEF JobsBacked
<1>3. CASE UNCHANGED <<jobs, memory>>
  BY <1>1, <1>3, JobKept DEF JobsBacked
<1>4. ASSUME NEW kind \in {"open", "submit"}, NEW s \in Standups, NEW u \in Users,
             NEW a \in Answers \union {NoAnswer}, NEW born \in Minutes,
             Enqueue(kind, s, u, a, born), rows' = rows, endAt' = endAt,
             UNCHANGED memory,
             kind = "submit" => /\ a # NoAnswer /\ u \in rows[s]
                                /\ born <= endAt[s]
      PROVE  JobsBacked'
  <2>1. PICK k :
          /\ DOMAIN jobs' = DOMAIN jobs \union {k}
          /\ \A m \in DOMAIN jobs : jobs'[m] = jobs[m]
          /\ jobs'[k] = NewJob(kind, s, u, a, born)
    BY <1>4, EnqueueAdds
  <2>2. JobBacked(jobs[k])'
    <3>1. /\ jobs'[k].kind = kind /\ jobs'[k].standup = s /\ jobs'[k].user = u
          /\ jobs'[k].answer = a /\ jobs'[k].born = born
          /\ jobs'[k].stage = "queued" /\ jobs'[k].early = (u \notin rows[s])
      BY <2>1 DEF NewJob
    <3>2. ~jobs'[k].early <=> u \in rows[s]
      BY <3>1
    <3>3. QED
      BY <1>4, <3>1, <3>2 DEF JobBacked
  <2>3. \A m \in DOMAIN jobs : JobBacked(jobs[m])'
    BY <1>1, <1>4, <2>1, JobKept DEF JobsBacked
  <2>4. QED
    BY <2>1, <2>2, <2>3 DEF JobsBacked
<1>5. ASSUME NEW s \in Standups, NEW u \in Users, Press(s, u)
      PROVE  JobsBacked'
  <2>1. 0 \in Minutes
    BY DataAssumption DEF Minutes
  <2>2. QED
    BY <1>4, <1>5, <2>1 DEF Press, shared
<1>6. ASSUME NEW u \in Users, NEW a \in Answers, Submit(u, a)
      PROVE  JobsBacked'
  <2>1. /\ dialog[u] # NoDialog /\ dialog[u].offer
        /\ dialog[u].standup \in Standups /\ dialog[u].born \in Minutes
    BY <1>6, OfferedDialog DEF Submit
  <2>2. u \in rows[dialog[u].standup] /\ dialog[u].born <= endAt[dialog[u].standup]
    BY <2>1 DEF DialogsBacked
  <2>3. a # NoAnswer
    BY DataAssumption
  <2>4. QED
    BY <1>4, <1>6, <2>1, <2>2, <2>3 DEF Submit, shared
<1>7. ASSUME NEW n \in DOMAIN jobs, NEW stage \in Stages, Advance(n, stage),
             UNCHANGED memory,
             stage = "refused" => ~HasRow(n),
             stage = "loaded" => jobs[n].kind = "submit",
             stage \notin {"assigned", "flushing", "stored"},
             stage = "done" => jobs[n].kind = "open" \/ jobs[n].stage = "stored"
      PROVE  JobsBacked'
  <2>1. Moved(n, stage)
    BY <1>7, AdvanceMoves
  <2>2. JobBacked(jobs[n]) /\ jobs[n].kind \in {"open", "submit"} /\ jobs[n].early \in BOOLEAN
    BY JobType, JobFields DEF JobsBacked
  <2>3. stage = "refused" => jobs[n].kind = "open" /\ jobs[n].early
    BY <1>7, <2>2 DEF HasRow, JobBacked
  <2>4. JobBacked(jobs[n])'
    BY <1>1, <1>7, <2>1, <2>2, <2>3, JobMovedOn DEF Moved
  <2>5. QED
    BY <1>2, <1>7, <2>1, <2>4
<1>8. ASSUME NEW n \in 1..MaxJobs,
             \/ Take(n) \/ Refuse(n) \/ DialogOpened(n) \/ DialogFails(n)
             \/ LoadSubmission(n) \/ RedrawMessage(n) \/ RedrawFails(n)
      PROVE  JobsBacked'
  BY <1>7, <1>8 DEF Take, Refuse, DialogOpened, DialogFails, LoadSubmission,
        RedrawMessage, RedrawFails, At, Stages
<1>9. ASSUME NEW n \in 1..MaxJobs, AssignAnswers(n) \/ FlushStarts(n)
      PROVE  JobsBacked'
  <2>1. /\ n \in DOMAIN jobs /\ jobs[n] \in Jobs /\ jobs[n].kind = "submit"
        /\ JobBacked(jobs[n])
        /\ jobs[n].standup \in Standups /\ jobs[n].user \in Users
    BY <1>9, JobType, JobFields DEF AssignAnswers, FlushStarts, At, JobsBacked
  <2>2. UNCHANGED answers
    BY <1>9 DEF AssignAnswers, FlushStarts, shared
  <2>3. ASSUME NEW m \in DOMAIN jobs, jobs[m].kind = "submit", jobs'[m] = jobs[m]
        PROVE  Kept(jobs[m])'
    <3>1. Kept(jobs[m]) /\ jobs[m].standup \in Standups /\ jobs[m].user \in Users
      BY <2>3, JobType, JobFields DEF JobsBacked, JobBacked, Kept
    <3>2. CASE AssignAnswers(n)
      <4>1. unsaved[jobs[m].standup][jobs[m].user] # NoAnswer =>
              unsaved'[jobs[m].standup][jobs[m].user] # NoAnswer
        BY <2>1, <3>1, <3>2 DEF AssignAnswers, JobBacked, TypeOK, Sheets
      <4>2. QED
        BY <2>2, <2>3, <3>1, <3>2, <4>1 DEF AssignAnswers, Kept
    <3>3. CASE FlushStarts(n)
      <4>1. jobs[m].stage # "flushing" /\ UNCHANGED unsaved
        BY <3>3 DEF FlushStarts, UnsavedBacked
      <4>2. QED
        BY <2>2, <2>3, <3>1, <4>1 DEF Kept
    <3>4. QED
      BY <1>9, <3>2, <3>3
  <2>4. CASE AssignAnswers(n)
    <3>1. Moved(n, "assigned")
      BY <2>1, <2>4, AdvanceMoves DEF AssignAnswers, Stages
    <3>2. unsaved'[jobs[n].standup][jobs[n].user] # NoAnswer
      BY <2>1, <2>4 DEF AssignAnswers, JobBacked, TypeOK, Sheets
    <3>3. Kept(jobs[n])'
      BY <3>1, <3>2 DEF Kept, Moved, Restaged
    <3>4. JobBacked(jobs[n])'
      BY <1>1, <2>1, <3>1, <3>3, JobMovedOn DEF Moved, Stages
    <3>5. QED
      BY <1>2, <2>1, <2>3, <3>1, <3>4 DEF Moved, Stages
  <2>5. CASE FlushStarts(n)
    <3>1. Moved(n, "flushing")
      BY <2>1, <2>5, AdvanceMoves DEF FlushStarts, Stages
    <3>2. \/ unsaved[jobs[n].standup][jobs[n].user] # NoAnswer
          \/ answers[jobs[n].standup][jobs[n].user] # NoAnswer
      BY <2>1, <2>5 DEF FlushStarts, At, JobBacked
    <3>3. writing'[1] = unsaved
      BY <2>5 DEF FlushStarts
    <3>4. Kept(jobs[n])'
      BY <2>2, <3>1, <3>2, <3>3 DEF Kept, Moved, Restaged
    <3>5. JobBacked(jobs[n])'
      BY <1>1, <2>1, <3>1, <3>4, JobMovedOn DEF Moved, Stages
    <3>6. QED
      BY <1>2, <2>1, <2>3, <3>1, <3>5 DEF Moved, Stages
  <2>6. QED
    BY <1>9, <2>4, <2>5
<1>10. ASSUME NEW n \in 1..MaxJobs, BuildDialog(n)
       PROVE  JobsBacked'
  <2>1. /\ n \in DOMAIN jobs /\ Moved(n, "loaded") /\ jobs[n].kind = "open"
        /\ jobs'[n].offer \in Offers(jobs[n].standup) /\ jobs'[n].born = now
    BY <1>10, BuildDialogMoves
  <2>2. jobs[n].user \in rows[jobs[n].standup]
    BY <1>10 DEF BuildDialog, HasRow
  <2>3. jobs[n].standup \in Standups
    BY <2>1, JobType, JobFields
  <2>4. jobs'[n].offer => jobs'[n].born <= endAt[jobs[n].standup]
    BY <2>1, <2>3 DEF Offers, TypeOK, Minutes
  <2>5. JobBacked(jobs[n])'
    BY <1>1, <2>1, <2>2, <2>4, JobMovedOn DEF Moved, JobsBacked, Stages
  <2>6. UNCHANGED memory
    BY <1>10 DEF BuildDialog
  <2>7. QED
    BY <1>2, <2>1, <2>5, <2>6 DEF Stages
<1>11. CASE WorkerCrash
  <2>1. DOMAIN jobs' = DOMAIN jobs
    BY <1>11, CrashDrops
  <2>2. ASSUME NEW m \in DOMAIN jobs
        PROVE  JobBacked(jobs[m])'
    <3>1. jobs'[m] = jobs[m] \/ Restaged(m, "dropped")
      BY <1>11, CrashDrops
    <3>2. CASE Restaged(m, "dropped")
      BY <1>1, <3>2, JobMovedOn DEF JobsBacked, Stages
    <3>3. CASE jobs'[m] = jobs[m] /\ jobs[m].stage \notin {"assigned", "flushing"}
      BY <1>1, <3>3, JobKept DEF JobsBacked, Kept
    <3>4. jobs[m].stage \in {"assigned", "flushing"} => Restaged(m, "dropped")
      BY <1>11, <3>1, JobType DEF WorkerCrash, Over, Jobs, Restaged
    <3>5. QED
      BY <3>1, <3>2, <3>3, <3>4
  <2>3. QED
    BY <2>1, <2>2 DEF JobsBacked
<1>12. CASE EventFlushStarts
  <2>1. UNCHANGED <<jobs, unsaved, answers>>
    BY <1>12 DEF EventFlushStarts, shared
  <2>2. ASSUME NEW m \in DOMAIN jobs
        PROVE  JobBacked(jobs[m])'
    <3>1. jobs[m].stage # "flushing"
      BY <1>12 DEF EventFlushStarts, UnsavedBacked
    <3>2. jobs[m].kind = "submit" => Kept(jobs[m])'
      BY <2>1, <3>1 DEF JobsBacked, JobBacked, Kept
    <3>3. QED
      BY <1>1, <2>1, <3>2, JobKept DEF JobsBacked
  <2>3. QED
    BY <2>1, <2>2 DEF JobsBacked
<1>13. ASSUME NEW stage \in {"stored", "dropped"}, AdvanceFlushing(stage), writing # <<>>,
              FlushLands \/ (stage = "dropped" /\ UNCHANGED <<answers, unsaved>>)
       PROVE  JobsBacked'
  <2>1. DOMAIN jobs' = DOMAIN jobs
    BY <1>13, FlushMoves DEF Stages
  <2>2. ASSUME NEW m \in DOMAIN jobs
        PROVE  JobBacked(jobs[m])'
    <3>1. /\ jobs[m].stage = "flushing" => Restaged(m, stage)
          /\ jobs[m].stage # "flushing" => jobs'[m] = jobs[m]
      BY <1>13, FlushMoves DEF Stages
    <3>2. /\ jobs[m].standup \in Standups /\ jobs[m].user \in Users
          /\ JobBacked(jobs[m])
      BY JobType, JobFields DEF JobsBacked
    <3>3. CASE jobs[m].stage = "flushing"
      <4>1. jobs[m].kind = "submit" /\ stage = "stored" =>
              answers'[jobs[m].standup][jobs[m].user] # NoAnswer
        BY <1>13, <3>2, <3>3, FlushLandsCell DEF JobBacked
      <4>2. QED
        BY <1>1, <3>1, <3>2, <3>3, <4>1, JobMovedOn DEF Stages
    <3>4. CASE jobs[m].stage # "flushing"
      <4>1. jobs[m].kind = "submit" /\ jobs[m].stage = "assigned" =>
              \/ unsaved'[jobs[m].standup][jobs[m].user] # NoAnswer
              \/ answers'[jobs[m].standup][jobs[m].user] # NoAnswer
        BY <1>13, <3>2, FlushLandsCell DEF JobBacked
      <4>2. jobs[m].kind = "submit" => Kept(jobs[m])'
        BY <3>1, <3>4, <4>1 DEF Kept
      <4>3. QED
        BY <1>1, <3>1, <3>2, <3>4, <4>2, JobKept
    <3>5. QED
      BY <3>3, <3>4
  <2>3. QED
    BY <2>1, <2>2 DEF JobsBacked
<1>14. CASE FlushEnds \/ FlushFails
  BY <1>13, <1>14 DEF FlushEnds, FlushFails
<1>15. CASE Client
  BY <1>3, <1>5, <1>6, <1>15 DEF Client, SubmitLost, Cancel
<1>16. CASE Worker
  BY <1>3, <1>8, <1>9, <1>10, <1>11, <1>12, <1>14, <1>16 DEF Worker, Handle, Flush,
     WorkerRestart
<1>17. CASE Notifier \/ UNCHANGED vars
  BY <1>3, <1>17 DEF Notifier, Tick, Created, Greeted, RowSaved, Linked, vars, memory
<1>18. QED
  BY <1>15, <1>16, <1>17 DEF Next

(* The stages of the submissions whose answers may be unsaved.             *)
Unconfirmed == {"assigned", "flushing", "dropped"}

(* A submission stays the submission it is; a stage it can reach is one    *)
(* it is looked for in.                                                    *)
LEMMA SubmittedStays ==
  ASSUME TypeOK, PromptsOfCreated, JobsBacked, StoreStays, QueueGrows,
         NEW s \in Standups, NEW u \in Users, NEW a, NEW S, NEW T,
         Submitted(s, u, a, S),
         \A n \in DOMAIN jobs :
           jobs[n].kind = "submit" /\ jobs[n].stage \in S => jobs'[n].stage \in T
  PROVE  Submitted(s, u, a, T)'
<1>1. PICK n \in DOMAIN jobs :
        /\ jobs[n].kind = "submit" /\ jobs[n].stage \in S
        /\ jobs[n].standup = s /\ jobs[n].user = u /\ jobs[n].answer = a
        /\ jobs[n].born <= endAt[s]
  BY DEF Submitted
<1>2. s \in created
  BY <1>1 DEF JobsBacked, JobBacked, PromptsOfCreated
<1>3. endAt'[s] = endAt[s]
  BY <1>2 DEF StoreStays
<1>4. QED
  BY <1>1, <1>3, SubmissionGoesOn DEF Submitted

(* The initial state has nothing unsaved and nothing dropped.              *)
LEMMA InitUnsavedBacked == Init => UnsavedBacked
BY DEF Init, UnsavedBacked, EmptySheet

(* Steps that assign nothing, and begin and end no flush.                  *)
LEMMA UnsavedBackedKept ==
  ASSUME TypeOK, PromptsOfCreated, JobsBacked, UnsavedBacked, StoreStays, QueueGrows,
         UNCHANGED memory,
         \A n \in DOMAIN jobs :
           jobs[n].stage \in Unconfirmed => jobs'[n].stage = jobs[n].stage,
         \A n \in DOMAIN jobs' :
           jobs'[n].stage = "flushing" => n \in DOMAIN jobs /\ jobs[n].stage = "flushing"
  PROVE  UnsavedBacked'
<1>1. \A n \in DOMAIN jobs' : jobs'[n].stage = "flushing" => writing' # <<>>
  BY DEF UnsavedBacked, memory
<1>2. ASSUME NEW s \in Standups, NEW u \in Users, NEW a,
             NEW S \in SUBSET Unconfirmed, Submitted(s, u, a, S)
      PROVE  Submitted(s, u, a, S)'
  BY <1>2, SubmittedStays
<1>3. Unconfirmed \in SUBSET Unconfirmed /\ {"assigned", "dropped"} \in SUBSET Unconfirmed
  BY DEF Unconfirmed
<1>4. ASSUME NEW s \in Standups, NEW u \in Users, NEW a,
             Submitted(s, u, a, {"assigned", "flushing", "dropped"})
      PROVE  Submitted(s, u, a, {"assigned", "flushing", "dropped"})'
  BY <1>2, <1>3, <1>4 DEF Unconfirmed
<1>5. ASSUME NEW s \in Standups, NEW u \in Users, NEW a,
             Submitted(s, u, a, {"assigned", "dropped"})
      PROVE  Submitted(s, u, a, {"assigned", "dropped"})'
  BY <1>2, <1>3, <1>5
<1>6. unsaved' = unsaved /\ writing' = writing
  BY DEF memory
<1>7. ASSUME NEW s \in Standups, NEW u \in Users
      PROVE  /\ unsaved'[s][u] # NoAnswer =>
                  Submitted(s, u, unsaved[s][u], {"assigned", "flushing", "dropped"})'
             /\ writing' # <<>> =>
                  /\ writing'[1][s][u] # NoAnswer =>
                       Submitted(s, u, writing[1][s][u], {"assigned", "flushing", "dropped"})'
                  /\ unsaved'[s][u] \notin {NoAnswer, writing'[1][s][u]} =>
                       Submitted(s, u, unsaved[s][u], {"assigned", "dropped"})'
  BY <1>4, <1>5, <1>6 DEF UnsavedBacked
<1>8. QED
  BY <1>1, <1>7 DEF UnsavedBacked

(* Every step keeps UnsavedBacked: a flush takes what waits, and leaves    *)
(* only what was assigned since; a rejected one leaves it all.             *)
LEMMA UnsavedBackedStep ==
  TypeOK /\ PromptsOfCreated /\ JobsBacked /\ UnsavedBacked /\ [Next]_vars
    => UnsavedBacked'
<1> SUFFICES ASSUME TypeOK, PromptsOfCreated, JobsBacked, UnsavedBacked, [Next]_vars
             PROVE  UnsavedBacked'
  OBVIOUS
<1>1. StoreStays /\ QueueGrows
  BY StoreStaysStep, QueueGrowsStep
<1>2. CASE UNCHANGED <<jobs, memory>>
  BY <1>1, <1>2, UnsavedBackedKept
<1>3. ASSUME NEW kind \in {"open", "submit"}, NEW s \in Standups, NEW u \in Users,
             NEW a \in Answers \union {NoAnswer}, NEW born \in Minutes,
             Enqueue(kind, s, u, a, born), UNCHANGED memory
      PROVE  UnsavedBacked'
  <2>1. PICK k :
          /\ DOMAIN jobs' = DOMAIN jobs \union {k}
          /\ \A m \in DOMAIN jobs : jobs'[m] = jobs[m]
          /\ jobs'[k] = NewJob(kind, s, u, a, born)
    BY <1>3, EnqueueAdds
  <2>2. jobs'[k].stage = "queued"
    BY <2>1 DEF NewJob
  <2>3. QED
    BY <1>1, <1>3, <2>1, <2>2, UnsavedBackedKept
<1>4. ASSUME NEW s \in Standups, NEW u \in Users, Press(s, u)
      PROVE  UnsavedBacked'
  <2>1. 0 \in Minutes
    BY DataAssumption DEF Minutes
  <2>2. QED
    BY <1>3, <1>4, <2>1 DEF Press
<1>5. ASSUME NEW u \in Users, NEW a \in Answers, Submit(u, a)
      PROVE  UnsavedBacked'
  BY <1>3, <1>5, OfferedDialog DEF Submit
<1>6. ASSUME NEW n \in DOMAIN jobs, NEW stage \in Stages, Moved(n, stage),
             UNCHANGED memory, jobs[n].stage \notin Unconfirmed, stage # "flushing"
      PROVE  UnsavedBacked'
  <2>1. /\ DOMAIN jobs' = DOMAIN jobs /\ jobs'[n].stage = stage
        /\ \A m \in DOMAIN jobs \ {n} : jobs'[m] = jobs[m]
    BY <1>6 DEF Moved, Restaged
  <2>2. QED
    BY <1>1, <1>6, <2>1, UnsavedBackedKept
<1>7. ASSUME NEW n \in 1..MaxJobs,
             \/ Take(n) \/ Refuse(n) \/ DialogOpened(n) \/ DialogFails(n)
             \/ LoadSubmission(n) \/ RedrawMessage(n) \/ RedrawFails(n)
      PROVE  UnsavedBacked'
  <2>1. n \in DOMAIN jobs /\ jobs[n].stage \notin Unconfirmed /\ UNCHANGED memory
    BY <1>7 DEF Take, Refuse, DialogOpened, DialogFails, LoadSubmission, RedrawMessage,
       RedrawFails, At, Unconfirmed
  <2>2. PICK stage \in Stages : Advance(n, stage) /\ stage # "flushing"
    BY <1>7 DEF Take, Refuse, DialogOpened, DialogFails, LoadSubmission, RedrawMessage,
       RedrawFails, Stages
  <2>3. QED
    BY <1>6, <2>1, <2>2, AdvanceMoves
<1>8. ASSUME NEW n \in 1..MaxJobs, BuildDialog(n)
      PROVE  UnsavedBacked'
  <2>1. UNCHANGED memory
    BY <1>8 DEF BuildDialog
  <2>2. QED
    BY <1>6, <1>8, <2>1, BuildDialogMoves DEF Stages, Unconfirmed
<1>9. ASSUME NEW n \in 1..MaxJobs, AssignAnswers(n)
      PROVE  UnsavedBacked'
  <2> PICK r, v, b : r = jobs[n].standup /\ v = jobs[n].user /\ b = jobs[n].answer
    OBVIOUS
  <2>1. /\ n \in DOMAIN jobs /\ jobs[n].kind = "submit" /\ jobs[n].stage = "loaded"
        /\ Moved(n, "assigned") /\ writing' = writing
        /\ jobs[n].born <= endAt[r] /\ r \in Standups /\ v \in Users
    BY <1>9, AdvanceMoves, JobType, JobFields DEF AssignAnswers, At, Stages, JobsBacked,
       JobBacked
  <2>2. /\ DOMAIN jobs' = DOMAIN jobs /\ jobs'[n].stage = "assigned"
        /\ \A m \in DOMAIN jobs \ {n} : jobs'[m] = jobs[m]
    BY <2>1 DEF Moved, Restaged
  <2>3. \A m \in DOMAIN jobs' : jobs'[m].stage = "flushing" => writing' # <<>>
    BY <2>1, <2>2 DEF UnsavedBacked
  <2>4. ASSUME NEW s \in Standups, NEW u \in Users, NEW a,
               NEW S \in {Unconfirmed, {"assigned", "dropped"}}, Submitted(s, u, a, S)
        PROVE  Submitted(s, u, a, S)'
    <3>1. \A m \in DOMAIN jobs :
            jobs[m].kind = "submit" /\ jobs[m].stage \in S => jobs'[m].stage \in S
      BY <2>1, <2>2 DEF Unconfirmed
    <3>2. QED
      BY <1>1, <2>4, <3>1, SubmittedStays
  <2>5. Submitted(r, v, b, {"assigned"})'
    <3>1. r \in created
      BY <2>1 DEF JobsBacked, JobBacked, PromptsOfCreated
    <3>2. endAt'[r] = endAt[r]
      BY <1>1, <3>1 DEF StoreStays
    <3>3. QED
      BY <1>1, <2>1, <2>2, <3>2, SubmissionGoesOn DEF Submitted
  <2>6. ASSUME NEW s \in Standups, NEW u \in Users
        PROVE  \/ unsaved'[s][u] = unsaved[s][u]
               \/ s = r /\ u = v /\ unsaved'[s][u] = b
    BY <1>9, <2>1 DEF AssignAnswers, TypeOK, Sheets
  <2>7. ASSUME NEW s \in Standups, NEW u \in Users
        PROVE  /\ unsaved'[s][u] # NoAnswer =>
                    Submitted(s, u, unsaved[s][u], {"assigned", "flushing", "dropped"})'
               /\ writing' # <<>> =>
                    /\ writing'[1][s][u] # NoAnswer =>
                         Submitted(s, u, writing[1][s][u], {"assigned", "flushing", "dropped"})'
                    /\ unsaved'[s][u] \notin {NoAnswer, writing'[1][s][u]} =>
                         Submitted(s, u, unsaved[s][u], {"assigned", "dropped"})'
    <3>1. writing' # <<>> /\ writing'[1][s][u] # NoAnswer =>
            Submitted(s, u, writing[1][s][u], {"assigned", "flushing", "dropped"})'
      BY <2>1, <2>4 DEF UnsavedBacked, Unconfirmed
    <3>2. CASE unsaved'[s][u] = unsaved[s][u]
      <4>1. unsaved'[s][u] # NoAnswer =>
              Submitted(s, u, unsaved[s][u], {"assigned", "flushing", "dropped"})'
        BY <2>4, <3>2 DEF UnsavedBacked, Unconfirmed
      <4>2. writing' # <<>> /\ unsaved'[s][u] \notin {NoAnswer, writing'[1][s][u]} =>
              Submitted(s, u, unsaved[s][u], {"assigned", "dropped"})'
        BY <2>1, <2>4, <3>2 DEF UnsavedBacked
      <4>3. QED
        BY <3>1, <4>1, <4>2
    <3>3. CASE s = r /\ u = v /\ unsaved'[s][u] = b
      <4>1. /\ Submitted(s, u, b, {"assigned", "flushing", "dropped"})'
            /\ Submitted(s, u, b, {"assigned", "dropped"})'
        BY <2>5, <3>3 DEF Submitted
      <4>2. QED
        BY <3>1, <3>3, <4>1
    <3>4. QED
      BY <2>6, <3>2, <3>3
  <2>8. QED
    BY <2>3, <2>7 DEF UnsavedBacked
<1>10. ASSUME writing = <<>>, writing' = <<unsaved>>, UNCHANGED unsaved,
              \A n \in DOMAIN jobs :
                jobs[n].stage \in Unconfirmed => jobs'[n].stage \in Unconfirmed
       PROVE  UnsavedBacked'
  <2>1. writing' # <<>> /\ writing'[1] = unsaved
    BY <1>10
  <2>2. ASSUME NEW s \in Standups, NEW u \in Users, unsaved[s][u] # NoAnswer
        PROVE  Submitted(s, u, unsaved[s][u], {"assigned", "flushing", "dropped"})'
    <3>1. PICK a : a = unsaved[s][u]
      OBVIOUS
    <3>2. Submitted(s, u, a, Unconfirmed)
      BY <2>2, <3>1 DEF UnsavedBacked, Unconfirmed
    <3>3. Submitted(s, u, a, Unconfirmed)'
      BY <1>1, <1>10, <3>2, SubmittedStays
    <3>4. QED
      BY <1>10, <3>1, <3>3 DEF Unconfirmed
  <2>3. QED
    BY <1>10, <2>1, <2>2 DEF UnsavedBacked
<1>11. CASE EventFlushStarts
  BY <1>10, <1>11 DEF EventFlushStarts
<1>12. ASSUME NEW n \in 1..MaxJobs, FlushStarts(n)
       PROVE  UnsavedBacked'
  <2>1. n \in DOMAIN jobs /\ Moved(n, "flushing")
    BY <1>12, AdvanceMoves DEF FlushStarts, At, Stages
  <2>2. QED
    BY <1>10, <1>12, <2>1 DEF FlushStarts, Moved, Restaged, Unconfirmed
<1>13. CASE FlushEnds \/ FlushFails
  <2>1. PICK stage \in {"stored", "dropped"} :
          /\ AdvanceFlushing(stage) /\ writing # <<>> /\ writing' = <<>>
          /\ FlushLands \/ (stage = "dropped" /\ UNCHANGED <<answers, unsaved>>)
    BY <1>13 DEF FlushEnds, FlushFails
  <2>2. \A n \in DOMAIN jobs :
          /\ jobs[n].stage = "flushing" => jobs'[n].stage = stage
          /\ jobs[n].stage # "flushing" => jobs'[n] = jobs[n]
    BY <2>1, FlushMoves DEF Stages, Restaged
  <2>3. \A n \in DOMAIN jobs' : jobs'[n].stage # "flushing"
    BY <2>1, <2>2, FlushMoves DEF Stages
  <2>4. ASSUME NEW s \in Standups, NEW u \in Users, unsaved'[s][u] # NoAnswer
        PROVE  Submitted(s, u, unsaved[s][u], {"assigned", "flushing", "dropped"})'
    <3>1. PICK a : a = unsaved[s][u]
      OBVIOUS
    <3>2. CASE FlushLands
      <4>1. a = unsaved'[s][u] /\ a \notin {NoAnswer, writing[1][s][u]}
        BY <2>4, <3>1, <3>2, FlushLandsCell
      <4>2. Submitted(s, u, a, {"assigned", "dropped"})
        BY <2>1, <3>1, <4>1 DEF UnsavedBacked
      <4>3. Submitted(s, u, a, Unconfirmed)'
        BY <1>1, <2>2, <4>2, SubmittedStays DEF Unconfirmed
      <4>4. QED
        BY <4>1, <4>3 DEF Unconfirmed
    <3>3. CASE stage = "dropped" /\ UNCHANGED <<answers, unsaved>>
      <4>1. Submitted(s, u, a, Unconfirmed)
        BY <2>4, <3>1, <3>3 DEF UnsavedBacked, Unconfirmed
      <4>2. Submitted(s, u, a, Unconfirmed)'
        BY <1>1, <2>2, <3>3, <4>1, SubmittedStays DEF Unconfirmed
      <4>3. QED
        BY <3>1, <3>3, <4>2 DEF Unconfirmed
    <3>4. QED
      BY <2>1, <3>2, <3>3
  <2>5. QED
    BY <2>1, <2>3, <2>4 DEF UnsavedBacked
<1>14. CASE WorkerCrash
  <2>1. \A n \in DOMAIN jobs' : jobs'[n].stage # "flushing"
    BY <1>14, CrashDrops DEF WorkerCrash, Over, Restaged
  <2>2. writing' = <<>> /\ \A s \in Standups, u \in Users : unsaved'[s][u] = NoAnswer
    BY <1>14 DEF WorkerCrash, EmptySheet
  <2>3. QED
    BY <2>1, <2>2 DEF UnsavedBacked
<1>15. CASE Client
  BY <1>2, <1>4, <1>5, <1>15 DEF Client, SubmitLost, Cancel
<1>16. CASE Worker
  BY <1>2, <1>7, <1>8, <1>9, <1>11, <1>12, <1>13, <1>14, <1>16 DEF Worker, Handle, Flush,
     WorkerRestart
<1>17. CASE Notifier \/ UNCHANGED vars
  BY <1>2, <1>17 DEF Notifier, Tick, Created, Greeted, RowSaved, Linked, vars, memory
<1>18. QED
  BY <1>15, <1>16, <1>17 DEF Next

(* Without failures nothing is dropped.                                    *)
NothingDropped ==
  WorkerFaults = {} =>
    \A n \in DOMAIN jobs : jobs[n].kind = "submit" => jobs[n].stage # "dropped"

(* Only a failure drops a submission.                                      *)
LEMMA NothingDroppedStep == NothingDropped /\ QueueGrows => NothingDropped'
<1> SUFFICES ASSUME NothingDropped, QueueGrows, WorkerFaults = {},
                    NEW n \in DOMAIN jobs', jobs'[n].kind = "submit"
             PROVE  jobs'[n].stage # "dropped"
  BY DEF NothingDropped
<1>1. CASE n \in DOMAIN jobs
  <2>1. jobs[n].kind = "submit"
    BY <1>1 DEF QueueGrows, Restaged
  <2>2. QED
    BY <1>1, <2>1, SubmissionGoesOn DEF NothingDropped, NextStage
<1>2. CASE n \notin DOMAIN jobs
  BY <1>2 DEF QueueGrows
<1>3. QED
  BY <1>1, <1>2

(* What the hand-overs rely on is inductive.                               *)
WorkerInv ==
  /\ TypeOK /\ PromptsOfCreated /\ DialogsBacked /\ JobsBacked
  /\ UnsavedBacked /\ NothingDropped

(* The initial state has all of it.                                        *)
LEMMA InitWorkerInv == Init => WorkerInv
<1>1. Init => NothingDropped
  BY DEF Init, NothingDropped
<1>2. QED
  BY <1>1, InitType, InitPromptsOfCreated, InitDialogsBacked, InitJobsBacked,
     InitUnsavedBacked DEF WorkerInv

(* Types, settled ends, backed dialogs, jobs and answers carry each other. *)
LEMMA WorkerInvStep == WorkerInv /\ [Next]_vars => WorkerInv'
BY TypeStep, PromptsOfCreatedStep, DialogsBackedStep, JobsBackedStep, UnsavedBackedStep,
   QueueGrowsStep, NothingDroppedStep DEF WorkerInv

(* The whole of it is an invariant.                                        *)
LEMMA WorkerInvariant == Spec => []WorkerInv
BY InitWorkerInv, WorkerInvStep, PTL DEF Spec

(* Every job, dialog and handler under way has behind it what it had when  *)
(* it was made: through any number of jobs, crashes and interleavings.     *)
THEOREM JobsBackedHolds == Spec => []JobsBacked
BY WorkerInvariant, PTL DEF WorkerInv

(* 'User standup is not found' meets only presses of the button that were  *)
(* queued before the user's row was there, and never a submission.         *)
THEOREM RefusedOnlyBeforeRowHolds == Spec => []RefusedOnlyBeforeRow
<1>1. WorkerInv => RefusedOnlyBeforeRow
  BY DEF WorkerInv, JobsBacked, JobBacked, RefusedOnlyBeforeRow
<1>2. QED
  BY <1>1, WorkerInvariant, PTL

-----------------------------------------------------------------------------
(* Answers.                                                                *)

(* Answers change only to what a flush has taken to write.                 *)
LEMMA AnswersChange ==
  ASSUME [Next]_vars, NEW s \in Standups, NEW u \in Users,
         answers'[s][u] # answers[s][u]
  PROVE  /\ writing # <<>> /\ answers'[s][u] = writing[1][s][u]
         /\ answers'[s][u] # NoAnswer
<1>1. CASE Client \/ UNCHANGED vars
  BY <1>1 DEF Client, Press, Submit, SubmitLost, Cancel, shared, vars
<1>2. CASE writing # <<>> /\ answers' = Written(answers, writing[1])
  BY <1>2, WrittenCell
<1>3. CASE Worker
  BY <1>2, <1>3 DEF Worker, Take, Handle, Refuse, BuildDialog, DialogOpened,
        DialogFails, LoadSubmission, AssignAnswers, FlushStarts, RedrawMessage,
        RedrawFails, Flush, EventFlushStarts, FlushEnds, FlushFails, FlushLands,
        WorkerCrash, WorkerRestart, shared
<1>4. CASE Notifier
  BY <1>4 DEF Notifier, Tick, Created, Greeted, RowSaved, Linked
<1>5. QED
  BY <1>1, <1>3, <1>4 DEF Next

(* Answers change only to those of a submission of the user they belong    *)
(* to, from a dialog built before the standup's end, that no flush was     *)
(* confirmed for: whoever's flush writes them, and although rejected ones  *)
(* left them waiting.  The one check of the end, when the dialog is built, *)
(* is enough.                                                              *)
THEOREM AnswersComeFromOpenDialogsHolds == Spec => AnswersComeFromOpenDialogs
<1>1. WorkerInv /\ [Next]_vars =>
        [\A s \in Standups, u \in Users :
           answers'[s][u] # answers[s][u] =>
             Submitted(s, u, answers'[s][u], {"assigned", "flushing", "dropped"})]_vars
  <2> SUFFICES ASSUME WorkerInv, [Next]_vars,
                      NEW s \in Standups, NEW u \in Users,
                      answers'[s][u] # answers[s][u]
               PROVE  Submitted(s, u, answers'[s][u], {"assigned", "flushing", "dropped"})
    OBVIOUS
  <2>1. /\ writing # <<>> /\ answers'[s][u] = writing[1][s][u]
        /\ answers'[s][u] # NoAnswer
    BY AnswersChange
  <2>2. Submitted(s, u, writing[1][s][u], {"assigned", "flushing", "dropped"})
    BY <2>1 DEF WorkerInv, UnsavedBacked
  <2>3. QED
    BY <2>1, <2>2
<1>2. QED
  BY <1>1, WorkerInvariant, PTL DEF Spec, AnswersComeFromOpenDialogs

(* The initial state has no messages.                                      *)
LEMMA InitCheckMeansAnswer == Init => CheckMeansAnswer
BY DEF Init, CheckMeansAnswer, NoPrompt

(* RedrawMessage draws the check mark of answers its job has stored, the   *)
(* notifier's update that of answers it has read.                          *)
LEMMA CheckMeansAnswerStep ==
  WorkerInv /\ CheckMeansAnswer /\ [Next]_vars => CheckMeansAnswer'
<1> SUFFICES ASSUME WorkerInv, CheckMeansAnswer, [Next]_vars
             PROVE  CheckMeansAnswer'
  OBVIOUS
<1>1. StoreStays
  BY StoreStaysStep DEF WorkerInv
<1>2. ASSUME NEW s \in Standups, NEW u \in Users, NEW c \in BOOLEAN, NEW l \in BOOLEAN,
             message' = [message EXCEPT ![s][u] = StandupMsg(c, l)],
             c => answers[s][u] # NoAnswer
      PROVE  CheckMeansAnswer'
  <2>1. message'[s][u].check => answers[s][u] # NoAnswer
    BY <1>2 DEF WorkerInv, TypeOK, StandupMsg
  <2>2. \A r \in Standups, v \in Users :
          message'[r][v] = message[r][v] \/ (r = s /\ v = u)
    BY <1>2 DEF WorkerInv, TypeOK
  <2>3. QED
    BY <1>1, <2>1, <2>2 DEF CheckMeansAnswer, StoreStays
<1>3. CASE UNCHANGED message
  BY <1>1, <1>3 DEF CheckMeansAnswer, StoreStays
<1>4. ASSUME NEW n \in 1..MaxJobs, RedrawMessage(n)
      PROVE  CheckMeansAnswer'
  <2>1. /\ n \in DOMAIN jobs /\ jobs[n].kind = "submit" /\ jobs[n].stage = "stored"
        /\ message' = [message EXCEPT ![jobs[n].standup][jobs[n].user] =
                         StandupMsg(TRUE, FALSE)]
    BY <1>4 DEF RedrawMessage, At
  <2>2. answers[jobs[n].standup][jobs[n].user] # NoAnswer
    BY <2>1 DEF WorkerInv, JobsBacked, JobBacked
  <2>3. jobs[n].standup \in Standups /\ jobs[n].user \in Users
    BY <2>1, JobType, JobFields DEF WorkerInv
  <2>4. QED
    BY <1>2, <2>1, <2>2, <2>3
<1>5. ASSUME NEW s \in Standups, NEW u \in Users, Greeted(s, u)
      PROVE  CheckMeansAnswer'
  BY <1>2, <1>5 DEF Greeted
<1>6. ASSUME NEW s \in Standups, NEW u \in Users, Linked(s, u)
      PROVE  CheckMeansAnswer'
  <2>1. PICK c \in BOOLEAN :
          /\ c => answers[s][u] # NoAnswer
          /\ message' = [message EXCEPT ![s][u] = StandupMsg(c, TRUE)]
    BY <1>6 DEF Linked
  <2>2. QED
    BY <1>2, <2>1
<1>7. CASE Client \/ UNCHANGED vars
  BY <1>3, <1>7 DEF Client, Press, Submit, SubmitLost, Cancel, shared, vars
<1>8. CASE Worker
  BY <1>3, <1>4, <1>8 DEF Worker, Take, Handle, Refuse, BuildDialog, DialogOpened,
        DialogFails, LoadSubmission, AssignAnswers, FlushStarts, RedrawFails, Flush,
        EventFlushStarts, FlushEnds, FlushFails, WorkerCrash, WorkerRestart, shared
<1>9. CASE Notifier
  BY <1>3, <1>5, <1>6, <1>9 DEF Notifier, Tick, Created, RowSaved
<1>10. QED
  BY <1>7, <1>8, <1>9 DEF Next

(* A check mark stands for stored answers, also while the handlers of two  *)
(* submissions of one user and the report's update interleave.             *)
THEOREM CheckMeansAnswerHolds == Spec => []CheckMeansAnswer
<1>1. Init => CheckMeansAnswer
  BY InitCheckMeansAnswer
<1>2. WorkerInv /\ CheckMeansAnswer /\ [Next]_vars => CheckMeansAnswer'
  BY CheckMeansAnswerStep
<1>3. QED
  BY <1>1, <1>2, WorkerInvariant, PTL DEF Spec

-----------------------------------------------------------------------------
(* Which submission is stored last.                                        *)

(* A job queued after others were over follows jobs that stay over.        *)
LEMMA AfterIsOverStep == AfterIsOver /\ QueueGrows => AfterIsOver'
BY DEF AfterIsOver, QueueGrows, Restaged, Goes

(* The initial state has no submissions.                                   *)
LEMMA InitLastStored == Init => AfterIsOver /\ LastStored
BY DEF Init, AfterIsOver, LastStored, Passed, Submissions

(* What LastStored says of one user.                                       *)
Author(s, u) ==
  \E n \in Submissions(s, u) :
    /\ jobs[n].stage \in {"assigned", "flushing", "stored", "done"}
    /\ answers[s][u] = jobs[n].answer
    /\ \A m \in Passed(s, u) : n \notin jobs[m].after

(* No submission of the user's is dropped.                                 *)
Whole(s, u) == \A n \in Submissions(s, u) : jobs[n].stage # "dropped"

(* Submissions stay, a new one has just been queued, and what is whole     *)
(* after a step was so before.                                             *)
LEMMA SubmissionsGrow ==
  ASSUME QueueGrows, NEW s \in Standups, NEW u \in Users
  PROVE  /\ Submissions(s, u) \subseteq Submissions(s, u)'
         /\ \A n \in Submissions(s, u)' :
              n \in Submissions(s, u) \/ jobs'[n].stage = "queued"
         /\ Whole(s, u)' => Whole(s, u)
<1>1. Submissions(s, u) \subseteq Submissions(s, u)'
  BY SubmissionGoesOn DEF Submissions
<1>2. ASSUME NEW n \in Submissions(s, u)'
      PROVE  n \in Submissions(s, u) \/ jobs'[n].stage = "queued"
  BY <1>2 DEF Submissions, QueueGrows, Restaged
<1>3. \A n \in Submissions(s, u) : jobs[n].stage = "dropped" => jobs'[n].stage = "dropped"
  BY SubmissionGoesOn DEF Submissions, NextStage, Over
<1>4. QED
  BY <1>1, <1>2, <1>3 DEF Whole

(* Where a user's answers stay, and no more submissions are passed, they   *)
(* keep their author.                                                      *)
LEMMA AuthorKept ==
  ASSUME QueueGrows, LastStored, NEW s \in Standups, NEW u \in Users,
         answers'[s][u] = answers[s][u], Passed(s, u)' \subseteq Passed(s, u),
         Passed(s, u)' # {}, Whole(s, u)'
  PROVE  Author(s, u)'
<1>1. Passed(s, u) # {} /\ Whole(s, u)
  BY SubmissionsGrow
<1>2. PICK n \in Submissions(s, u) :
        /\ jobs[n].stage \in {"assigned", "flushing", "stored", "done"}
        /\ answers[s][u] = jobs[n].answer
        /\ \A m \in Passed(s, u) : n \notin jobs[m].after
  BY <1>1 DEF LastStored, Whole
<1>3. /\ n \in Submissions(s, u)' /\ jobs'[n].answer = jobs[n].answer
      /\ jobs'[n].stage \in {"assigned", "flushing", "stored", "done"}
  <2>1. n \in Submissions(s, u)' /\ jobs'[n].stage # "dropped"
    BY SubmissionsGrow DEF Whole
  <2>2. n \in DOMAIN jobs /\ jobs[n].kind = "submit"
    BY DEF Submissions
  <2>3. QED
    BY <1>2, <2>1, <2>2, SubmissionGoesOn DEF NextStage
<1>4. ASSUME NEW m \in Passed(s, u)'
      PROVE  n \notin jobs'[m].after
  <2>1. m \in Passed(s, u) /\ m \in DOMAIN jobs /\ jobs[m].kind = "submit"
    BY DEF Passed, Submissions
  <2>2. QED
    BY <1>2, <2>1, SubmissionGoesOn
<1>5. QED
  BY <1>2, <1>3, <1>4 DEF Author

(* Where a flush writes a user's answers, they are those of a submission   *)
(* that is not over, so that nobody has been queued after its end.         *)
LEMMA AuthorWrites ==
  ASSUME WorkerInv, QueueGrows, AfterIsOver, NEW s \in Standups, NEW u \in Users,
         writing # <<>>, writing[1][s][u] # NoAnswer,
         answers'[s][u] = writing[1][s][u], Whole(s, u)',
         \A n \in Passed(s, u)' : n \in Submissions(s, u)
  PROVE  Author(s, u)'
<1>1. Whole(s, u)
  BY SubmissionsGrow
<1>2. PICK n \in Submissions(s, u) :
        jobs[n].stage \in {"assigned", "flushing"} /\ jobs[n].answer = writing[1][s][u]
  <2>1. Submitted(s, u, writing[1][s][u], {"assigned", "flushing", "dropped"})
    BY DEF WorkerInv, UnsavedBacked
  <2>2. QED
    BY <1>1, <2>1 DEF Submitted, Submissions, Whole
<1>3. n \in DOMAIN jobs /\ jobs[n].kind = "submit"
  BY DEF Submissions
<1>4. n \in Submissions(s, u)' /\ jobs'[n].stage # "dropped"
  BY SubmissionsGrow DEF Whole
<1>5. jobs'[n].answer = jobs[n].answer /\ jobs'[n].stage \in {"assigned", "flushing", "stored"}
  BY <1>2, <1>3, <1>4, SubmissionGoesOn DEF NextStage
<1>6. ASSUME NEW m \in Passed(s, u)'
      PROVE  n \notin jobs'[m].after
  <2>1. m \in DOMAIN jobs /\ jobs[m].kind = "submit"
    BY DEF Submissions
  <2>2. jobs'[m].after = jobs[m].after
    BY <2>1, SubmissionGoesOn
  <2>3. QED
    BY <1>2, <2>1, <2>2 DEF AfterIsOver, Over
<1>7. QED
  BY <1>2, <1>4, <1>5, <1>6 DEF Author

(* Steps of nobody who assigns or flushes.                                 *)
LEMMA QuietStep ==
  ASSUME TypeOK, [Next]_vars, ~Flush, ~WorkerCrash,
         \A n \in 1..MaxJobs : ~AssignAnswers(n) /\ ~FlushStarts(n)
  PROVE  /\ UNCHANGED memory /\ UNCHANGED answers
         /\ \A n \in DOMAIN jobs :
              \/ jobs'[n].stage = jobs[n].stage
              \/ /\ jobs[n].stage \notin {"assigned", "flushing"}
                 /\ jobs[n].kind = "submit" =>
                      jobs'[n].stage \notin {"assigned", "flushing", "stored"}
<1> DEFINE Quiet ==
      \A n \in DOMAIN jobs :
        \/ jobs'[n].stage = jobs[n].stage
        \/ /\ jobs[n].stage \notin {"assigned", "flushing"}
           /\ jobs[n].kind = "submit" =>
                jobs'[n].stage \notin {"assigned", "flushing", "stored"}
<1>1. UNCHANGED memory /\ UNCHANGED answers
  BY DEF Next, Client, Press, Submit, SubmitLost, Cancel, Worker, Take, Handle, Refuse,
     BuildDialog, DialogOpened, DialogFails, LoadSubmission, RedrawMessage, RedrawFails,
     WorkerRestart, Notifier, Tick, Created, Greeted, RowSaved, Linked, shared, vars
<1> SUFFICES Quiet
  BY <1>1
<1>2. CASE UNCHANGED jobs
  BY <1>2
<1>3. ASSUME NEW kind \in {"open", "submit"}, NEW s \in Standups, NEW u \in Users,
             NEW a \in Answers \union {NoAnswer}, NEW born \in Minutes,
             Enqueue(kind, s, u, a, born)
      PROVE  Quiet
  BY <1>3, EnqueueAdds
<1>4. CASE Client
  <2>1. ASSUME NEW s \in Standups, NEW u \in Users, Press(s, u)
        PROVE  Quiet
    <3>1. 0 \in Minutes
      BY DataAssumption DEF Minutes
    <3>2. QED
      BY <1>3, <2>1, <3>1 DEF Press
  <2>2. ASSUME NEW u \in Users, NEW a \in Answers, Submit(u, a)
        PROVE  Quiet
    BY <1>3, <2>2, OfferedDialog DEF Submit
  <2>3. QED
    BY <1>2, <1>4, <2>1, <2>2 DEF Client, SubmitLost, Cancel
<1>5. ASSUME NEW n \in DOMAIN jobs, NEW stage \in Stages, Moved(n, stage),
             jobs[n].stage \notin {"assigned", "flushing"},
             jobs[n].kind = "submit" => stage \notin {"assigned", "flushing", "stored"}
      PROVE  Quiet
  BY <1>5 DEF Moved, Restaged
<1>6. ASSUME NEW n \in 1..MaxJobs, Take(n) \/ Handle(n), ~BuildDialog(n)
      PROVE  Quiet
  <2>1. n \in DOMAIN jobs /\ jobs[n].stage \notin {"assigned", "flushing"}
    BY <1>6 DEF Take, Handle, Refuse, DialogOpened, DialogFails, LoadSubmission,
       RedrawMessage, RedrawFails, At
  <2>2. PICK stage \in Stages :
          Advance(n, stage) /\ stage \notin {"assigned", "flushing", "stored"}
    BY <1>6 DEF Take, Handle, Refuse, DialogOpened, DialogFails, LoadSubmission,
       RedrawMessage, RedrawFails, Stages
  <2>3. QED
    BY <1>5, <2>1, <2>2, AdvanceMoves
<1>7. ASSUME NEW n \in 1..MaxJobs, BuildDialog(n)
      PROVE  Quiet
  BY <1>5, <1>7, BuildDialogMoves DEF Stages
<1>8. CASE Worker
  BY <1>2, <1>6, <1>7, <1>8 DEF Worker, WorkerRestart
<1>9. CASE Notifier \/ UNCHANGED vars
  BY <1>2, <1>9 DEF Notifier, Tick, Created, Greeted, RowSaved, Linked, vars
<1>10. QED
  BY <1>4, <1>8, <1>9 DEF Next

(* A flush that writes a user's answers makes them those of a submission   *)
(* that is not over; no other step lets a submission pass.                 *)
LEMMA LastStoredStep ==
  WorkerInv /\ AfterIsOver /\ LastStored /\ [Next]_vars => LastStored'
<1> SUFFICES ASSUME WorkerInv, AfterIsOver, LastStored, [Next]_vars,
                    NEW s \in Standups, NEW u \in Users,
                    Passed(s, u)' # {}, Whole(s, u)'
             PROVE  Author(s, u)'
  BY DEF LastStored, Author, Whole
<1>1. QueueGrows /\ TypeOK /\ UnsavedBacked
  BY QueueGrowsStep DEF WorkerInv
<1>2. ASSUME NEW n \in Passed(s, u)'
      PROVE  /\ n \in Submissions(s, u) /\ n \in DOMAIN jobs /\ jobs[n].kind = "submit"
             /\ \/ jobs'[n].stage \in {"stored", "done"}
                \/ jobs'[n].stage = "assigned" /\ unsaved'[s][u] = NoAnswer
                \/ jobs'[n].stage = "flushing" /\ writing'[1][s][u] = NoAnswer
             /\ \/ jobs'[n].stage = jobs[n].stage
                \/ NextStage(jobs[n].stage, jobs'[n].stage)
  <2>1. /\ n \in Submissions(s, u)'
        /\ \/ jobs'[n].stage \in {"stored", "done"}
           \/ jobs'[n].stage = "assigned" /\ unsaved'[s][u] = NoAnswer
           \/ jobs'[n].stage = "flushing" /\ writing'[1][s][u] = NoAnswer
    BY DEF Passed
  <2>2. n \in Submissions(s, u)
    BY <1>1, <2>1, SubmissionsGrow
  <2>3. n \in DOMAIN jobs /\ jobs[n].kind = "submit"
    BY <2>2 DEF Submissions
  <2>4. QED
    BY <1>1, <2>1, <2>2, <2>3, SubmissionGoesOn
<1>3. ASSUME answers'[s][u] = answers[s][u],
             \A n \in Passed(s, u)' : n \in Passed(s, u)
      PROVE  Author(s, u)'
  BY <1>1, <1>3, AuthorKept
<1>4. CASE /\ UNCHANGED memory /\ UNCHANGED answers
           /\ \A n \in DOMAIN jobs :
                \/ jobs'[n].stage = jobs[n].stage
                \/ /\ jobs[n].stage \notin {"assigned", "flushing"}
                   /\ jobs[n].kind = "submit" =>
                        jobs'[n].stage \notin {"assigned", "flushing", "stored"}
  <2>1. ASSUME NEW n \in Passed(s, u)'
        PROVE  n \in Passed(s, u)
    BY <1>2, <1>4 DEF Passed, NextStage, memory
  <2>2. QED
    BY <1>3, <1>4, <2>1
<1>5. ASSUME NEW k \in 1..MaxJobs, AssignAnswers(k)
      PROVE  Author(s, u)'
  <2>1. /\ k \in DOMAIN jobs /\ Moved(k, "assigned") /\ jobs[k].answer # NoAnswer
        /\ UNCHANGED <<answers, writing>>
    BY <1>1, <1>5, AdvanceMoves DEF AssignAnswers, At, Stages, WorkerInv, JobsBacked,
       JobBacked, shared
  <2>2. \/ unsaved'[s][u] = unsaved[s][u] /\ k \notin Submissions(s, u)
        \/ unsaved'[s][u] # NoAnswer
    BY <1>1, <1>5, <2>1 DEF AssignAnswers, TypeOK, Sheets, Submissions
  <2>3. ASSUME NEW n \in Passed(s, u)'
        PROVE  n \in Passed(s, u)
    <3>1. n # k => jobs'[n] = jobs[n]
      BY <1>2, <2>1 DEF Moved
    <3>2. n # k
      BY <1>2, <2>1, <2>2 DEF Moved, Restaged
    <3>3. QED
      BY <1>2, <2>1, <2>2, <3>1, <3>2 DEF Passed
  <2>4. QED
    BY <1>3, <2>1, <2>3
<1>6. ASSUME writing = <<>>, writing' = <<unsaved>>, UNCHANGED <<unsaved, answers>>,
             \A n \in DOMAIN jobs :
               \/ jobs'[n] = jobs[n]
               \/ jobs[n].stage = "assigned" /\ jobs'[n].stage = "flushing"
      PROVE  Author(s, u)'
  <2>1. ASSUME NEW n \in Passed(s, u)'
        PROVE  n \in Passed(s, u)
    <3>1. jobs[n].stage # "flushing" /\ writing'[1] = unsaved
      BY <1>1, <1>2, <1>6 DEF UnsavedBacked
    <3>2. QED
      BY <1>2, <1>6, <3>1 DEF Passed
  <2>2. QED
    BY <1>3, <1>6, <2>1
<1>7. CASE EventFlushStarts
  BY <1>6, <1>7 DEF EventFlushStarts, shared
<1>8. ASSUME NEW k \in 1..MaxJobs, FlushStarts(k)
      PROVE  Author(s, u)'
  <2>1. k \in DOMAIN jobs /\ Moved(k, "flushing") /\ jobs[k].stage = "assigned"
    BY <1>1, <1>8, AdvanceMoves DEF FlushStarts, At, Stages
  <2>2. \A n \in DOMAIN jobs :
          \/ jobs'[n] = jobs[n]
          \/ jobs[n].stage = "assigned" /\ jobs'[n].stage = "flushing"
    BY <2>1 DEF Moved, Restaged
  <2>3. QED
    BY <1>6, <1>8, <2>2 DEF FlushStarts, shared
<1>9. CASE FlushEnds \/ FlushFails
  <2>1. PICK stage \in {"stored", "dropped"} :
          /\ AdvanceFlushing(stage) /\ writing # <<>>
          /\ FlushLands \/ (stage = "dropped" /\ UNCHANGED <<answers, unsaved>>)
    BY <1>9 DEF FlushEnds, FlushFails
  <2>2. \A n \in DOMAIN jobs :
          /\ jobs[n].stage = "flushing" => jobs'[n].stage = stage
          /\ jobs[n].stage # "flushing" => jobs'[n] = jobs[n]
    BY <1>1, <2>1, FlushMoves DEF Stages, Restaged
  <2>3. CASE FlushLands /\ writing[1][s][u] # NoAnswer
    <3>1. answers'[s][u] = writing[1][s][u]
      BY <2>3, FlushLandsCell
    <3>2. QED
      BY <1>1, <1>2, <2>1, <2>3, <3>1, AuthorWrites
  <2>4. CASE FlushLands /\ writing[1][s][u] = NoAnswer
    <3>1. answers'[s][u] = answers[s][u] /\ unsaved'[s][u] = unsaved[s][u]
      BY <2>4, FlushLandsCell
    <3>2. ASSUME NEW n \in Passed(s, u)'
          PROVE  n \in Passed(s, u)
      BY <1>2, <2>2, <2>4, <3>1, <3>2 DEF Passed
    <3>3. QED
      BY <1>3, <3>1, <3>2
  <2>5. CASE stage = "dropped" /\ UNCHANGED <<answers, unsaved>>
    <3>1. ASSUME NEW n \in Passed(s, u)'
          PROVE  n \in Passed(s, u)
      BY <1>2, <2>2, <2>5, <3>1 DEF Passed
    <3>2. QED
      BY <1>3, <2>5, <3>1
  <2>6. QED
    BY <2>1, <2>3, <2>4, <2>5
<1>10. CASE WorkerCrash
  <2>1. \A n \in Submissions(s, u) : jobs'[n].stage # "dropped"
    BY <1>1, SubmissionsGrow DEF Whole
  <2>2. \A n \in DOMAIN jobs : jobs[n].stage \in Over \union {"queued"} \/ jobs'[n].stage = "dropped"
    BY <1>1, <1>10, CrashDrops, JobType DEF WorkerCrash, Jobs
  <2>3. \A n \in Submissions(s, u) : jobs[n].stage \in {"done", "refused", "queued"}
    BY <1>1, <2>1, <2>2, SubmissionsGrow DEF Submissions, Over, Whole
  <2>4. answers'[s][u] = answers[s][u]
    <3> SUFFICES ASSUME answers'[s][u] # answers[s][u]
                 PROVE  FALSE
      OBVIOUS
    <3>1. writing # <<>> /\ answers'[s][u] = writing[1][s][u] /\ answers'[s][u] # NoAnswer
      BY AnswersChange
    <3>2. Submitted(s, u, writing[1][s][u], {"assigned", "flushing", "dropped"})
      BY <1>1, <3>1 DEF UnsavedBacked
    <3>3. QED
      BY <2>3, <3>2 DEF Submitted, Submissions
  <2>5. ASSUME NEW n \in Passed(s, u)'
        PROVE  n \in Passed(s, u)
    BY <1>2, <2>3, <2>5 DEF Passed, NextStage
  <2>6. QED
    BY <1>3, <2>4, <2>5
<1>11. QED
  BY <1>1, <1>4, <1>5, <1>7, <1>8, <1>9, <1>10, QuietStep DEF Flush

(* While nothing is lost, the answers are those of a submission that no    *)
(* passed one was queued after the end of.                                 *)
LEMMA LastStoredInvariant == Spec => [](AfterIsOver /\ LastStored)
<1>1. Init => AfterIsOver /\ LastStored
  BY InitLastStored
<1>2. WorkerInv /\ AfterIsOver /\ LastStored /\ [Next]_vars => AfterIsOver' /\ LastStored'
  BY QueueGrowsStep, AfterIsOverStep, LastStoredStep DEF WorkerInv
<1>3. QED
  BY <1>1, <1>2, WorkerInvariant, PTL DEF Spec

(* Handlers run side by side, so the older of two submissions may be       *)
(* stored last; but the answers that remain are never those of one that    *)
(* was over when another of the user's submissions was queued.             *)
THEOREM NoStaleAnswersHolds == Spec => []NoStaleAnswers
<1>1. LastStored => NoStaleAnswers
  <2> SUFFICES ASSUME LastStored, NEW s \in Standups, NEW u \in Users,
                      Submissions(s, u) # {},
                      \A n \in Submissions(s, u) : jobs[n].stage = "done"
               PROVE  \E n \in Submissions(s, u) :
                        /\ answers[s][u] = jobs[n].answer
                        /\ \A m \in Submissions(s, u) : n \notin jobs[m].after
    BY DEF NoStaleAnswers
  <2>1. Passed(s, u) = Submissions(s, u)
    BY DEF Passed
  <2>2. QED
    BY <2>1 DEF LastStored
<1>2. QED
  BY <1>1, LastStoredInvariant, PTL

-----------------------------------------------------------------------------
(* A worker that meets no failure.                                         *)

(* The stages of a submission whose handler is to redraw the message.      *)
ToRedraw == {"assigned", "flushing", "stored"}

(* The handler that has assigned answers goes on to redraw the message.    *)
LEMMA StoredIsRedrawn ==
  ASSUME QueueGrows, WorkerFaults = {}, NEW n \in DOMAIN jobs,
         jobs[n].kind = "submit", jobs[n].stage \in ToRedraw, ~RedrawMessage(n)
  PROVE  jobs'[n].stage \in ToRedraw
BY SubmissionGoesOn DEF NextStage, ToRedraw

(* What a step of client and worker does to one user: a change of answers  *)
(* leaves a handler that is to redraw the message, and only such a handler *)
(* draws.                                                                  *)
LEMMA CalmInteractionStep ==
  ASSUME WorkerInv, WorkerFaults = {}, Client \/ Worker,
         NEW s \in Standups, NEW u \in Users
  PROVE  /\ \A n \in Submissions(s, u) :
              /\ n \in DOMAIN jobs' /\ jobs'[n].kind = "submit"
              /\ jobs'[n].standup = s /\ jobs'[n].user = u
         /\ \/ \E n \in Submissions(s, u) :
                 message'[s][u] = StandupMsg(TRUE, FALSE)
            \/ /\ message'[s][u] = message[s][u]
               /\ \A n \in Submissions(s, u) :
                    jobs[n].stage \in ToRedraw => jobs'[n].stage \in ToRedraw
               /\ \/ answers'[s][u] = answers[s][u]
                  \/ \E n \in Submissions(s, u) : jobs'[n].stage \in ToRedraw
<1>1. TypeOK /\ [Next]_vars
  BY DEF WorkerInv, Next
<1>2. QueueGrows
  BY <1>1, QueueGrowsStep
<1>3. \A n \in Submissions(s, u) :
        /\ n \in DOMAIN jobs' /\ jobs'[n].kind = "submit"
        /\ jobs'[n].standup = s /\ jobs'[n].user = u
  BY <1>2, SubmissionGoesOn DEF Submissions
<1>4. ASSUME NEW n \in 1..MaxJobs, RedrawMessage(n), n \in Submissions(s, u)
      PROVE  message'[s][u] = StandupMsg(TRUE, FALSE)
  BY <1>1, <1>4 DEF RedrawMessage, Submissions, TypeOK
<1>5. ASSUME \A n \in Submissions(s, u) : ~RedrawMessage(n)
      PROVE  message'[s][u] = message[s][u]
  <2>1. CASE UNCHANGED message
    BY <2>1
  <2>2. ASSUME NEW n \in 1..MaxJobs, RedrawMessage(n)
        PROVE  message'[s][u] = message[s][u]
    <3>1. /\ n \in DOMAIN jobs /\ jobs[n].kind = "submit"
          /\ message' = [message EXCEPT ![jobs[n].standup][jobs[n].user] =
                           StandupMsg(TRUE, FALSE)]
      BY <2>2 DEF RedrawMessage, At
    <3>2. jobs[n].standup # s \/ jobs[n].user # u
      BY <1>5, <2>2, <3>1 DEF Submissions
    <3>3. jobs[n].standup \in Standups /\ jobs[n].user \in Users
      BY <1>1, <3>1, JobType, JobFields
    <3>4. QED
      BY <1>1, <3>1, <3>2, <3>3 DEF TypeOK
  <2>3. CASE Client
    BY <2>1, <2>3 DEF Client, Press, Submit, SubmitLost, Cancel, shared
  <2>4. CASE Worker
    BY <2>1, <2>2, <2>4 DEF Worker, Take, Handle, Refuse, BuildDialog, DialogOpened,
       DialogFails, LoadSubmission, AssignAnswers, FlushStarts, RedrawFails, Flush,
       EventFlushStarts, FlushEnds, FlushFails, WorkerCrash, WorkerRestart, shared
  <2>5. QED
    BY <2>3, <2>4
<1>6. ASSUME NEW n \in Submissions(s, u), jobs[n].stage \in ToRedraw, ~RedrawMessage(n)
      PROVE  jobs'[n].stage \in ToRedraw
  BY <1>2, <1>6, StoredIsRedrawn DEF Submissions
<1>7. ASSUME answers'[s][u] # answers[s][u]
      PROVE  \E n \in Submissions(s, u) : jobs[n].stage \in ToRedraw
  <2>1. /\ writing # <<>> /\ answers'[s][u] = writing[1][s][u]
        /\ answers'[s][u] # NoAnswer
    BY <1>1, <1>7, AnswersChange
  <2>2. Submitted(s, u, writing[1][s][u], {"assigned", "flushing", "dropped"})
    BY <2>1 DEF WorkerInv, UnsavedBacked
  <2>3. QED
    BY <2>2 DEF Submitted, Submissions, WorkerInv, NothingDropped, ToRedraw
<1>8. Submissions(s, u) \subseteq 1..MaxJobs
  <2>1. DOMAIN jobs = 1..Len(jobs) /\ Len(jobs) \in Nat /\ Len(jobs) <= MaxJobs
    BY <1>1 DEF TypeOK
  <2>2. DOMAIN jobs \subseteq 1..MaxJobs
    BY <2>1, WorkerAssumption
  <2>3. QED
    BY <2>2 DEF Submissions
<1>9. CASE \A n \in Submissions(s, u) : ~RedrawMessage(n)
  BY <1>3, <1>5, <1>6, <1>7, <1>9
<1>10. QED
  BY <1>3, <1>4, <1>8, <1>9

=============================================================================
