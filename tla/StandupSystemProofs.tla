------------------------ MODULE StandupSystemProofs ------------------------
(***************************************************************************)
(* Theorems about StandupSystem: notifier and interaction path, each put   *)
(* in the place of the environment that the other one assumes.             *)
(*                                                                         *)
(* What each is proved to keep up in its own module speaks of its own      *)
(* steps and of assumed ones.  Here the steps of the other are shown to be *)
(* among the assumed ones, from the invariants of both together; then      *)
(* every theorem of either holds of the two side by side.                  *)
(***************************************************************************)
EXTENDS StandupSystem, TLAPS

R == INSTANCE StandupReportProofs
H == INSTANCE StandupWorkerProofs

-----------------------------------------------------------------------------
(* The modules with the proofs extend the components' modules: what they   *)
(* define is the same under either name.                                   *)

(* The data of both components are those of the system.                    *)
LEMMA Assumed ==
  R!DataAssumption /\ R!NotifierAssumption /\ H!DataAssumption /\ H!WorkerAssumption
<1>1. R!NotifierAssumption
  BY SystemAssumption DEF N!NotifierAssumption, N!FaultKinds, R!NotifierAssumption,
     R!FaultKinds
<1>2. H!WorkerAssumption
  BY SystemAssumption DEF W!WorkerAssumption, W!WorkerFaultKinds, W!AvailableQueues,
     W!NoOption, W!EventsQueue, W!InteractiveQueue, H!WorkerAssumption,
     H!WorkerFaultKinds, H!AvailableQueues, H!NoOption, H!EventsQueue,
     H!InteractiveQueue
<1>3. QED
  BY <1>1, <1>2, DataAssumption DEF R!DataAssumption, H!DataAssumption

(* The notifier starts the same ...                                        *)
LEMMA SameNotifierInit == N!Init <=> R!Init
BY DEF N!Init, N!Standups, N!NoPrompt, N!NoGreetings, N!NothingRead, R!Init,
       R!Standups, R!NoPrompt, R!NoGreetings, R!NothingRead

(* ... its steps are the same ...                                          *)
LEMMA SameNotifierStep == (N!Notifier \/ N!Edit) <=> (R!Notifier \/ R!Edit)
BY DEF N!Notifier, N!Edit, N!Tick, N!Crash, N!Restart, N!StartStep, N!EndStep,
       N!EditDuration, N!store, N!slack, N!streams, N!Stop, N!startMem, N!endMem,
       N!Minutes, N!FindByStart, N!FindByStartFails, N!Standups, N!InsertStandup,
       N!InsertStandupFails, N!Greet, N!GreetingRejected, N!SaveRow, N!RowSaved,
       N!RowSaveFails, N!GreetingSent, N!GreetingFails, N!FindEnd, N!FindEndFails,
       N!ReportPosted, N!ReportFails, N!MessageLinked, N!MessageLinkFails,
       N!NoGreetings, N!NothingRead, N!Due, N!Refreshed, N!EndStart,
       N!StartMinute, N!Members, N!Asked, N!StandupMsg, N!Place, N!Ending,
       N!RowsRead, N!Answered, N!Team, R!Notifier, R!Edit, R!Tick, R!Crash,
       R!Restart, R!StartStep, R!EndStep, R!EditDuration, R!store, R!slack,
       R!streams, R!Stop, R!startMem, R!endMem, R!Minutes, R!FindByStart,
       R!FindByStartFails, R!Standups, R!InsertStandup, R!InsertStandupFails,
       R!Greet, R!GreetingRejected, R!SaveRow, R!RowSaved, R!RowSaveFails,
       R!GreetingSent, R!GreetingFails, R!FindEnd, R!FindEndFails, R!ReportPosted,
       R!ReportFails, R!MessageLinked, R!MessageLinkFails, R!NoGreetings,
       R!NothingRead, R!Due, R!Refreshed, R!EndStart, R!StartMinute, R!Members,
       R!Asked, R!StandupMsg, R!Place, R!Ending, R!RowsRead, R!Answered, R!Team

(* ... also together with those it assumes of the worker ...               *)
LEMMA SameNotifierNext == N!Next <=> R!Next
BY DEF N!Next, N!Notifier, N!Edit, N!Worker, N!Tick, N!Crash, N!Restart,
       N!StartStep, N!EndStep, N!EditDuration, N!Standups, N!MessageChecked,
       N!AnswersStored, N!store, N!slack, N!streams, N!Stop, N!startMem, N!endMem,
       N!Minutes, N!FindByStart, N!FindByStartFails, N!InsertStandup,
       N!InsertStandupFails, N!Greet, N!GreetingRejected, N!SaveRow, N!RowSaved,
       N!RowSaveFails, N!GreetingSent, N!GreetingFails, N!FindEnd, N!FindEndFails,
       N!ReportPosted, N!ReportFails, N!MessageLinked, N!MessageLinkFails,
       N!StandupMsg, N!NoGreetings, N!NothingRead, N!Due, N!Refreshed, N!EndStart,
       N!StartMinute, N!Members, N!Asked, N!Place, N!Ending, N!RowsRead,
       N!Answered, N!Team, N!Sheets, N!Written, R!Next, R!Notifier, R!Edit,
       R!Worker, R!Tick, R!Crash, R!Restart, R!StartStep, R!EndStep,
       R!EditDuration, R!Standups, R!MessageChecked, R!AnswersStored, R!store,
       R!slack, R!streams, R!Stop, R!startMem, R!endMem, R!Minutes, R!FindByStart,
       R!FindByStartFails, R!InsertStandup, R!InsertStandupFails, R!Greet,
       R!GreetingRejected, R!SaveRow, R!RowSaved, R!RowSaveFails, R!GreetingSent,
       R!GreetingFails, R!FindEnd, R!FindEndFails, R!ReportPosted, R!ReportFails,
       R!MessageLinked, R!MessageLinkFails, R!StandupMsg, R!NoGreetings,
       R!NothingRead, R!Due, R!Refreshed, R!EndStart, R!StartMinute, R!Members,
       R!Asked, R!Place, R!Ending, R!RowsRead, R!Answered, R!Team, R!Sheets,
       R!Written

(* ... and so is its state.                                                *)
LEMMA SameNotifierVars == UNCHANGED N!vars <=> UNCHANGED R!vars
BY DEF N!vars, N!store, N!slack, N!streams, N!startMem, N!endMem, R!vars, R!store,
       R!slack, R!streams, R!startMem, R!endMem

(* The interaction path starts the same ...                                *)
LEMMA SameInteractionInit == W!Init <=> H!Init
BY DEF W!Init, W!Standups, W!NoPrompt, W!NoDialog, W!EmptySheet, H!Init,
       H!Standups, H!NoPrompt, H!NoDialog, H!EmptySheet

(* ... its steps are the same ...                                          *)
LEMMA SameInteractionStep == (W!Client \/ W!Worker) <=> (H!Client \/ H!Worker)
BY DEF W!Client, W!Worker, W!Standups, W!Press, W!SubmitLost, W!Cancel, W!Submit,
       W!Take, W!Handle, W!WorkerCrash, W!WorkerRestart, W!HasButton, W!Enqueue,
       W!shared, W!NoDialog, W!InteractiveQueue, W!QueueNames, W!Advance, W!Refuse,
       W!BuildDialog, W!DialogOpened, W!DialogFails, W!LoadSubmission,
       W!RedrawMessage, W!RedrawFails, W!Over, W!NoOption, W!AvailableQueues, W!At,
       W!HasRow, W!Offers, W!StandupMsg, W!EventsQueue, W!AssignAnswers,
       W!FlushStarts, W!EventFlushStarts, W!AdvanceFlushing, W!FlushLands,
       W!FlushEnds, W!FlushFails, W!Flush, W!memory, W!EmptySheet, W!Written,
       H!Client, H!Worker, H!Standups, H!Press, H!SubmitLost, H!Cancel, H!Submit,
       H!Take, H!Handle, H!WorkerCrash, H!WorkerRestart, H!HasButton, H!Enqueue,
       H!shared, H!NoDialog, H!InteractiveQueue, H!QueueNames, H!Advance, H!Refuse,
       H!BuildDialog, H!DialogOpened, H!DialogFails, H!LoadSubmission,
       H!RedrawMessage, H!RedrawFails, H!Over, H!NoOption, H!AvailableQueues, H!At,
       H!HasRow, H!Offers, H!StandupMsg, H!EventsQueue, H!AssignAnswers,
       H!FlushStarts, H!EventFlushStarts, H!AdvanceFlushing, H!FlushLands,
       H!FlushEnds, H!FlushFails, H!Flush, H!memory, H!EmptySheet, H!Written

(* ... also together with those it assumes of the notifier ...             *)
LEMMA SameInteractionNext == W!Next <=> H!Next
BY DEF W!Next, W!Client, W!Worker, W!Notifier, W!Standups, W!Press, W!SubmitLost,
       W!Cancel, W!Submit, W!Take, W!Handle, W!WorkerCrash, W!WorkerRestart,
       W!Tick, W!Created, W!Greeted, W!RowSaved, W!Linked, W!HasButton, W!Enqueue,
       W!shared, W!NoDialog, W!InteractiveQueue, W!QueueNames, W!Advance, W!Refuse,
       W!BuildDialog, W!DialogOpened, W!DialogFails, W!LoadSubmission,
       W!RedrawMessage, W!RedrawFails, W!Over, W!StartMinute, W!Members,
       W!StandupMsg, W!NoOption, W!AvailableQueues, W!At, W!HasRow, W!Offers,
       W!Asked, W!EventsQueue, W!Team, W!AssignAnswers, W!FlushStarts,
       W!EventFlushStarts, W!AdvanceFlushing, W!FlushLands, W!FlushEnds,
       W!FlushFails, W!Flush, W!memory, W!EmptySheet, W!Written, H!Next, H!Client,
       H!Worker, H!Notifier, H!Standups, H!Press, H!SubmitLost, H!Cancel, H!Submit,
       H!Take, H!Handle, H!WorkerCrash, H!WorkerRestart, H!Tick, H!Created,
       H!Greeted, H!RowSaved, H!Linked, H!HasButton, H!Enqueue, H!shared,
       H!NoDialog, H!InteractiveQueue, H!QueueNames, H!Advance, H!Refuse,
       H!BuildDialog, H!DialogOpened, H!DialogFails, H!LoadSubmission,
       H!RedrawMessage, H!RedrawFails, H!Over, H!StartMinute, H!Members,
       H!StandupMsg, H!NoOption, H!AvailableQueues, H!At, H!HasRow, H!Offers,
       H!Asked, H!EventsQueue, H!Team, H!AssignAnswers, H!FlushStarts,
       H!EventFlushStarts, H!AdvanceFlushing, H!FlushLands, H!FlushEnds,
       H!FlushFails, H!Flush, H!memory, H!EmptySheet, H!Written

(* ... and so is its state.                                                *)
LEMMA SameInteractionVars == UNCHANGED W!vars <=> UNCHANGED H!vars
BY DEF W!vars, W!shared, W!memory, H!vars, H!shared, H!memory

(* A step of the system is one of the notifier's or one of the interaction *)
(* path's, and the other's own variables stay.                             *)
LEMMA SystemStep ==
  ASSUME [Next]_vars
  PROVE  \/ (R!Notifier \/ R!Edit) /\ UNCHANGED workerOnly
         \/ (H!Client \/ H!Worker) /\ UNCHANGED notifierOnly
         \/ UNCHANGED vars
BY SameNotifierStep, SameInteractionStep DEF Next, NotifierStep, InteractionStep

(* The invariants of the two.                                              *)
SystemInv == R!NotifierInv /\ H!WorkerInv

-----------------------------------------------------------------------------
(* The interaction path does what StandupNotifier's Worker allows.         *)

(* Steps of the interaction path that leave what it shares alone.          *)
LEMMA SharedKept ==
  ASSUME UNCHANGED H!shared, UNCHANGED notifierOnly
  PROVE  UNCHANGED R!vars
BY DEF H!shared, notifierOnly, R!vars, R!store, R!slack, R!streams, R!startMem, R!endMem

(* A flush writes answers of users with a row: the jobs behind it say so.  *)
LEMMA FlushIsAssumed ==
  ASSUME H!WorkerInv, writing # <<>>, answers' = H!Written(answers, writing[1]),
         UNCHANGED <<now, created, endAt, rows, message>>, UNCHANGED notifierOnly
  PROVE  R!Next
<1>1. PICK sheet : sheet = writing[1]
  OBVIOUS
<1>2. sheet \in R!Sheets
  BY <1>1, H!WritingType, Assumed DEF H!WorkerInv, H!Sheets, R!Sheets, H!Standups, R!Standups
<1>3. ASSUME NEW s \in R!Standups, NEW u \in Users, sheet[s][u] # NoAnswer
      PROVE  u \in rows[s]
  <2>1. s \in H!Standups
    BY DEF R!Standups, H!Standups
  <2>2. H!Submitted(s, u, writing[1][s][u], {"assigned", "flushing", "dropped"})
    BY <1>1, <1>3, <2>1 DEF H!WorkerInv, H!UnsavedBacked
  <2>3. QED
    BY <2>2 DEF H!Submitted, H!WorkerInv, H!JobsBacked, H!JobBacked
<1>4. answers' = R!Written(answers, sheet)
  BY <1>1 DEF H!Written, R!Written, H!Standups, R!Standups
<1>5. R!AnswersStored(sheet)
  BY <1>3, <1>4 DEF notifierOnly, R!AnswersStored, R!slack, R!streams, R!startMem, R!endMem
<1>6. QED
  BY <1>2, <1>5 DEF R!Next, R!Worker

(* A message is redrawn only once answers of its user are stored.          *)
LEMMA RedrawMessageIsAssumed ==
  ASSUME H!WorkerInv, NEW n \in 1..MaxJobs, H!RedrawMessage(n), UNCHANGED notifierOnly
  PROVE  R!Next
<1>1. n \in DOMAIN jobs /\ jobs[n] \in H!Jobs
  BY H!JobType, Assumed DEF H!RedrawMessage, H!At, H!WorkerInv, H!TypeOK
<1>2. PICK s \in H!Standups, u \in Users : s = jobs[n].standup /\ u = jobs[n].user
  BY <1>1 DEF H!Jobs
<1>3. answers[s][u] # NoAnswer
  BY <1>1, <1>2 DEF H!RedrawMessage, H!At, H!WorkerInv, H!JobsBacked, H!JobBacked
<1>4. R!MessageChecked(s, u)
  BY <1>2, <1>3 DEF H!RedrawMessage, notifierOnly, R!MessageChecked, R!store, R!streams,
     R!startMem, R!endMem, R!StandupMsg, H!StandupMsg
<1>5. QED
  BY <1>2, <1>4 DEF R!Next, R!Worker, R!Standups, H!Standups

(* Whatever the interaction path does, the notifier is prepared for.       *)
LEMMA InteractionIsAssumed ==
  ASSUME H!WorkerInv, H!Client \/ H!Worker, UNCHANGED notifierOnly
  PROVE  [R!Next]_(R!vars)
<1>1. CASE H!Client
  BY <1>1, SharedKept DEF H!Client, H!Press, H!Submit, H!SubmitLost, H!Cancel
<1>2. CASE H!Flush \/ H!WorkerCrash
  <2>1. \/ UNCHANGED H!shared
        \/ /\ writing # <<>> /\ answers' = H!Written(answers, writing[1])
           /\ UNCHANGED <<now, created, endAt, rows, message>>
    BY <1>2 DEF H!Flush, H!EventFlushStarts, H!FlushEnds, H!FlushFails, H!FlushLands,
       H!WorkerCrash, H!shared
  <2>2. QED
    BY <2>1, SharedKept, FlushIsAssumed
<1>3. ASSUME NEW n \in 1..MaxJobs, H!Take(n) \/ H!Handle(n)
      PROVE  [R!Next]_(R!vars)
  <2>1. CASE \/ H!Take(n) \/ H!Refuse(n) \/ H!BuildDialog(n) \/ H!DialogOpened(n)
             \/ H!DialogFails(n) \/ H!LoadSubmission(n) \/ H!AssignAnswers(n)
             \/ H!FlushStarts(n) \/ H!RedrawFails(n)
    BY <2>1, SharedKept DEF H!Take, H!Refuse, H!BuildDialog, H!DialogOpened,
       H!DialogFails, H!LoadSubmission, H!AssignAnswers, H!FlushStarts, H!RedrawFails
  <2>2. QED
    BY <1>3, <2>1, RedrawMessageIsAssumed DEF H!Handle
<1>4. CASE H!WorkerRestart
  BY <1>4, SharedKept DEF H!WorkerRestart
<1>5. QED
  BY <1>1, <1>2, <1>3, <1>4 DEF H!Worker

-----------------------------------------------------------------------------
(* The notifier does what StandupWorker's Notifier allows.                 *)

(* Steps of the notifier that leave what it shares alone.                  *)
LEMMA UnsharedKept ==
  ASSUME UNCHANGED <<now, created, endAt, rows, answers, message>>, UNCHANGED workerOnly
  PROVE  UNCHANGED H!vars
BY DEF workerOnly, H!vars, H!shared, H!memory

(* The prompts of both components are the same.                            *)
LEMMA SamePrompts ==
  /\ R!Standups = H!Standups
  /\ \A s \in R!Standups : R!Members(s) = H!Members(s) /\ R!StartMinute(s) = H!StartMinute(s)
  /\ \A c \in BOOLEAN, l \in BOOLEAN : R!StandupMsg(c, l) = H!StandupMsg(c, l)
BY DEF R!Standups, H!Standups, R!Members, H!Members, R!Asked, H!Asked, R!Team, H!Team,
   R!StartMinute, H!StartMinute, R!StandupMsg, H!StandupMsg

(* A standup is created once its start minute has come, with a duration.   *)
LEMMA InsertStandupIsAssumed ==
  ASSUME R!NotifierInv, NEW s \in R!Standups, R!InsertStandup(s), UNCHANGED workerOnly
  PROVE  H!Next
<1>1. /\ s \notin created /\ loaded[s] \in Durations
      /\ created' = created \union {s}
      /\ endAt' = [endAt EXCEPT ![s] = R!StartMinute(s) + loaded[s]]
      /\ UNCHANGED <<now, rows, answers, message>>
  BY DEF R!InsertStandup, R!NotifierInv, R!StartedOnce, R!LoadedFromTeam, R!slack
<1>2. ~(R!StartMinute(s) > now)
  BY DEF R!InsertStandup, R!NotifierInv, R!StartedOnce
<1>3. R!StartMinute(s) <= now
  <2>1. s[2] \in Int
    BY DataAssumption DEF R!Standups
  <2>2. now \in Int
    BY DataAssumption DEF R!NotifierInv, R!TypeOK, R!Minutes
  <2>3. QED
    BY <1>2, <2>1, <2>2 DEF R!StartMinute
<1>4. H!Created(s, loaded[s])
  BY <1>1, <1>3, SamePrompts DEF H!Created, workerOnly, H!memory
<1>5. QED
  BY <1>1, <1>4, SamePrompts DEF H!Next, H!Notifier

(* A greeting that lands is the first message its user gets.               *)
LEMMA GreetingIsAssumed ==
  ASSUME R!NotifierInv, NEW s \in R!Standups, NEW u \in Users, greeting[s][u] = "sending",
         message' = [message EXCEPT ![s][u] = R!StandupMsg(FALSE, FALSE)],
         UNCHANGED <<now, created, endAt, rows, answers>>, UNCHANGED workerOnly
  PROVE  H!Next
<1>1. s \in created /\ u \in R!Members(s) /\ ~message[s][u].sent
  BY DEF R!NotifierInv, R!GreetedOnce
<1>2. H!Greeted(s, u)
  BY <1>1, SamePrompts DEF H!Greeted, workerOnly, H!memory
<1>3. QED
  BY <1>2, SamePrompts DEF H!Next, H!Notifier

(* A row is saved for a user whose greeting has been sent.                 *)
LEMMA RowSavedIsAssumed ==
  ASSUME R!NotifierInv, NEW s \in R!Standups, R!RowSaved(s), UNCHANGED workerOnly
  PROVE  H!Next
<1>1. PICK u : u = R!Asked(s)[cursor[s]]
  OBVIOUS
<1>2. u \in Users /\ message[s][u].sent
  <2>1. greeting[s][u] = "sent"
    BY <1>1 DEF R!RowSaved, R!NotifierInv, R!SavedInOrder
  <2>2. u \in Users
    BY <1>1, R!SavedUserType, Assumed DEF R!RowSaved, R!NotifierInv
  <2>3. QED
    BY <2>1, <2>2 DEF R!NotifierInv, R!SavedInOrder
<1>3. H!RowSaved(s, u)
  BY <1>1, <1>2 DEF R!RowSaved, R!slack, H!RowSaved, workerOnly, H!memory
<1>4. QED
  BY <1>2, <1>3, SamePrompts DEF H!Next, H!Notifier

(* A link comes after the end, over a message that is there, with a check  *)
(* mark only for answers that are stored.                                  *)
LEMMA MessageLinkedIsAssumed ==
  ASSUME R!NotifierInv, NEW s \in R!Standups, NEW u \in Users, R!MessageLinked(s, u),
         UNCHANGED workerOnly
  PROVE  H!Next
<1>1. s \in created /\ endAt[s] <= now /\ message[s][u].sent
  <2>1. report[s] # <<>>
    BY DEF R!MessageLinked, R!NotifierInv, R!ReportedOnce
  <2>2. QED
    BY <2>1 DEF R!MessageLinked, R!NotifierInv, R!ReportedOnce, R!AskedBefore
<1>2. PICK c \in BOOLEAN : c = R!Answered(reading[s], u)
  BY DEF R!Answered
<1>3. c => answers[s][u] # NoAnswer
  BY <1>2 DEF R!Answered, R!NotifierInv, R!ReadFromStore
<1>4. H!Linked(s, u)
  BY <1>1, <1>2, <1>3, SamePrompts DEF R!MessageLinked, R!store, H!Linked, workerOnly, H!memory
<1>5. QED
  BY <1>4, SamePrompts DEF H!Next, H!Notifier

(* Whatever the notifier and the API do, the interaction path is prepared  *)
(* for.                                                                    *)
LEMMA NotifierIsAssumed ==
  ASSUME R!NotifierInv, R!Notifier \/ R!Edit, UNCHANGED workerOnly
  PROVE  [H!Next]_(H!vars)
<1> USE DEF R!store, R!slack, R!streams, R!startMem, R!endMem
<1>1. CASE R!Tick
  <2>1. H!Tick
    BY <1>1 DEF R!Tick, H!Tick, workerOnly, H!memory
  <2>2. QED
    BY <2>1 DEF H!Next, H!Notifier
<1>2. CASE R!Crash \/ R!Restart
  BY <1>2, UnsharedKept DEF R!Crash, R!Stop, R!Restart
<1>3. ASSUME NEW d \in R!Minutes,
             \/ R!FindByStart(d) \/ R!FindByStartFails(d) \/ R!FindEnd(d) \/ R!FindEndFails(d)
      PROVE  [H!Next]_(H!vars)
  BY <1>3, UnsharedKept DEF R!FindByStart, R!FindByStartFails, R!FindEnd, R!FindEndFails
<1>4. ASSUME NEW s \in R!Standups,
             \/ R!InsertStandupFails(s) \/ R!Greet(s) \/ R!GreetingRejected(s)
             \/ R!SaveRow(s) \/ R!RowSaveFails(s) \/ R!ReportPosted(s) \/ R!ReportFails(s)
      PROVE  [H!Next]_(H!vars)
  BY <1>4, UnsharedKept DEF R!InsertStandupFails, R!Greet, R!GreetingRejected, R!SaveRow,
     R!RowSaveFails, R!ReportPosted, R!ReportFails
<1>5. ASSUME NEW s \in R!Standups, R!InsertStandup(s) \/ R!RowSaved(s)
      PROVE  [H!Next]_(H!vars)
  BY <1>5, InsertStandupIsAssumed, RowSavedIsAssumed
<1>6. ASSUME NEW s \in R!Standups, NEW u \in Users, R!GreetingSent(s, u)
      PROVE  [H!Next]_(H!vars)
  BY <1>6, GreetingIsAssumed DEF R!GreetingSent
<1>7. ASSUME NEW s \in R!Standups, NEW u \in Users, R!GreetingFails(s, u)
      PROVE  [H!Next]_(H!vars)
  <2>1. /\ greeting[s][u] = "sending"
        /\ UNCHANGED <<now, created, endAt, rows, answers>>
    BY <1>7 DEF R!GreetingFails, R!Stop
  <2>2. CASE UNCHANGED message
    BY <2>1, <2>2, UnsharedKept
  <2>3. CASE message' = [message EXCEPT ![s][u] = R!StandupMsg(FALSE, FALSE)]
    BY <2>1, <2>3, GreetingIsAssumed
  <2>4. QED
    BY <1>7, <2>2, <2>3 DEF R!GreetingFails
<1>8. ASSUME NEW s \in R!Standups, NEW u \in Users,
             R!MessageLinked(s, u) \/ R!MessageLinkFails(s, u)
      PROVE  [H!Next]_(H!vars)
  BY <1>8, UnsharedKept, MessageLinkedIsAssumed DEF R!MessageLinkFails
<1>9. CASE R!Edit
  BY <1>9, UnsharedKept DEF R!Edit, R!EditDuration
<1>10. QED
  BY <1>1, <1>2, <1>3, <1>4, <1>5, <1>6, <1>7, <1>8, <1>9
     DEF R!Notifier, R!StartStep, R!EndStep

-----------------------------------------------------------------------------
(* The two together.                                                       *)

(* A step of the system is one of the notifier with the worker it assumes, *)
(* and one of the interaction path with the notifier it assumes.           *)
LEMMA SystemMaps ==
  ASSUME SystemInv, [Next]_vars
  PROVE  [R!Next]_(R!vars) /\ [H!Next]_(H!vars)
<1>1. CASE (R!Notifier \/ R!Edit) /\ UNCHANGED workerOnly
  BY <1>1, NotifierIsAssumed DEF SystemInv, R!Next
<1>2. CASE (H!Client \/ H!Worker) /\ UNCHANGED notifierOnly
  BY <1>2, InteractionIsAssumed DEF SystemInv, H!Next
<1>3. CASE UNCHANGED vars
  BY <1>3, SharedKept, UnsharedKept DEF vars, H!shared
<1>4. QED
  BY <1>1, <1>2, <1>3, SystemStep

(* Both start with what they keep up.                                      *)
LEMMA InitSystemInv == Init => SystemInv
<1> SUFFICES ASSUME Init
             PROVE  SystemInv
  OBVIOUS
<1>1. R!Init /\ H!Init
  BY SameNotifierInit, SameInteractionInit DEF Init
<1>2. R!NotifierInv
  BY <1>1, R!InitNotifierInv, Assumed
<1>3. H!WorkerInv
  BY <1>1, H!InitWorkerInv, Assumed
<1>4. QED
  BY <1>2, <1>3 DEF SystemInv

(* Each keeps it up as long as the other does.                             *)
LEMMA SystemInvStep == SystemInv /\ [Next]_vars => SystemInv'
<1> SUFFICES ASSUME SystemInv, [Next]_vars
             PROVE  SystemInv'
  OBVIOUS
<1>1. [R!Next]_(R!vars) /\ [H!Next]_(H!vars)
  BY SystemMaps
<1>2. R!NotifierInv'
  BY <1>1, R!NotifierInvStep, Assumed DEF SystemInv
<1>3. H!WorkerInv'
  BY <1>1, H!WorkerInvStep, Assumed DEF SystemInv
<1>4. QED
  BY <1>2, <1>3 DEF SystemInv

(* The invariants of both modules hold of the two side by side.            *)
THEOREM SystemInvariant == Spec => []SystemInv
BY InitSystemInv, SystemInvStep, PTL DEF Spec

(* The system is a notifier whose worker does what it assumes ...          *)
LEMMA SystemIsNotifier == Spec => R!Spec
<1>1. Init => R!Init
  BY SameNotifierInit DEF Init
<1>2. SystemInv /\ [Next]_vars => [R!Next]_(R!vars)
  BY SystemMaps
<1>3. QED
  BY <1>1, <1>2, SystemInvariant, PTL DEF Spec, R!Spec

(* ... and an interaction path whose notifier does what it assumes.        *)
LEMMA SystemIsInteraction == Spec => H!Spec
<1>1. Init => H!Init
  BY SameInteractionInit DEF Init
<1>2. SystemInv /\ [Next]_vars => [H!Next]_(H!vars)
  BY SystemMaps
<1>3. QED
  BY <1>1, <1>2, SystemInvariant, PTL DEF Spec, H!Spec

(* The interaction path only does what StandupNotifier's Worker allows, so *)
(* every theorem about StandupNotifier is one about the system.            *)
THEOREM WorkerIsAsAssumedHolds == Spec => WorkerIsAsAssumed
<1>1. [R!Next]_(R!vars) => [N!Next]_(N!vars)
  BY SameNotifierNext, SameNotifierVars
<1>2. QED
  BY <1>1, SystemIsNotifier, SameNotifierInit, PTL DEF WorkerIsAsAssumed, N!Spec, R!Spec

(* The notifier only does what StandupWorker's Notifier allows, so every   *)
(* theorem about StandupWorker is one about the system.                    *)
THEOREM NotifierIsAsAssumedHolds == Spec => NotifierIsAsAssumed
<1>1. [H!Next]_(H!vars) => [W!Next]_(W!vars)
  BY SameInteractionNext, SameInteractionVars
<1>2. QED
  BY <1>1, SystemIsInteraction, SameInteractionInit, PTL
     DEF NotifierIsAsAssumed, W!Spec, H!Spec

(* The promise is the same under either name.                              *)
LEMMA SamePromise == /\ Daily!Init <=> R!Daily!Init
                     /\ Daily!Next <=> R!Daily!Next
                     /\ UNCHANGED Daily!vars <=> UNCHANGED R!Daily!vars
<1>1. Daily!Init <=> R!Daily!Init
  BY DEF Daily!Init, Daily!Standups, R!Daily!Init, R!Daily!Standups, Standups,
       R!Standups
<1>2. Daily!Next <=> R!Daily!Next
  BY DEF Daily!Next, Daily!Pass, Daily!Standups, Daily!Open, Daily!Publish,
       Daily!Ask, Daily!Tell, Daily!Cut, Daily!GiveUp, Daily!StartMinute,
       Daily!Members, Daily!Asked, Daily!Team, Daily!Sheets, Daily!Written, R!Daily!Next, R!Daily!Pass,
       R!Daily!Standups, R!Daily!Open, R!Daily!Publish, R!Daily!Ask,
       R!Daily!Tell, R!Daily!Cut, R!Daily!GiveUp, R!Daily!StartMinute,
       R!Daily!Members, R!Daily!Asked, R!Daily!Team, R!Daily!Sheets, R!Daily!Written,
       Standups, R!Standups
<1>3. UNCHANGED Daily!vars <=> UNCHANGED R!Daily!vars
  BY DEF Daily!vars, R!Daily!vars, Standups, R!Standups
<1>4. QED
  BY <1>1, <1>2, <1>3

(* Notifier, queue and worker together publish at most one report of a     *)
(* standup, a consistent cut not older than its end, through crashes,      *)
(* failures and any interleaving of their steps.                           *)
THEOREM ImplementsDailyHolds == Spec => ImplementsDaily
<1>1. [R!Daily!Next]_(R!Daily!vars) => [Daily!Next]_(Daily!vars)
  BY SamePromise
<1>2. R!Spec => R!Daily!Spec
  BY R!NotifierImplementsDaily, Assumed
<1>3. QED
  BY <1>1, <1>2, SamePromise, SystemIsNotifier, PTL
     DEF ImplementsDaily, Daily!Spec, R!Daily!Spec

(* What the handlers of the interaction path store before the end of a     *)
(* standup is in its report.                                               *)
THEOREM InTimeIsReportedHolds == Spec => InTimeIsReported
<1>1. R!Spec => R!InTimeIsReported
  BY R!InTimeIsReportedHolds, Assumed
<1>2. R!InTimeIsReported => InTimeIsReported
  BY DEF InTimeIsReported, N!InTimeIsReported, R!InTimeIsReported, N!Standups, R!Standups
<1>3. QED
  BY <1>1, <1>2, SystemIsNotifier, PTL

(* A standup that missed its end tick stays without a report, whatever the *)
(* users submit later.                                                     *)
THEOREM MissedForGoodHolds == Spec => MissedForGood
<1>1. R!Spec => R!MissedForGood
  BY R!MissedForGoodHolds, Assumed
<1>2. R!MissedForGood => MissedForGood
  BY DEF MissedForGood, N!MissedForGood, R!MissedForGood, N!Standups, R!Standups
<1>3. QED
  BY <1>1, <1>2, SystemIsNotifier, PTL

-----------------------------------------------------------------------------
(* The message both of them redraw.                                        *)

(* A redraw of the worker is of the message of a submission that has been  *)
(* stored, from a dialog built before the end.                             *)
LEMMA RedrawnBySubmission ==
  ASSUME H!WorkerInv, NEW n \in 1..MaxJobs, H!RedrawMessage(n)
  PROVE  \E s \in H!Standups, u \in Users :
           /\ n \in W!Submissions(s, u)
           /\ message' = [message EXCEPT ![s][u] = H!StandupMsg(TRUE, FALSE)]
           /\ jobs[n].born <= endAt[s] /\ answers[s][u] # NoAnswer
           /\ jobs'[n].stage = "done"
<1>1. n \in DOMAIN jobs /\ jobs[n] \in H!Jobs
  BY H!JobType, Assumed DEF H!RedrawMessage, H!At, H!WorkerInv, H!TypeOK
<1>2. PICK s \in H!Standups, u \in Users : s = jobs[n].standup /\ u = jobs[n].user
  BY <1>1 DEF H!Jobs
<1>3. answers[s][u] # NoAnswer /\ jobs[n].born <= endAt[s] /\ jobs[n].kind = "submit"
  BY <1>1, <1>2 DEF H!RedrawMessage, H!At, H!WorkerInv, H!JobsBacked, H!JobBacked
<1>4. jobs'[n].stage = "done"
  BY <1>1, H!AdvanceMoves, Assumed
     DEF H!RedrawMessage, H!WorkerInv, H!Stages, H!Moved, H!Restaged
<1>5. n \in W!Submissions(s, u)
  BY <1>1, <1>2, <1>3 DEF W!Submissions
<1>6. QED
  BY <1>2, <1>3, <1>4, <1>5 DEF H!RedrawMessage

(* A message loses its link only to a submission whose dialog was built    *)
(* before the standup's end and whose answers are stored: never to a       *)
(* greeting that lands late, to another user's submission, or to a dialog  *)
(* opened after the report.                                                *)
THEOREM LinkLostToSubmissionHolds == Spec => LinkLostToSubmission
<1> DEFINE Lost(s, u) == message[s][u].link /\ ~message'[s][u].link
           ToSubmission(s, u) ==
             \E n \in W!Submissions(s, u) :
               /\ jobs[n].born <= endAt[s] /\ answers[s][u] # NoAnswer
               /\ jobs'[n].stage = "done"
<1>1. SystemInv /\ R!LinksAreSent /\ [Next]_vars =>
        [\A s \in Standups, u \in Users :
           message[s][u].link /\ ~message'[s][u].link =>
             \E n \in W!Submissions(s, u) :
               /\ jobs[n].born <= endAt[s]
               /\ answers[s][u] # NoAnswer
               /\ jobs'[n].stage = "done"]_vars
  <2> SUFFICES ASSUME SystemInv, R!LinksAreSent, [Next]_vars,
                      NEW s \in Standups, NEW u \in Users, Lost(s, u)
               PROVE  ToSubmission(s, u)
    OBVIOUS
  <2>1. /\ Standups = R!Standups /\ Standups = H!Standups
        /\ R!TypeOK /\ R!GreetedOnce
    BY DEF Standups, R!Standups, H!Standups, SystemInv, R!NotifierInv
  <2>2. CASE UNCHANGED message
    BY <2>2
  <2>3. CASE R!Notifier \/ R!Edit
    BY <2>1, <2>3, R!NotifierKeepsLinks, Assumed
  <2>4. ASSUME NEW n \in 1..MaxJobs, H!RedrawMessage(n)
        PROVE  ToSubmission(s, u)
    <3>1. PICK r \in H!Standups, v \in Users :
            /\ n \in W!Submissions(r, v)
            /\ message' = [message EXCEPT ![r][v] = H!StandupMsg(TRUE, FALSE)]
            /\ jobs[n].born <= endAt[r] /\ answers[r][v] # NoAnswer
            /\ jobs'[n].stage = "done"
      BY <2>4, RedrawnBySubmission DEF SystemInv
    <3>2. r = s /\ v = u
      BY <2>1, <3>1 DEF R!TypeOK
    <3>3. QED
      BY <3>1, <3>2
  <2>5. CASE H!Client \/ H!Worker
    <3>1. ASSUME NEW n \in 1..MaxJobs, ~H!RedrawMessage(n), H!Take(n) \/ H!Handle(n)
          PROVE  UNCHANGED message
      BY <3>1 DEF H!Take, H!Handle, H!Refuse, H!BuildDialog, H!DialogOpened, H!DialogFails,
         H!LoadSubmission, H!AssignAnswers, H!FlushStarts, H!RedrawFails, H!shared
    <3>2. CASE H!Client
      BY <2>2, <3>2 DEF H!Client, H!Press, H!Submit, H!SubmitLost, H!Cancel, H!shared
    <3>3. QED
      BY <2>2, <2>4, <2>5, <3>1, <3>2 DEF H!Worker, H!Flush, H!EventFlushStarts,
         H!FlushEnds, H!FlushFails, H!WorkerCrash, H!WorkerRestart, H!shared
  <2>6. QED
    BY <2>2, <2>3, <2>5, SystemStep DEF vars
<1>2. R!Spec => []R!LinksAreSent
  BY R!LinksAreSentInvariant, Assumed
<1>3. QED
  BY <1>1, <1>2, SystemIsNotifier, SystemInvariant, PTL DEF Spec, LinkLostToSubmission

-----------------------------------------------------------------------------
(* The message both of them redraw, when nothing fails.                    *)

(* All the prompt of a user and standup may still be owed.                 *)
Owed(s, u) ==
  /\ Listed(s, u) /\ W!Submissions(s, u) = {} => u \in linking[s] \/ message[s][u].link
  /\ answers[s][u] # NoAnswer =>
       \/ \E n \in W!Submissions(s, u) : jobs[n].stage \in H!ToRedraw
       \/ message[s][u].check
       \/ message[s][u].link /\ ~ReportedAnswer(s, u)

(* What a message is drawn with is what it shows.                          *)
LEMMA Drawn ==
  ASSUME NEW c \in BOOLEAN, NEW l \in BOOLEAN
  PROVE  R!StandupMsg(c, l).check = c /\ R!StandupMsg(c, l).link = l
         /\ H!StandupMsg(c, l).check = c /\ H!StandupMsg(c, l).link = l
BY DEF R!StandupMsg, H!StandupMsg

(* The notifier draws a link and the check mark of the report it posted;   *)
(* it posts before anybody has a link.                                     *)
LEMMA NotifierOwes ==
  ASSUME SystemInv, R!LinksAreSent, R!LinkAgreesWithReport, Faults = {},
         R!Notifier \/ R!Edit, UNCHANGED workerOnly,
         NEW s \in R!Standups, NEW u \in Users, Owed(s, u)
  PROVE  Owed(s, u)'
<1>1. R!TypeOK /\ R!GreetedOnce /\ R!ReportedOnce
  BY DEF SystemInv, R!NotifierInv
<1>2. UNCHANGED answers /\ UNCHANGED jobs /\ W!Submissions(s, u)' = W!Submissions(s, u)
  BY <1>1, R!CalmNotifierStep, Assumed DEF workerOnly, W!Submissions
<1>3. answers[s][u] # NoAnswer => message[s][u].sent
  BY DEF SystemInv, R!NotifierInv, R!AskedBefore, R!RowsFollowRoster
<1>4. CASE /\ message'[s][u] = message[s][u] \/ ~message[s][u].sent
           /\ report'[s] = report[s]
           /\ u \in linking[s] => u \in linking'[s]
  BY <1>2, <1>3, <1>4 DEF Owed, Listed, ReportedAnswer, R!LinksAreSent
<1>5. CASE R!MessageLinked(s, u)
  <2>1. PICK c \in BOOLEAN : c = R!Answered(reading[s], u)
    BY DEF R!Answered
  <2>2. message'[s][u] = R!StandupMsg(c, TRUE)
    BY <1>1, <1>5, <2>1 DEF R!MessageLinked, R!TypeOK
  <2>3. message'[s][u].check = c /\ message'[s][u].link
    BY <2>2, Drawn
  <2>4. report'[s] = <<reading[s]>>
    BY <1>1, <1>5 DEF R!MessageLinked, R!ReportedOnce
  <2>5. ReportedAnswer(s, u)' <=> N!Answered(reading[s], u)
    <3>1. ReportedAnswer(s, u)'
            <=> \E i \in DOMAIN report'[s] :
                  u \in DOMAIN report'[s][i] /\ report'[s][i][u] # NoAnswer
      BY DEF ReportedAnswer, N!Answered
    <3>2. DOMAIN report'[s] = {1} /\ report'[s][1] = reading[s]
      BY <2>4
    <3>3. QED
      BY <3>1, <3>2 DEF N!Answered
  <2>6. ReportedAnswer(s, u)' => message'[s][u].check
    BY <2>1, <2>3, <2>5 DEF N!Answered, R!Answered
  <2>7. QED
    BY <2>3, <2>6 DEF Owed
<1>6. CASE R!ReportPosted(s)
  <2>1. report[s] = <<>>
    BY <1>1, <1>6 DEF R!ReportPosted, R!ReportedOnce
  <2>2. report'[s] = <<reading[s]>>
    BY <1>1, <1>6, <2>1 DEF R!ReportPosted, R!TypeOK
  <2>3. DOMAIN reading[s] \subseteq linking'[s] /\ UNCHANGED message
    BY <1>1, <1>6 DEF R!ReportPosted, R!TypeOK
  <2>4. ~message[s][u].link
    BY <2>1 DEF R!LinkAgreesWithReport
  <2>5. Listed(s, u)' => u \in linking'[s]
    BY <2>2, <2>3 DEF Listed
  <2>6. QED
    BY <1>2, <2>3, <2>4, <2>5 DEF Owed
<1>7. QED
  BY <1>1, <1>4, <1>5, <1>6, R!CalmNotifierStep, Assumed

(* The interaction path draws check marks of what it has stored.           *)
LEMMA InteractionOwes ==
  ASSUME SystemInv, WorkerFaults = {}, H!Client \/ H!Worker, UNCHANGED notifierOnly,
         NEW s \in R!Standups, NEW u \in Users, Owed(s, u)
  PROVE  Owed(s, u)'
<1>1. H!WorkerInv /\ s \in H!Standups
  BY DEF SystemInv, R!Standups, H!Standups
<1>2. /\ \A n \in W!Submissions(s, u) :
           /\ n \in DOMAIN jobs' /\ jobs'[n].kind = "submit"
           /\ jobs'[n].standup = s /\ jobs'[n].user = u
      /\ \/ \E n \in W!Submissions(s, u) : message'[s][u] = H!StandupMsg(TRUE, FALSE)
         \/ /\ message'[s][u] = message[s][u]
            /\ \A n \in W!Submissions(s, u) :
                 jobs[n].stage \in H!ToRedraw => jobs'[n].stage \in H!ToRedraw
            /\ \/ answers'[s][u] = answers[s][u]
               \/ \E n \in W!Submissions(s, u) : jobs'[n].stage \in H!ToRedraw
  <2>1. W!Submissions(s, u) = H!Submissions(s, u)
    BY DEF W!Submissions, H!Submissions
  <2>2. /\ \A n \in H!Submissions(s, u) :
             /\ n \in DOMAIN jobs' /\ jobs'[n].kind = "submit"
             /\ jobs'[n].standup = s /\ jobs'[n].user = u
        /\ \/ \E n \in H!Submissions(s, u) : message'[s][u] = H!StandupMsg(TRUE, FALSE)
           \/ /\ message'[s][u] = message[s][u]
              /\ \A n \in H!Submissions(s, u) :
                   jobs[n].stage \in H!ToRedraw => jobs'[n].stage \in H!ToRedraw
              /\ \/ answers'[s][u] = answers[s][u]
                 \/ \E n \in H!Submissions(s, u) : jobs'[n].stage \in H!ToRedraw
    BY <1>1, H!CalmInteractionStep, Assumed, ZenonT(60)
  <2>3. QED
    BY <2>1, <2>2, Zenon
<1>3. UNCHANGED <<report, linking>>
  BY DEF notifierOnly
<1>4. W!Submissions(s, u) \subseteq W!Submissions(s, u)'
  BY <1>2 DEF W!Submissions
<1>5. CASE \E n \in W!Submissions(s, u) : message'[s][u] = H!StandupMsg(TRUE, FALSE)
  <2>1. W!Submissions(s, u)' # {}
    BY <1>4, <1>5
  <2>2. message'[s][u].check
    BY <1>5, Drawn
  <2>3. QED
    BY <2>1, <2>2 DEF Owed
<1>6. CASE /\ message'[s][u] = message[s][u]
           /\ \A n \in W!Submissions(s, u) :
                jobs[n].stage \in H!ToRedraw => jobs'[n].stage \in H!ToRedraw
           /\ \/ answers'[s][u] = answers[s][u]
              \/ \E n \in W!Submissions(s, u) : jobs'[n].stage \in H!ToRedraw
  <2>1. Listed(s, u)' <=> Listed(s, u)
    BY <1>3 DEF Listed
  <2>2. ReportedAnswer(s, u)' <=> ReportedAnswer(s, u)
    BY <1>3 DEF ReportedAnswer, N!Answered
  <2>3. Listed(s, u)' /\ W!Submissions(s, u)' = {} => u \in linking'[s] \/ message'[s][u].link
    BY <1>3, <1>4, <1>6, <2>1 DEF Owed
  <2>4. ASSUME answers'[s][u] # NoAnswer
        PROVE  \/ \E n \in W!Submissions(s, u)' : jobs'[n].stage \in H!ToRedraw
               \/ message'[s][u].check
               \/ message'[s][u].link /\ ~ReportedAnswer(s, u)'
    BY <1>4, <1>6, <2>2, <2>4 DEF Owed
  <2>5. QED
    BY <2>3, <2>4 DEF Owed
<1>7. QED
  BY <1>2, <1>5, <1>6

(* As long as nothing fails, every link and check mark that is missing is  *)
(* on its way.                                                             *)
THEOREM OnTheWayHolds ==
  ASSUME Faults = {}, WorkerFaults = {}
  PROVE  Spec => [](LinksOnTheWay /\ ChecksOnTheWay)
<1> DEFINE AllOwed == \A s \in R!Standups, u \in Users : Owed(s, u)
<1>1. Init => AllOwed
  <2> SUFFICES ASSUME Init, NEW s \in R!Standups, NEW u \in Users
               PROVE  Owed(s, u)
    OBVIOUS
  <2>1. R!Init
    BY SameNotifierInit DEF Init
  <2>2. report[s] = <<>> /\ answers[s][u] = NoAnswer
    BY <2>1 DEF R!Init
  <2>3. QED
    BY <2>2 DEF Owed, Listed
<1>2. SystemInv /\ R!LinksAreSent /\ R!LinkAgreesWithReport /\ AllOwed /\ [Next]_vars
        => AllOwed'
  <2> SUFFICES ASSUME SystemInv, R!LinksAreSent, R!LinkAgreesWithReport, AllOwed,
                      [Next]_vars, NEW s \in R!Standups, NEW u \in Users
               PROVE  Owed(s, u)'
    BY DEF R!Standups
  <2>1. CASE UNCHANGED vars
    BY <2>1 DEF vars, notifierOnly, workerOnly, Owed, Listed, ReportedAnswer, N!Answered,
       W!Submissions
  <2>2. QED
    BY <2>1, SystemStep, NotifierOwes, InteractionOwes
<1>3. AllOwed => LinksOnTheWay /\ ChecksOnTheWay
  BY DEF Owed, LinksOnTheWay, ChecksOnTheWay, Standups, R!Standups, H!ToRedraw
<1>4. R!Spec => []R!LinksAreSent /\ []R!LinkAgreesWithReport
  BY R!LinksAreSentInvariant, R!LinkAgreesWithReportHolds, Assumed
<1>5. QED
  BY <1>1, <1>2, <1>3, <1>4, SystemIsNotifier, SystemInvariant, PTL DEF Spec

(* Once all has come to rest and nothing failed, a message has the link to *)
(* the report that lists its user, unless the user submitted something,    *)
(* and shows the check mark of stored answers, unless it was drawn from    *)
(* answers read before they were stored.  With failures it need not.       *)
THEOREM SettledMessagesHolds ==
  ASSUME Faults = {}, WorkerFaults = {}
  PROVE  Spec => []SettledMessages
<1>1. LinksOnTheWay /\ ChecksOnTheWay => SettledMessages
  <2> SUFFICES ASSUME LinksOnTheWay, ChecksOnTheWay, Settled,
                      NEW s \in Standups, NEW u \in Users
               PROVE  /\ Listed(s, u) /\ W!Submissions(s, u) = {} => message[s][u].link
                      /\ answers[s][u] # NoAnswer =>
                           message[s][u].check \/ (message[s][u].link /\ ~ReportedAnswer(s, u))
    BY DEF SettledMessages
  <2>1. linking[s] = {}
    BY DEF Settled
  <2>2. \A n \in W!Submissions(s, u) :
          jobs[n].stage \notin {"assigned", "flushing", "stored"}
    BY DEF Settled, W!Submissions, W!Over
  <2>3. QED
    BY <2>1, <2>2 DEF LinksOnTheWay, ChecksOnTheWay
<1>2. QED
  BY <1>1, OnTheWayHolds, PTL

=============================================================================
