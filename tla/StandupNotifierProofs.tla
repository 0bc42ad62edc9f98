----------------------- MODULE StandupNotifierProofs -----------------------
(***************************************************************************)
(* Theorems of StandupNotifier, for every roster, schedule, set of         *)
(* durations, length of the run and kind of failure.                       *)
(***************************************************************************)
EXTENDS StandupNotifier, TLAPS

-----------------------------------------------------------------------------
(* Types of the operators on data.                                         *)

(* Whatever sendReport or the worker draws is a prompt.                    *)
LEMMA StandupMsgType ==
  ASSUME NEW c \in BOOLEAN, NEW l \in BOOLEAN
  PROVE  StandupMsg(c, l) \in Prompt
BY DEF StandupMsg, Prompt

(* The team of a standup is a team, its start minute a minute of the run,  *)
(* its roster a sequence of users.                                         *)
LEMMA StandupType ==
  ASSUME NEW s \in Standups
  PROVE  /\ Team(s) \in Teams
         /\ StartMinute(s) \in 1..MaxMinute
         /\ Asked(s) \in Seq(Users)
         /\ Members(s) \subseteq Users
<1>1. s \in Teams \X (1..MaxMinute)
  BY DataAssumption DEF Standups
<1>2. Team(s) \in Teams /\ StartMinute(s) \in 1..MaxMinute
  BY <1>1 DEF Team, StartMinute
<1>3. Asked(s) \in Seq(Users)
  BY <1>2, DataAssumption DEF Asked
<1>4. Members(s) \subseteq Users
  BY <1>3 DEF Members
<1>5. QED
  BY <1>2, <1>3, <1>4

(* Writing a sheet over stored answers gives stored answers.               *)
LEMMA WrittenType ==
  ASSUME NEW stored \in Sheets, NEW sheet \in Sheets
  PROVE  Written(stored, sheet) \in Sheets
BY DEF Sheets, Written

(* A query of rows and answers reads a reading.                            *)
LEMMA ReadingType ==
  ASSUME NEW S \in SUBSET Users,
         NEW f \in [Users -> Answers \union {NoAnswer}]
  PROVE  [u \in S |-> f[u]] \in Readings
<1>1. [u \in S |-> f[u]] \in [S -> Answers \union {NoAnswer}]
  OBVIOUS
<1>2. QED
  BY <1>1 DEF Readings

(* The users of a reading are users.                                       *)
LEMMA ReadingDomain ==
  ASSUME NEW r \in Readings
  PROVE  /\ DOMAIN r \in SUBSET Users
         /\ \A u \in DOMAIN r : r[u] \in Answers \union {NoAnswer}
BY DEF Readings

(* The empty reading is one.                                               *)
LEMMA NothingReadType == NothingRead \in Readings
<1>1. NothingRead \in [{} -> Answers \union {NoAnswer}]
  BY DEF NothingRead
<1>2. QED
  BY <1>1 DEF Readings

-----------------------------------------------------------------------------
(* TypeOK, and what it needs: the row being saved is that of a user.       *)

(* The user concat is at, while a row is being saved, is one of the users. *)
LEMMA SavedUserType ==
  ASSUME NEW s \in Standups, SavedInOrder, s \in saving
  PROVE  Asked(s)[cursor[s]] \in Users
BY StandupType DEF SavedInOrder

(* A refreshed team holds a duration.                                      *)
LEMMA RefreshedType ==
  ASSUME TypeOK, NEW S, NEW calls
  PROVE  Refreshed(S, calls) \in [Standups -> Nat]
<1>1. \A s \in Standups : duration[Team(s)] \in Nat /\ loaded[s] \in Nat
  BY StandupType, DataAssumption DEF TypeOK
<1>2. QED
  BY <1>1 DEF Refreshed

(* The initial state has the right types.                                  *)
LEMMA InitType == Init => TypeOK
<1> SUFFICES ASSUME Init PROVE TypeOK
  OBVIOUS
<1>1. NoPrompt \in Prompt
  BY DEF NoPrompt, Prompt
<1>2. now \in Minutes
  BY DataAssumption DEF Init, Minutes
<1>3. report \in [Standups -> Seq(Readings)]
  BY DEF Init
<1>4. QED
  BY <1>1, <1>2, <1>3, NothingReadType DEF Init, TypeOK, NoGreetings

(* Every step keeps the types.                                             *)
LEMMA TypeStep == TypeOK /\ SavedInOrder /\ [Next]_vars => TypeOK'
<1> SUFFICES ASSUME TypeOK, SavedInOrder, [Next]_vars
             PROVE  TypeOK'
  OBVIOUS
<1> USE DEF TypeOK, store, slack, streams, startMem, endMem
<1>1. CASE Tick
  BY <1>1, DataAssumption DEF Tick, Minutes
<1>2. ASSUME Stop, message' \in [Standups -> [Users -> Prompt]],
             report' \in [Standups -> Seq(Readings)]
      PROVE  TypeOK'
  BY <1>2, NothingReadType DEF Stop, NoGreetings
<1>3. CASE Crash
  BY <1>2, <1>3 DEF Crash
<1>4. CASE Restart
  BY <1>4 DEF Restart
<1>5. ASSUME NEW d \in Minutes, FindByStart(d)
      PROVE  TypeOK'
  BY <1>5, RefreshedType DEF FindByStart
<1>6. ASSUME NEW d \in Minutes, FindByStartFails(d)
      PROVE  TypeOK'
  BY <1>6 DEF FindByStartFails, EndStart
<1>7. ASSUME NEW s \in Standups, InsertStandup(s)
      PROVE  TypeOK'
  BY <1>7, StandupType, SMTT(20) DEF InsertStandup
<1>8. ASSUME NEW s \in Standups, InsertStandupFails(s)
      PROVE  TypeOK'
  BY <1>8 DEF InsertStandupFails, EndStart
<1>9. ASSUME NEW s \in Standups, Greet(s)
      PROVE  TypeOK'
  <2>1. CASE startLive
    <3> DEFINE fresh ==
          [u \in Users |-> IF u \in Members(s) THEN "sending" ELSE "none"]
    <3>1. fresh \in [Users -> {"none", "sending", "sent", "failed"}]
      OBVIOUS
    <3>2. /\ greeting' = [greeting EXCEPT ![s] = fresh]
          /\ cursor' = [cursor EXCEPT ![s] = 1]
      BY <1>9, <2>1 DEF Greet
    <3> HIDE DEF fresh
    <3>3. greeting' \in [Standups -> [Users -> {"none", "sending", "sent", "failed"}]]
      BY <3>1, <3>2
    <3>4. cursor' \in [Standups -> Nat]
      BY <3>2
    <3>5. creating' = [creating EXCEPT ![s] = "idle"]
          /\ UNCHANGED <<now, store, slack, streams, startQuery, loaded, saving,
                         endMem>>
      BY <1>9 DEF Greet
    <3>6. QED
      BY <3>3, <3>4, <3>5
  <2>2. CASE ~startLive
    BY <1>9, <2>2 DEF Greet
  <2>3. QED
    BY <2>1, <2>2
<1>10. ASSUME NEW s \in Standups, GreetingRejected(s)
      PROVE  TypeOK'
  BY <1>10 DEF GreetingRejected, EndStart
<1>11. ASSUME NEW s \in Standups, SaveRow(s)
      PROVE  TypeOK'
  <2> DEFINE w == Asked(s)[cursor[s]]
  <2>1. w \in Users
    BY <1>11, StandupType DEF SaveRow
  <2>2. \/ joined' = joined
        \/ joined' = [joined EXCEPT ![s] = joined[s] \union {w}]
    BY <1>11 DEF SaveRow
  <2>3. /\ saving' = saving \union {s}
        /\ UNCHANGED <<now, store, slack, streams, startQuery, creating, loaded,
                       greeting, cursor, endQuery, posting, reading, linking>>
    BY <1>11 DEF SaveRow
  <2> HIDE DEF w
  <2>4. joined' \in [Standups -> SUBSET Users]
    <3>1. joined \in [Standups -> SUBSET Users]
      OBVIOUS
    <3>2. joined[s] \union {w} \in SUBSET Users
      BY <2>1, <3>1
    <3>3. CASE joined' = joined
      BY <3>1, <3>3
    <3>4. CASE joined' = [joined EXCEPT ![s] = joined[s] \union {w}]
      BY <3>1, <3>2, <3>4
    <3>5. QED
      BY <2>2, <3>3, <3>4
  <2>5. QED
    BY <2>3, <2>4
<1>12. ASSUME NEW s \in Standups, RowSaved(s)
      PROVE  TypeOK'
  BY <1>12, SavedUserType, SMTT(30) DEF RowSaved
<1>13. ASSUME NEW s \in Standups, RowSaveFails(s)
      PROVE  TypeOK'
  BY <1>13 DEF RowSaveFails, EndStart
<1>14. ASSUME NEW s \in Standups, NEW u \in Users, GreetingSent(s, u)
      PROVE  TypeOK'
  BY <1>14, StandupMsgType DEF GreetingSent
<1>15. ASSUME NEW s \in Standups, NEW u \in Users, GreetingFails(s, u)
      PROVE  TypeOK'
  <2>1. message' \in [Standups -> [Users -> Prompt]]
    <3>1. PICK landed \in BOOLEAN :
            message' = IF landed
                         THEN [message EXCEPT ![s][u] = StandupMsg(FALSE, FALSE)]
                         ELSE message
      BY <1>15 DEF GreetingFails
    <3>2. StandupMsg(FALSE, FALSE) \in Prompt
      BY StandupMsgType
    <3>3. QED
      BY <3>1, <3>2
  <2>2. CASE Stop
    <3>1. report' = report
      BY <1>15 DEF GreetingFails
    <3>2. QED
      BY <1>2, <2>1, <2>2, <3>1
  <2>3. CASE ~Stop
    <3>1. /\ greeting' = [greeting EXCEPT ![s][u] = "failed"]
          /\ UNCHANGED <<now, store, streams, startQuery, creating, loaded, cursor,
                         saving, endMem, report>>
      BY <1>15, <2>3 DEF GreetingFails
    <3>2. QED
      BY <2>1, <3>1
  <2>4. QED
    BY <2>2, <2>3
<1>16. ASSUME NEW d \in Minutes, FindEnd(d)
      PROVE  TypeOK'
  <2>1. \A s \in Standups : RowsRead(s) \in Readings
    <3> SUFFICES ASSUME NEW s \in Standups
                 PROVE  RowsRead(s) \in Readings
      OBVIOUS
    <3>1. rows[s] \in SUBSET Users /\ answers[s] \in [Users -> Answers \union {NoAnswer}]
      OBVIOUS
    <3>2. QED
      BY <3>1, ReadingType DEF RowsRead
  <2>2. reading' \in [Standups -> Readings]
    BY <1>16, <2>1 DEF FindEnd
  <2>3. posting' \subseteq Standups
    BY <1>16 DEF FindEnd, Ending
  <2>4. loaded' \in [Standups -> Nat]
    BY <1>16, RefreshedType DEF FindEnd
  <2>5. endQuery' \subseteq Minutes
    BY <1>16 DEF FindEnd
  <2>6. UNCHANGED <<now, store, slack, streams, startQuery, creating, greeting,
                    cursor, saving, joined, linking>>
    BY <1>16 DEF FindEnd
  <2>7. QED
    BY <2>2, <2>3, <2>4, <2>5, <2>6
<1>17. ASSUME NEW d \in Minutes, FindEndFails(d)
      PROVE  TypeOK'
  BY <1>17 DEF FindEndFails
<1>18. ASSUME NEW s \in Standups, ReportPosted(s)
      PROVE  TypeOK'
  <2>1. reading[s] \in Readings /\ DOMAIN reading[s] \in SUBSET Users
    BY ReadingDomain
  <2>2. QED
    BY <1>18, <2>1 DEF ReportPosted
<1>19. ASSUME NEW s \in Standups, ReportFails(s)
      PROVE  TypeOK'
  BY <1>19 DEF ReportFails
<1>20. ASSUME NEW s \in Standups, NEW u \in Users, MessageLinked(s, u)
      PROVE  TypeOK'
  <2>1. StandupMsg(Answered(reading[s], u), TRUE) \in Prompt
    BY StandupMsgType DEF Answered
  <2>2. QED
    BY <1>20, <2>1 DEF MessageLinked
<1>21. ASSUME NEW s \in Standups, NEW u \in Users, MessageLinkFails(s, u)
      PROVE  TypeOK'
  BY <1>21 DEF MessageLinkFails
<1>22. ASSUME NEW t \in Teams, NEW n \in Durations, EditDuration(t, n)
      PROVE  TypeOK'
  BY <1>22 DEF EditDuration
<1>23. ASSUME NEW sheet \in Sheets, AnswersStored(sheet)
      PROVE  TypeOK'
  <2>1. Written(answers, sheet) \in [Standups -> [Users -> Answers \union {NoAnswer}]]
    BY WrittenType DEF Sheets, TypeOK
  <2>2. QED
    BY <1>23, <2>1 DEF AnswersStored
<1>24. ASSUME NEW s \in Standups, NEW u \in Users, MessageChecked(s, u)
      PROVE  TypeOK'
  BY <1>24, StandupMsgType DEF MessageChecked
<1>25. CASE UNCHANGED vars
  BY <1>25 DEF vars
<1>26. QED
  BY <1>1, <1>3, <1>4, <1>5, <1>6, <1>7, <1>8, <1>9, <1>10, <1>11, <1>12, <1>13, <1>14, <1>15, <1>16, <1>17, <1>18, <1>19, <1>20, <1>21, <1>22, <1>23, <1>24, <1>25
     DEF Next, Notifier, StartStep, EndStep, Edit, Worker

-----------------------------------------------------------------------------
(* A standup is started by one tick only.                                  *)

(* The initial state starts nothing.                                       *)
LEMMA InitStartedOnce == Init => StartedOnce
BY StandupType, DataAssumption DEF Init, StartedOnce

(* Ending start$ or the process only takes queries and calls away.         *)
LEMMA StartedLess ==
  ASSUME TypeOK, StartedOnce, now' = now, created' = created,
         startQuery' \subseteq startQuery,
         \A s \in Standups : creating'[s] \in {creating[s], "idle"}
  PROVE  StartedOnce'
BY DEF StartedOnce

(* Every step keeps StartedOnce.                                           *)
LEMMA StartedOnceStep == TypeOK /\ StartedOnce /\ [Next]_vars => StartedOnce'
<1> SUFFICES ASSUME TypeOK, StartedOnce, [Next]_vars
             PROVE  StartedOnce'
  OBVIOUS
<1> USE DEF store, slack, streams, startMem, endMem
<1>1. CASE UNCHANGED <<now, created, startQuery, creating>>
  BY <1>1 DEF StartedOnce
<1>2. CASE Tick
  <2>1. now' = now + 1 /\ now \in Nat /\ UNCHANGED <<created, creating>>
    BY <1>2, DataAssumption DEF Tick, TypeOK, Minutes
  <2>2. startQuery' \subseteq startQuery \union {now + 1}
    BY <1>2 DEF Tick
  <2>3. QED
    BY <2>1, <2>2, StandupType DEF StartedOnce
<1>3. CASE Stop
  <2>1. /\ UNCHANGED <<now, created>>
        /\ startQuery' = {}
        /\ \A s \in Standups : creating'[s] = "idle"
    BY <1>3 DEF Stop
  <2>2. QED
    BY <2>1, StartedLess
<1>4. ASSUME NEW d \in Minutes, FindByStart(d)
      PROVE  StartedOnce'
  <2>1. /\ UNCHANGED <<now, created>>
        /\ d \in startQuery
        /\ startQuery' = startQuery \ {d}
        /\ \A s \in Standups :
             creating'[s] = IF s \in Due(d) THEN "matched" ELSE creating[s]
    BY <1>4 DEF FindByStart
  <2>2. \A s \in Due(d) : s \in Standups /\ StartMinute(s) = d
    BY DEF Due
  <2>3. d \in Nat /\ d <= now
    BY <2>1 DEF StartedOnce
  <2>4. QED
    BY <2>1, <2>2, <2>3, StandupType DEF StartedOnce, TypeOK, Minutes
<1>5. ASSUME NEW s \in Standups, InsertStandup(s)
      PROVE  StartedOnce'
  <2>1. /\ creating[s] = "matched"
        /\ creating' = [creating EXCEPT ![s] = "inserted"]
        /\ created' = created \union {s}
        /\ UNCHANGED <<now, startQuery>>
    BY <1>5 DEF InsertStandup
  <2>2. QED
    BY <2>1 DEF StartedOnce, TypeOK
<1>6. ASSUME NEW s \in Standups, creating' = [creating EXCEPT ![s] = "idle"],
             UNCHANGED <<now, created>>, startQuery' \subseteq startQuery
      PROVE  StartedOnce'
  BY <1>6, StartedLess DEF TypeOK
<1>7. CASE EndStart /\ UNCHANGED <<now, created, creating>>
  BY <1>7, StartedLess DEF EndStart
<1>8. CASE Notifier
  <2>1. CASE Crash \/ Restart
    BY <2>1, <1>1, <1>3 DEF Crash, Restart
  <2>2. ASSUME NEW d \in Minutes, FindByStartFails(d) \/ FindEnd(d) \/ FindEndFails(d)
        PROVE  StartedOnce'
    BY <2>2, <1>1, <1>7 DEF FindByStartFails, FindEnd, FindEndFails
  <2>3. ASSUME NEW s \in Standups, InsertStandupFails(s) \/ Greet(s)
        PROVE  StartedOnce'
    BY <2>3, <1>6 DEF InsertStandupFails, Greet, EndStart
  <2>4. ASSUME NEW s \in Standups,
               \/ GreetingRejected(s) \/ SaveRow(s) \/ RowSaved(s)
               \/ RowSaveFails(s) \/ ReportPosted(s) \/ ReportFails(s)
        PROVE  StartedOnce'
    BY <2>4, <1>1, <1>7 DEF GreetingRejected, SaveRow, RowSaved, RowSaveFails,
                             ReportPosted, ReportFails
  <2>5. ASSUME NEW s \in Standups, NEW u \in Users,
               \/ GreetingSent(s, u) \/ GreetingFails(s, u)
               \/ MessageLinked(s, u) \/ MessageLinkFails(s, u)
        PROVE  StartedOnce'
    BY <2>5, <1>1, <1>3 DEF GreetingSent, GreetingFails, MessageLinked,
                             MessageLinkFails
  <2>6. QED
    BY <1>2, <1>4, <1>5, <1>8, <2>1, <2>2, <2>3, <2>4, <2>5
       DEF Notifier, StartStep, EndStep
<1>9. CASE Edit \/ Worker \/ UNCHANGED vars
  BY <1>1, <1>9 DEF Edit, Worker, EditDuration, AnswersStored, MessageChecked, vars
<1>10. QED
  BY <1>8, <1>9 DEF Next

-----------------------------------------------------------------------------
(* Rows are saved in roster order.                                         *)

(* The users up to a place in the roster, one place at a time.             *)
LEMMA FirstAskedNext ==
  ASSUME NEW s \in Standups, NEW k \in Nat
  PROVE  /\ FirstAsked(s, 0) = {}
         /\ FirstAsked(s, k + 1) = FirstAsked(s, k) \union {Asked(s)[k + 1]}
BY DEF FirstAsked

(* What a step that sends or redraws messages does to them: none is taken  *)
(* away.                                                                   *)
MessagesStay ==
  \A s \in Standups, u \in Users : message[s][u].sent => message'[s][u].sent

(* Any message drawn over another keeps it sent.                           *)
LEMMA RedrawStays ==
  ASSUME TypeOK, NEW s \in Standups, NEW u \in Users,
         NEW c \in BOOLEAN, NEW l \in BOOLEAN,
         message' = [message EXCEPT ![s][u] = StandupMsg(c, l)]
  PROVE  MessagesStay /\ message'[s][u].sent
BY DEF TypeOK, MessagesStay, StandupMsg

(* No step takes a message away.                                           *)
LEMMA MessagesStayStep == TypeOK /\ [Next]_vars => MessagesStay
<1> SUFFICES ASSUME TypeOK, [Next]_vars
             PROVE  MessagesStay
  OBVIOUS
<1>1. CASE UNCHANGED message
  BY <1>1 DEF MessagesStay
<1>2. ASSUME NEW s \in Standups, NEW u \in Users,
             \/ GreetingSent(s, u) \/ GreetingFails(s, u) \/ MessageChecked(s, u)
      PROVE  MessagesStay
  <2>1. \/ UNCHANGED message
        \/ \E c, l \in BOOLEAN :
              message' = [message EXCEPT ![s][u] = StandupMsg(c, l)]
    BY <1>2 DEF GreetingSent, GreetingFails, MessageChecked
  <2>2. QED
    BY <1>1, <2>1, RedrawStays
<1>3. ASSUME NEW s \in Standups, NEW u \in Users, MessageLinked(s, u)
      PROVE  MessagesStay
  <2>1. Answered(reading[s], u) \in BOOLEAN
    BY DEF Answered
  <2>2. message' = [message EXCEPT ![s][u] = StandupMsg(Answered(reading[s], u), TRUE)]
    BY <1>3 DEF MessageLinked
  <2>3. QED
    BY <2>1, <2>2, RedrawStays
<1>4. QED
  BY <1>1, <1>2, <1>3
     DEF Next, Notifier, StartStep, EndStep, Edit, Worker, vars, store, slack,
         Tick, Crash, Restart, FindByStart, FindByStartFails, InsertStandup,
         InsertStandupFails, Greet, GreetingRejected, SaveRow, RowSaved,
         RowSaveFails, FindEnd, FindEndFails, ReportPosted, ReportFails,
         MessageLinkFails, EditDuration, AnswersStored

(* The initial state has no rows.                                          *)
LEMMA InitSavedInOrder == Init => SavedInOrder
BY DEF Init, SavedInOrder, NoGreetings

(* A step that only touches messages, or ends start$.                      *)
LEMMA SavedInOrderFrame ==
  ASSUME TypeOK, SavedInOrder, MessagesStay,
         UNCHANGED <<up, created, rows, creating, greeting, cursor, saving>>,
         startLive' => startLive
  PROVE  SavedInOrder'
BY DEF SavedInOrder, MessagesStay, TypeOK

(* SavedInOrder of one standup.                                            *)
SavedOne(s) ==
  /\ ~up => ~startLive /\ cursor[s] = 0
  /\ creating[s] # "idle" \/ s \notin created
       => rows[s] = {} /\ cursor[s] = 0 /\ s \notin saving
  /\ creating[s] # "idle" => Asked(s) # <<>>
  /\ s \in saving => /\ cursor[s] \in DOMAIN Asked(s)
                     /\ greeting[s][Asked(s)[cursor[s]]] = "sent"
  /\ cursor[s] > 0 /\ (startLive \/ s \in saving)
       => cursor[s] <= Len(Asked(s)) + 1 /\ rows[s] = FirstAsked(s, cursor[s] - 1)
  /\ \A u \in Users : greeting[s][u] = "sent" => message[s][u].sent

(* Every step keeps SavedInOrder.                                          *)
LEMMA SavedInOrderStep ==
  TypeOK /\ StartedOnce /\ SavedInOrder /\ [Next]_vars => SavedInOrder'
<1> SUFFICES ASSUME TypeOK, StartedOnce, SavedInOrder, [Next]_vars
             PROVE  SavedInOrder'
  OBVIOUS
<1> USE DEF store, slack, streams, startMem, endMem
<1>1. MessagesStay
  BY MessagesStayStep
<1>2. CASE Stop
  <2>1. /\ UNCHANGED <<created, rows>>
        /\ saving' = {} /\ ~startLive'
        /\ \A s \in Standups : creating'[s] = "idle" /\ cursor'[s] = 0
        /\ \A s \in Standups, u \in Users : greeting'[s][u] = "none"
    BY <1>2 DEF Stop, NoGreetings
  <2>2. QED
    BY <2>1 DEF SavedInOrder
<1>3. CASE Restart
  <2>1. /\ UNCHANGED <<created, rows, creating, greeting, cursor, saving, message>>
        /\ ~up /\ up'
    BY <1>3 DEF Restart
  <2>2. \A s \in Standups : cursor[s] = 0
    BY <2>1 DEF SavedInOrder
  <2>3. QED
    BY <2>1, <2>2 DEF SavedInOrder
<1>4. ASSUME NEW d \in Minutes, FindByStart(d)
      PROVE  SavedInOrder'
  <2>1. /\ UNCHANGED <<up, startLive, created, rows, greeting, cursor, saving, message>>
        /\ d \in startQuery
        /\ \A s \in Standups :
             creating'[s] = IF s \in Due(d) THEN "matched" ELSE creating[s]
    BY <1>4 DEF FindByStart
  <2>2. \A s \in Due(d) : s \in Standups /\ s \notin created /\ Asked(s) # <<>>
    BY <2>1 DEF Due, StartedOnce
  <2>3. QED
    BY <2>1, <2>2 DEF SavedInOrder
<1>5. ASSUME NEW s \in Standups, InsertStandup(s) \/ InsertStandupFails(s)
      PROVE  SavedInOrder'
  <2>1. /\ creating[s] = "matched" /\ s \notin created
        /\ \A r \in Standups \ {s} : creating'[r] = creating[r]
        /\ created' \in {created, created \union {s}}
        /\ UNCHANGED <<up, rows, greeting, cursor, saving, message>>
        /\ startLive' => startLive
    BY <1>5 DEF InsertStandup, InsertStandupFails, EndStart, StartedOnce, TypeOK
  <2>2. QED
    BY <2>1 DEF SavedInOrder
<1>6. ASSUME NEW s \in Standups, Greet(s)
      PROVE  SavedInOrder'
  <2>1. /\ creating[s] = "inserted" /\ s \in created
        /\ creating' = [creating EXCEPT ![s] = "idle"]
        /\ UNCHANGED <<up, startLive, created, rows, saving, message>>
    BY <1>6 DEF Greet, StartedOnce
  <2>2. rows[s] = {} /\ cursor[s] = 0 /\ s \notin saving
    BY <2>1 DEF SavedInOrder
  <2>3. CASE ~startLive
    <3>1. UNCHANGED <<greeting, cursor>>
      BY <1>6, <2>3 DEF Greet
    <3>2. QED
      BY <2>1, <2>2, <2>3, <3>1 DEF SavedInOrder, TypeOK
  <2>4. CASE startLive
    <3> DEFINE fresh ==
          [u \in Users |-> IF u \in Members(s) THEN "sending" ELSE "none"]
    <3>1. /\ cursor' = [cursor EXCEPT ![s] = 1]
          /\ greeting' = [greeting EXCEPT ![s] = fresh]
      BY <1>6, <2>4 DEF Greet
    <3>2. \A u \in Users : fresh[u] # "sent"
      OBVIOUS
    <3> HIDE DEF fresh
    <3>3. /\ up
          /\ cursor' = [cursor EXCEPT ![s] = 1]
          /\ \A r \in Standups \ {s} : greeting'[r] = greeting[r]
          /\ \A u \in Users : greeting'[s][u] # "sent"
      BY <2>4, <3>1, <3>2 DEF SavedInOrder, TypeOK
    <3>4. cursor'[s] - 1 = 0 /\ cursor'[s] <= Len(Asked(s)) + 1
      BY <3>3, StandupType DEF TypeOK
    <3>5. FirstAsked(s, 0) = {}
      BY FirstAskedNext
    <3>6. \A r \in Standups \ {s} : cursor'[r] = cursor[r] /\ creating'[r] = creating[r]
      BY <2>1, <3>3 DEF TypeOK
    <3>7. QED
      <4>1. ASSUME NEW r \in Standups
            PROVE  SavedOne(r)'
        <5>1. SavedOne(r)
          BY DEF SavedInOrder, SavedOne
        <5>2. CASE r = s
          <6>1. /\ up' /\ s \in created' /\ creating'[s] = "idle" /\ s \notin saving'
                /\ rows'[s] = {} /\ cursor'[s] - 1 = 0 /\ cursor'[s] <= Len(Asked(s)) + 1
                /\ \A u \in Users : greeting'[s][u] # "sent"
            BY <2>1, <2>2, <3>3, <3>4 DEF TypeOK
          <6>2. Asked(s)' = Asked(s) /\ FirstAsked(s, cursor[s] - 1)' = FirstAsked(s, 0)
            BY <6>1 DEF Asked, FirstAsked
          <6>3. QED
            BY <3>5, <5>2, <6>1, <6>2 DEF SavedOne
        <5>3. CASE r # s
          <6>1. Asked(r)' = Asked(r) /\ FirstAsked(r, cursor[r] - 1)' = FirstAsked(r, cursor'[r] - 1)
            BY DEF Asked, FirstAsked
          <6>2. /\ cursor'[r] = cursor[r] /\ creating'[r] = creating[r] /\ greeting'[r] = greeting[r]
                /\ message'[r] = message[r] /\ rows'[r] = rows[r]
            BY <2>1, <3>3, <3>6, <5>3
          <6>3. QED
            BY <2>1, <5>1, <6>1, <6>2 DEF SavedOne
        <5>4. QED
          BY <5>2, <5>3
      <4>2. QED
        BY <4>1 DEF SavedInOrder, SavedOne
  <2>5. QED
    BY <2>3, <2>4
<1>7. ASSUME NEW s \in Standups, NEW u \in Users, GreetingSent(s, u)
      PROVE  SavedInOrder'
  <2>1. /\ greeting[s][u] = "sending"
        /\ greeting' = [greeting EXCEPT ![s][u] = "sent"]
        /\ message' = [message EXCEPT ![s][u] = StandupMsg(FALSE, FALSE)]
        /\ UNCHANGED <<up, startLive, created, rows, creating, cursor, saving>>
    BY <1>7 DEF GreetingSent
  <2>2. message'[s][u].sent
    BY <2>1, RedrawStays
  <2>3. \A r \in Standups, v \in Users :
          greeting'[r][v] = IF r = s /\ v = u THEN "sent" ELSE greeting[r][v]
    BY <2>1 DEF TypeOK
  <2>4. \A r \in saving : Asked(r)[cursor[r]] \in Users
    BY SavedUserType DEF TypeOK
  <2>5. \A r \in Standups, v \in Users :
          greeting'[r][v] = "sent" => message'[r][v].sent
    BY <1>1, <2>2, <2>3 DEF SavedInOrder, MessagesStay
  <2>6. \A r \in saving : greeting'[r][Asked(r)[cursor[r]]] = "sent"
    BY <2>3, <2>4 DEF SavedInOrder, TypeOK
  <2>7. QED
    <3>1. ASSUME NEW r \in Standups
          PROVE  SavedOne(r)'
      <4>1. SavedOne(r)
        BY DEF SavedInOrder, SavedOne
      <4>2. QED
        BY <2>1, <2>5, <2>6, <4>1 DEF SavedOne
    <3>2. QED
      BY <3>1 DEF SavedInOrder, SavedOne
<1>8. ASSUME NEW s \in Standups, NEW u \in Users, GreetingFails(s, u)
      PROVE  SavedInOrder'
  <2>1. CASE ~Stop
    <3>1. /\ greeting[s][u] = "sending"
          /\ greeting' = [greeting EXCEPT ![s][u] = "failed"]
          /\ UNCHANGED <<up, startLive, created, rows, creating, cursor, saving>>
      BY <1>8, <2>1 DEF GreetingFails
    <3>2. \A r \in Standups, v \in Users :
            greeting'[r][v] = IF r = s /\ v = u THEN "failed" ELSE greeting[r][v]
      BY <3>1 DEF TypeOK
    <3>3. \A r \in saving : Asked(r)[cursor[r]] \in Users
      BY SavedUserType DEF TypeOK
    <3>4. QED
      BY <1>1, <3>1, <3>2, <3>3, SMTT(60) DEF SavedInOrder, MessagesStay, TypeOK
  <2>2. QED
    BY <1>2, <2>1
<1>9. ASSUME NEW s \in Standups, SaveRow(s)
      PROVE  SavedInOrder'
  <2>1. /\ startLive /\ cursor[s] \in DOMAIN Asked(s)
        /\ greeting[s][Asked(s)[cursor[s]]] = "sent"
        /\ saving' = saving \union {s}
        /\ UNCHANGED <<up, startLive, created, rows, creating, greeting, cursor, message>>
    BY <1>9 DEF SaveRow
  <2>2. cursor[s] > 0
    BY <2>1, StandupType
  <2>3. QED
    BY <2>1, <2>2, SMTT(60) DEF SavedInOrder
<1>10. ASSUME NEW s \in Standups, RowSaved(s)
       PROVE  SavedInOrder'
  <2> DEFINE k == cursor[s]
  <2>1. /\ s \in saving /\ saving' = saving \ {s}
        /\ rows' = [rows EXCEPT ![s] = @ \union {Asked(s)[k]}]
        /\ cursor' = IF startLive THEN [cursor EXCEPT ![s] = k + 1] ELSE cursor
        /\ UNCHANGED <<up, startLive, created, creating, greeting, message>>
    BY <1>10 DEF RowSaved
  <2>2. /\ k \in DOMAIN Asked(s)
        /\ s \in created /\ creating[s] = "idle"
        /\ k \in Nat /\ k > 0 /\ k <= Len(Asked(s))
    BY <2>1, StandupType DEF SavedInOrder, TypeOK
  <2>3. rows[s] = FirstAsked(s, k - 1)
    BY <2>1, <2>2 DEF SavedInOrder
  <2>4. k - 1 \in Nat /\ (k - 1) + 1 = k
    BY <2>2
  <2>5. FirstAsked(s, k) = FirstAsked(s, k - 1) \union {Asked(s)[k]}
    BY <2>4, FirstAskedNext
  <2>6. rows'[s] = FirstAsked(s, k)
    BY <2>1, <2>3, <2>5 DEF TypeOK
  <2>7. \A r \in Standups \ {s} : rows'[r] = rows[r] /\ cursor'[r] = cursor[r]
    BY <2>1 DEF TypeOK
  <2>8. startLive => cursor'[s] = k + 1 /\ cursor'[s] - 1 = k
    BY <2>1, <2>2 DEF TypeOK
  <2>9. ~startLive => cursor'[s] = k
    BY <2>1
  <2>10. \A r \in Standups \ {s} : r \in saving' <=> r \in saving
    BY <2>1
  <2>11. s \notin saving' /\ startLive' = startLive
    BY <2>1
  <2>12. up
    BY <2>2 DEF SavedInOrder
  <2>13. startLive => cursor'[s] <= Len(Asked(s)) + 1
                      /\ rows'[s] = FirstAsked(s, cursor'[s] - 1)
    BY <2>2, <2>6, <2>8, StandupType
  <2> HIDE DEF k
  <2>14. ASSUME NEW r \in Standups \ {s}
         PROVE  cursor'[r] > 0 /\ (startLive' \/ r \in saving') =>
                  cursor'[r] <= Len(Asked(r)) + 1
                  /\ rows'[r] = FirstAsked(r, cursor'[r] - 1)
    BY <2>7, <2>10, <2>11 DEF SavedInOrder
  <2>15. ASSUME NEW r \in Standups \ {s}
         PROVE  /\ creating'[r] # "idle" \/ r \notin created' =>
                     rows'[r] = {} /\ cursor'[r] = 0 /\ r \notin saving'
                /\ ~up' => ~startLive' /\ cursor'[r] = 0
                /\ r \in saving' => /\ cursor'[r] \in DOMAIN Asked(r)
                                    /\ greeting'[r][Asked(r)[cursor'[r]]] = "sent"
    BY <2>1, <2>7, <2>10 DEF SavedInOrder
  <2>16. s \in created' /\ creating'[s] = "idle" /\ up'
    BY <2>1, <2>2, <2>12
  <2>17. \A r \in Standups : creating'[r] # "idle" => Asked(r) # <<>>
    BY <2>1 DEF SavedInOrder
  <2>18. \A r \in Standups, u \in Users : greeting'[r][u] = "sent" => message'[r][u].sent
    BY <2>1 DEF SavedInOrder
  <2>19. ASSUME NEW r \in Standups
         PROVE  /\ ~up' => ~startLive' /\ cursor'[r] = 0
                /\ creating'[r] # "idle" \/ r \notin created' =>
                     rows'[r] = {} /\ cursor'[r] = 0 /\ r \notin saving'
                /\ r \in saving' => /\ cursor'[r] \in DOMAIN Asked(r)
                                    /\ greeting'[r][Asked(r)[cursor'[r]]] = "sent"
                /\ cursor'[r] > 0 /\ (startLive' \/ r \in saving') =>
                     cursor'[r] <= Len(Asked(r)) + 1
                     /\ rows'[r] = FirstAsked(r, cursor'[r] - 1)
    <3>1. CASE r = s
      BY <2>11, <2>13, <2>16, <3>1
    <3>2. CASE r # s
      BY <2>14, <2>15, <3>2
    <3>3. QED
      BY <3>1, <3>2
  <2>20. QED
    BY <2>17, <2>18, <2>19 DEF SavedInOrder
<1>11. ASSUME NEW s \in Standups, RowSaveFails(s)
       PROVE  SavedInOrder'
  <2>1. /\ saving' \subseteq saving /\ ~startLive'
        /\ UNCHANGED <<up, created, rows, creating, greeting, cursor, message>>
    BY <1>11 DEF RowSaveFails, EndStart
  <2>2. QED
    BY <2>1 DEF SavedInOrder
<1>12. CASE \/ Tick \/ Edit \/ Worker \/ EndStep \/ UNCHANGED vars
            \/ \E d \in Minutes : FindByStartFails(d)
            \/ \E s \in Standups : GreetingRejected(s)
  <2> DEFINE Frame ==
        /\ UNCHANGED <<up, created, rows, creating, greeting, cursor, saving>>
        /\ startLive' => startLive
  <2>1. Tick \/ UNCHANGED vars => Frame
    BY DEF Tick, vars
  <2>2. Edit => Frame
    BY DEF Edit, EditDuration
  <2>3. Worker => Frame
    <3>1. ASSUME NEW s \in Standups, NEW u \in Users, MessageChecked(s, u)
          PROVE  Frame
      BY <3>1 DEF MessageChecked
    <3>2. ASSUME NEW sheet \in Sheets, AnswersStored(sheet)
          PROVE  Frame
      BY <3>2 DEF AnswersStored
    <3> HIDE DEF Frame
    <3>3. QED
      BY <3>1, <3>2 DEF Worker
  <2>4. EndStep => Frame
    <3>1. ASSUME NEW d \in Minutes, FindEnd(d) \/ FindEndFails(d)
          PROVE  Frame
      BY <3>1 DEF FindEnd, FindEndFails
    <3>2. ASSUME NEW s \in Standups, ReportPosted(s) \/ ReportFails(s)
          PROVE  Frame
      BY <3>2 DEF ReportPosted, ReportFails
    <3>3. ASSUME NEW s \in Standups, NEW u \in Users, MessageLinked(s, u)
          PROVE  Frame
      BY <3>3 DEF MessageLinked
    <3>4. ASSUME NEW s \in Standups, NEW u \in Users, MessageLinkFails(s, u)
          PROVE  Frame
      BY <3>4 DEF MessageLinkFails
    <3> HIDE DEF Frame
    <3>5. QED
      BY <3>1, <3>2, <3>3, <3>4 DEF EndStep
  <2>5. (\E d \in Minutes : FindByStartFails(d)) => Frame
    BY DEF FindByStartFails, EndStart
  <2>6. (\E r \in Standups : GreetingRejected(r)) => Frame
    BY DEF GreetingRejected, EndStart
  <2>7. Frame
    BY <1>12, <2>1, <2>2, <2>3, <2>4, <2>5, <2>6
  <2>8. QED
    BY <1>1, <2>7, SavedInOrderFrame
<1>13. QED
  BY <1>2, <1>3, <1>4, <1>5, <1>6, <1>7, <1>8, <1>9, <1>10, <1>11, <1>12
     DEF Next, Notifier, StartStep, Crash

-----------------------------------------------------------------------------
(* The inductive invariant, and what it gives at once.                     *)

(* Types, the use of each start tick, and concat's place in the roster     *)
(* carry each other.                                                       *)
LEMMA StartInvariant == Spec => [](TypeOK /\ StartedOnce /\ SavedInOrder)
<1>1. Init => TypeOK /\ StartedOnce /\ SavedInOrder
  BY InitType, InitStartedOnce, InitSavedInOrder
<1>2. TypeOK /\ StartedOnce /\ SavedInOrder /\ [Next]_vars
        => TypeOK' /\ StartedOnce' /\ SavedInOrder'
  BY TypeStep, StartedOnceStep, SavedInOrderStep
<1>3. QED
  BY <1>1, <1>2, PTL DEF Spec

(* The state of the notifier, its tables and its messages keeps its types, *)
(* whatever fails and however the streams, users and edits interleave.     *)
THEOREM TypeCorrect == Spec => []TypeOK
BY StartInvariant, PTL

(* A standup is started by one tick only.                                  *)
THEOREM StartedOnceHolds == Spec => []StartedOnce
BY StartInvariant, PTL

(* concat's place in the roster and the rows go together.                  *)
THEOREM SavedInOrderHolds == Spec => []SavedInOrder
BY StartInvariant, PTL

-----------------------------------------------------------------------------
(* Rows follow the roster.                                                 *)

(* The initial state has no rows.                                          *)
LEMMA InitRowsFollowRoster == Init => RowsFollowRoster
<1> SUFFICES ASSUME Init, NEW s \in Standups
             PROVE  /\ \E k \in 0..Len(Asked(s)) : rows[s] = FirstAsked(s, k)
                    /\ \A u \in rows[s] : message[s][u].sent
  BY DEF RowsFollowRoster, FirstAsked
<1>1. rows[s] = {}
  BY DEF Init
<1>2. FirstAsked(s, 0) = {}
  BY FirstAskedNext
<1>3. 0 \in 0..Len(Asked(s))
  BY StandupType
<1>4. QED
  BY <1>1, <1>2, <1>3

(* RowSaved takes the rows one place further; every other step leaves them *)
(* alone, and no step takes a message away.                                *)
LEMMA RowsFollowRosterStep ==
  TypeOK /\ SavedInOrder /\ RowsFollowRoster /\ [Next]_vars => RowsFollowRoster'
<1> SUFFICES ASSUME TypeOK, SavedInOrder, RowsFollowRoster, [Next]_vars
             PROVE  RowsFollowRoster'
  OBVIOUS
<1>1. MessagesStay
  BY MessagesStayStep
<1>2. CASE rows' = rows
  <2>1. \A s \in Standups : rows[s] \subseteq Users
    BY DEF TypeOK
  <2>2. QED
    BY <1>1, <1>2, <2>1 DEF RowsFollowRoster, MessagesStay
<1>3. ASSUME NEW s \in Standups, RowSaved(s)
      PROVE  RowsFollowRoster'
  <2> DEFINE k == cursor[s]
             w == Asked(s)[k]
  <2>1. /\ s \in saving
        /\ rows' = [rows EXCEPT ![s] = @ \union {w}]
        /\ UNCHANGED message
    BY <1>3 DEF RowSaved, slack
  <2>2. /\ k \in Nat /\ k > 0 /\ k <= Len(Asked(s))
        /\ greeting[s][w] = "sent"
        /\ rows[s] = FirstAsked(s, k - 1)
    BY <2>1, StandupType DEF SavedInOrder, TypeOK
  <2>3. w \in Users
    BY <2>1, SavedUserType
  <2>4. message[s][w].sent
    BY <2>2, <2>3 DEF SavedInOrder
  <2>5. k - 1 \in Nat /\ (k - 1) + 1 = k
    BY <2>2
  <2>6. FirstAsked(s, k) = FirstAsked(s, k - 1) \union {w}
    BY <2>5, FirstAskedNext
  <2>7. rows'[s] = rows[s] \union {w}
    BY <2>1 DEF TypeOK
  <2>8. k \in 0..Len(Asked(s)) /\ rows'[s] = FirstAsked(s, k)
    BY <2>2, <2>6, <2>7, StandupType
  <2>9. \A u \in rows'[s] : message'[s][u].sent
    BY <2>1, <2>4, <2>7 DEF RowsFollowRoster
  <2>10. \A r \in Standups \ {s} : rows'[r] = rows[r]
    BY <2>1 DEF TypeOK
  <2> HIDE DEF k, w
  <2>11. \A r \in Standups : /\ \E i \in 0..Len(Asked(r)) : rows'[r] = FirstAsked(r, i)
                            /\ \A u \in rows'[r] : message'[r][u].sent
    <3> SUFFICES ASSUME NEW r \in Standups
                 PROVE  /\ \E i \in 0..Len(Asked(r)) : rows'[r] = FirstAsked(r, i)
                        /\ \A u \in rows'[r] : message'[r][u].sent
      OBVIOUS
    <3>1. CASE r = s
      BY <2>8, <2>9, <3>1
    <3>2. CASE r # s
      BY <2>1, <2>10, <3>2 DEF RowsFollowRoster, FirstAsked
    <3>3. QED
      BY <3>1, <3>2
  <2>12. QED
    BY <2>11 DEF RowsFollowRoster, FirstAsked
<1>4. rows' = rows \/ \E s \in Standups : RowSaved(s)
  <2>1. CASE Tick \/ Crash \/ Restart \/ UNCHANGED vars
    BY <2>1 DEF Tick, Crash, Stop, Restart, vars, store
  <2>2. CASE StartStep
    <3>1. ASSUME NEW d \in Minutes, FindByStart(d) \/ FindByStartFails(d)
          PROVE  rows' = rows
      BY <3>1 DEF FindByStart, FindByStartFails, store
    <3>2. ASSUME NEW s \in Standups,
                 \/ InsertStandup(s) \/ InsertStandupFails(s) \/ Greet(s)
                 \/ GreetingRejected(s) \/ SaveRow(s) \/ RowSaveFails(s)
          PROVE  rows' = rows
      BY <3>2 DEF InsertStandup, InsertStandupFails, Greet, GreetingRejected, SaveRow,
                  RowSaveFails, store
    <3>3. ASSUME NEW s \in Standups, NEW u \in Users, GreetingSent(s, u) \/ GreetingFails(s, u)
          PROVE  rows' = rows
      BY <3>3 DEF GreetingSent, GreetingFails, Stop, store
    <3>4. QED
      BY <2>2, <3>1, <3>2, <3>3 DEF StartStep
  <2>3. CASE EndStep
    BY <2>3 DEF EndStep, FindEnd, FindEndFails, ReportPosted, ReportFails,
                MessageLinked, MessageLinkFails, store
  <2>4. CASE Edit \/ Worker
    BY <2>4 DEF Edit, Worker, EditDuration, AnswersStored, MessageChecked, store
  <2>5. QED
    BY <2>1, <2>2, <2>3, <2>4 DEF Next, Notifier
<1>5. QED
  BY <1>2, <1>3, <1>4

(* Rows appear in roster order and stand for messages that are there,      *)
(* through every order of Slack's answers, errors, crashes and restarts.   *)
THEOREM RowsFollowRosterHolds == Spec => []RowsFollowRoster
<1>1. Init => RowsFollowRoster
  BY InitRowsFollowRoster
<1>2. TypeOK /\ SavedInOrder /\ RowsFollowRoster /\ [Next]_vars
        => RowsFollowRoster'
  BY RowsFollowRosterStep
<1>3. QED
  BY <1>1, <1>2, StartInvariant, PTL DEF Spec

=============================================================================
