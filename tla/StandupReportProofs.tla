------------------------ MODULE StandupReportProofs ------------------------
(***************************************************************************)
(* Theorems about the reports of StandupNotifier: how many, how early, and *)
(* what they list.                                                         *)
(***************************************************************************)
EXTENDS StandupNotifierProofs

-----------------------------------------------------------------------------
(* One report, not before the end.                                         *)

(* The initial state has no reports.                                       *)
LEMMA InitReportedOnce == Init => ReportedOnce
BY DataAssumption DEF Init, ReportedOnce

(* Steps that only let go of queries, posts and updates.                   *)
LEMMA ReportedLess ==
  ASSUME ReportedOnce, UNCHANGED <<now, created, endAt, report, reading>>,
         endQuery' \subseteq endQuery, posting' \subseteq posting,
         \A s \in Standups : linking'[s] \subseteq linking[s]
  PROVE  ReportedOnce'
BY DEF ReportedOnce

(* Every step keeps ReportedOnce: findEnd for a minute uses up that        *)
(* minute's query, and a row is never inserted twice.                      *)
LEMMA ReportedOnceStep ==
  TypeOK /\ StartedOnce /\ ReportedOnce /\ [Next]_vars => ReportedOnce'
<1> SUFFICES ASSUME TypeOK, StartedOnce, ReportedOnce, [Next]_vars
             PROVE  ReportedOnce'
  OBVIOUS
<1> USE DEF store, slack, endMem
<1>1. CASE UNCHANGED <<now, created, endAt, report, endQuery, posting, reading, linking>>
  BY <1>1 DEF ReportedOnce
<1>2. CASE Tick
  <2>1. now' = now + 1 /\ now \in Nat
    BY <1>2, DataAssumption DEF Tick, TypeOK, Minutes
  <2>2. /\ endQuery' \subseteq endQuery \union {now + 1}
        /\ UNCHANGED <<created, endAt, report, posting, reading, linking>>
    BY <1>2 DEF Tick
  <2>3. \A s \in Standups : endAt[s] \in Nat
    BY DEF TypeOK
  <2>4. QED
    BY <2>1, <2>2, <2>3 DEF ReportedOnce
<1>3. ASSUME Stop, UNCHANGED report
      PROVE  ReportedOnce'
  <2>1. /\ UNCHANGED <<now, created, endAt, report>>
        /\ endQuery' = {} /\ posting' = {}
        /\ \A s \in Standups : linking'[s] = {}
    BY <1>3 DEF Stop
  <2>2. QED
    BY <2>1 DEF ReportedOnce
<1>4. ASSUME NEW s \in Standups, InsertStandup(s)
      PROVE  ReportedOnce'
  <2>1. /\ s \notin created
        /\ created' = created \union {s}
        /\ \A r \in Standups \ {s} : endAt'[r] = endAt[r]
        /\ UNCHANGED <<now, report, endMem>>
    BY <1>4 DEF InsertStandup, StartedOnce, TypeOK
  <2>2. s \notin posting /\ report[s] = <<>>
    BY <2>1 DEF ReportedOnce
  <2>3. QED
    BY <2>1, <2>2 DEF ReportedOnce
<1>5. ASSUME NEW d \in Minutes, FindEnd(d)
      PROVE  ReportedOnce'
  <2>1. /\ d \in endQuery
        /\ endQuery' = endQuery \ {d}
        /\ posting' = posting \union Ending(d)
        /\ \A s \in Standups \ Ending(d) : reading'[s] = reading[s]
        /\ UNCHANGED <<now, created, endAt, report, linking>>
    BY <1>5 DEF FindEnd
  <2>2. d \in Nat /\ d <= now
    BY <2>1, DataAssumption DEF ReportedOnce, TypeOK, Minutes
  <2>3. ASSUME NEW s \in Standups, s \in Ending(d)
        PROVE  /\ s \in created /\ endAt[s] = d
               /\ s \notin posting /\ report[s] = <<>> /\ linking[s] = {}
    <3>1. s \in created /\ endAt[s] = d
      BY <2>3 DEF Ending
    <3>2. s \notin posting /\ report[s] = <<>>
      BY <2>1, <3>1 DEF ReportedOnce
    <3>3. linking[s] = {}
      BY <3>2 DEF ReportedOnce
    <3>4. QED
      BY <3>1, <3>2, <3>3
  <2>4. QED
    BY <2>1, <2>2, <2>3 DEF ReportedOnce
<1>6. ASSUME NEW s \in Standups, ReportPosted(s)
      PROVE  ReportedOnce'
  <2>1. /\ s \in posting
        /\ posting' = posting \ {s}
        /\ report' = [report EXCEPT ![s] = Append(report[s], reading[s])]
        /\ \A r \in Standups \ {s} : linking'[r] = linking[r]
        /\ UNCHANGED <<now, created, endAt, endQuery, reading>>
    BY <1>6 DEF ReportPosted, TypeOK
  <2>2. report[s] = <<>>
    BY <2>1 DEF ReportedOnce
  <2>3. report'[s] = <<reading[s]>>
    BY <2>1, <2>2 DEF TypeOK
  <2>4. \A r \in Standups \ {s} : report'[r] = report[r]
    BY <2>1 DEF TypeOK
  <2>5. QED
    BY <2>1, <2>3, <2>4 DEF ReportedOnce
<1>7. ASSUME NEW s \in Standups, ReportFails(s)
      PROVE  ReportedOnce'
  <2>1. /\ s \in posting
        /\ posting' = posting \ {s}
        /\ UNCHANGED <<now, created, endAt, endQuery, reading, linking>>
    BY <1>7 DEF ReportFails
  <2>2. \A r \in Standups \ {s} : report'[r] = report[r]
    BY <1>7 DEF ReportFails, TypeOK
  <2>3. linking[s] = {}
    BY <2>1 DEF ReportedOnce
  <2>4. QED
    BY <2>1, <2>2, <2>3 DEF ReportedOnce
<1>8. ASSUME NEW s \in Standups, NEW u \in Users,
             MessageLinked(s, u) \/ MessageLinkFails(s, u)
      PROVE  ReportedOnce'
  <2>1. /\ UNCHANGED <<now, created, endAt, report, reading, endQuery, posting>>
        /\ linking' = [linking EXCEPT ![s] = @ \ {u}]
    BY <1>8 DEF MessageLinked, MessageLinkFails
  <2>2. \A r \in Standups : linking'[r] \subseteq linking[r]
    BY <2>1 DEF TypeOK
  <2>3. QED
    BY <2>1, <2>2, ReportedLess
<1>9. ASSUME NEW d \in Minutes, FindEndFails(d)
      PROVE  ReportedOnce'
  BY <1>9, ReportedLess DEF FindEndFails
<1>10. CASE StartStep
  <2>1. ASSUME NEW d \in Minutes, FindByStart(d) \/ FindByStartFails(d)
        PROVE  ReportedOnce'
    BY <2>1, <1>1 DEF FindByStart, FindByStartFails
  <2>2. ASSUME NEW s \in Standups,
               \/ InsertStandupFails(s) \/ Greet(s) \/ GreetingRejected(s)
               \/ SaveRow(s) \/ RowSaved(s) \/ RowSaveFails(s)
        PROVE  ReportedOnce'
    BY <2>2, <1>1 DEF InsertStandupFails, Greet, GreetingRejected, SaveRow,
                       RowSaved, RowSaveFails
  <2>3. ASSUME NEW s \in Standups, NEW u \in Users,
               GreetingSent(s, u) \/ GreetingFails(s, u)
        PROVE  ReportedOnce'
    BY <2>3, <1>1, <1>3 DEF GreetingSent, GreetingFails
  <2>4. QED
    BY <1>4, <1>10, <2>1, <2>2, <2>3 DEF StartStep
<1>11. CASE Crash \/ Restart
  BY <1>1, <1>3, <1>11 DEF Crash, Restart
<1>12. CASE Edit \/ Worker \/ UNCHANGED vars
  BY <1>1, <1>12 DEF Edit, Worker, EditDuration, AnswersStored, MessageChecked, vars
<1>13. QED
  BY <1>2, <1>5, <1>6, <1>7, <1>8, <1>9, <1>10, <1>11, <1>12
     DEF Next, Notifier, EndStep

(* A posted or pending report has used up the end tick of its standup.     *)
LEMMA ReportInvariant ==
  Spec => [](TypeOK /\ StartedOnce /\ SavedInOrder /\ ReportedOnce)
<1>1. Init => ReportedOnce
  BY InitReportedOnce
<1>2. TypeOK /\ StartedOnce /\ ReportedOnce /\ [Next]_vars => ReportedOnce'
  BY ReportedOnceStep
<1>3. QED
  BY <1>1, <1>2, StartInvariant, PTL DEF Spec

(* The tick of a standup's end is used up by its report.                   *)
THEOREM ReportedOnceHolds == Spec => []ReportedOnce
BY ReportInvariant, PTL

(* No report before the end its standup had when its row was inserted.     *)
THEOREM ReportOnTimeHolds == Spec => []ReportOnTime
<1>1. ReportedOnce => ReportOnTime
  BY DEF ReportedOnce, ReportOnTime
<1>2. QED
  BY <1>1, ReportInvariant, PTL

(* What a step can do to the reports: one more of a standup being posted.  *)
LEMMA ReportChange ==
  ASSUME TypeOK, [Next]_vars, NEW s \in Standups
  PROVE  \/ report'[s] = report[s]
         \/ s \in posting /\ report'[s] = Append(report[s], reading[s])
<1> DEFINE Same == report' = report
<1>1. CASE Tick \/ Crash \/ Restart \/ UNCHANGED vars
  BY <1>1 DEF Tick, Crash, Restart, vars, slack
<1>2. CASE StartStep
  <2>1. Same
    BY <1>2 DEF StartStep, FindByStart, FindByStartFails, InsertStandup,
                InsertStandupFails, Greet, GreetingRejected, SaveRow,
                RowSaved, RowSaveFails, GreetingSent, GreetingFails, slack
  <2>2. QED
    BY <2>1
<1>3. ASSUME NEW r \in Standups, ReportPosted(r) \/ ReportFails(r)
      PROVE  \/ report'[s] = report[s]
             \/ s \in posting /\ report'[s] = Append(report[s], reading[s])
  <2>1. /\ r \in posting
        /\ \/ report' = report
           \/ report' = [report EXCEPT ![r] = Append(report[r], reading[r])]
    BY <1>3 DEF ReportPosted, ReportFails
  <2>2. QED
    BY <2>1 DEF TypeOK
<1>4. ASSUME NEW d \in Minutes, FindEnd(d) \/ FindEndFails(d)
      PROVE  Same
  BY <1>4 DEF FindEnd, FindEndFails, slack
<1>5. ASSUME NEW r \in Standups, NEW u \in Users,
             MessageLinked(r, u) \/ MessageLinkFails(r, u)
      PROVE  Same
  BY <1>5 DEF MessageLinked, MessageLinkFails, slack
<1>6. CASE Edit \/ Worker
  <2>1. Same
    BY <1>6 DEF Edit, Worker, EditDuration, AnswersStored, MessageChecked, slack
  <2>2. QED
    BY <2>1
<1>7. QED
  BY <1>1, <1>2, <1>3, <1>4, <1>5, <1>6 DEF Next, Notifier, EndStep

(* The channel never gets two reports of one standup, whatever crashes,    *)
(* restarts, fails or is edited: a second post would need a second query   *)
(* for the same minute.                                                    *)
THEOREM AtMostOneReportHolds == Spec => []AtMostOneReport
<1>1. Init => AtMostOneReport
  BY DEF Init, AtMostOneReport
<1>2. TypeOK /\ ReportedOnce /\ AtMostOneReport /\ [Next]_vars => AtMostOneReport'
  <2> SUFFICES ASSUME TypeOK, ReportedOnce, AtMostOneReport, [Next]_vars,
                      NEW s \in Standups
               PROVE  Len(report'[s]) <= 1
    BY DEF AtMostOneReport
  <2>1. CASE report'[s] = report[s]
    BY <2>1 DEF AtMostOneReport
  <2>2. CASE s \in posting /\ report'[s] = Append(report[s], reading[s])
    <3>1. report[s] = <<>>
      BY <2>2 DEF ReportedOnce
    <3>2. report'[s] = <<reading[s]>>
      BY <2>2, <3>1
    <3>3. QED
      BY <3>2
  <2>3. QED
    BY <2>1, <2>2, ReportChange
<1>3. QED
  BY <1>1, <1>2, ReportInvariant, PTL DEF Spec

-----------------------------------------------------------------------------
(* What a report lists.                                                    *)

(* Nothing is ever taken back from the store.                              *)
StoreGrows ==
  /\ \A s \in Standups : rows[s] \subseteq rows'[s]
  /\ \A s \in Standups, u \in Users :
       answers[s][u] # NoAnswer => answers'[s][u] # NoAnswer

(* Rows are only added; an answer is only replaced by another.             *)
LEMMA StoreGrowsStep == TypeOK /\ [Next]_vars => StoreGrows
<1> SUFFICES ASSUME TypeOK, [Next]_vars
             PROVE  StoreGrows
  OBVIOUS
<1>1. CASE UNCHANGED <<rows, answers>>
  BY <1>1 DEF StoreGrows
<1>2. ASSUME NEW s \in Standups, RowSaved(s)
      PROVE  StoreGrows
  BY <1>2 DEF RowSaved, StoreGrows, TypeOK
<1>3. ASSUME NEW sheet \in Sheets, AnswersStored(sheet)
      PROVE  StoreGrows
  <2>1. \A s \in Standups, u \in Users :
          answers[s][u] # NoAnswer => Written(answers, sheet)[s][u] # NoAnswer
    BY DEF Written
  <2>2. QED
    BY <1>3, <2>1 DEF AnswersStored, StoreGrows
<1>4. CASE Tick \/ Crash \/ Restart \/ UNCHANGED vars
  BY <1>1, <1>4 DEF Tick, Crash, Stop, Restart, vars, store
<1>5. CASE StartStep
  <2>1. ASSUME NEW d \in Minutes, FindByStart(d) \/ FindByStartFails(d)
        PROVE  StoreGrows
    BY <2>1, <1>1 DEF FindByStart, FindByStartFails, store
  <2>2. ASSUME NEW s \in Standups,
               \/ InsertStandup(s) \/ InsertStandupFails(s) \/ Greet(s)
               \/ GreetingRejected(s) \/ SaveRow(s) \/ RowSaveFails(s)
        PROVE  StoreGrows
    BY <2>2, <1>1 DEF InsertStandup, InsertStandupFails, Greet,
                       GreetingRejected, SaveRow, RowSaveFails, store
  <2>3. ASSUME NEW s \in Standups, NEW u \in Users,
               GreetingSent(s, u) \/ GreetingFails(s, u)
        PROVE  StoreGrows
    BY <2>3, <1>1 DEF GreetingSent, GreetingFails, Stop, store
  <2>4. QED
    BY <1>2, <1>5, <2>1, <2>2, <2>3 DEF StartStep
<1>6. CASE EndStep
  BY <1>1, <1>6 DEF EndStep, FindEnd, FindEndFails, ReportPosted, ReportFails,
                    MessageLinked, MessageLinkFails, store
<1>7. CASE Edit
  BY <1>1, <1>7 DEF Edit, EditDuration
<1>8. ASSUME NEW s \in Standups, NEW u \in Users, MessageChecked(s, u)
      PROVE  StoreGrows
  BY <1>1, <1>8 DEF MessageChecked, store
<1>9. QED
  BY <1>3, <1>4, <1>5, <1>6, <1>7, <1>8 DEF Next, Notifier, Worker

(* sendReport starts from nothing read.                                    *)
LEMMA InitReadFromStore == Init => ReadFromStore
BY DEF Init, ReadFromStore, NothingRead

(* Readings that stay, while the store only grows.                         *)
LEMMA ReadFromStoreFrame ==
  ASSUME TypeOK, ReadFromStore, StoreGrows, UNCHANGED reading
  PROVE  ReadFromStore'
<1>1. \A s \in Standups : DOMAIN reading[s] \subseteq Users
  BY ReadingDomain DEF TypeOK
<1>2. QED
  BY <1>1 DEF ReadFromStore, StoreGrows

(* Every step keeps ReadFromStore: findEnd reads rows and answers at once, *)
(* and sendReport only goes through the users it has read.                 *)
LEMMA ReadFromStoreStep ==
  TypeOK /\ ReadFromStore /\ [Next]_vars => ReadFromStore'
<1> SUFFICES ASSUME TypeOK, ReadFromStore, [Next]_vars
             PROVE  ReadFromStore'
  OBVIOUS
<1> USE DEF endMem
<1>1. StoreGrows
  BY StoreGrowsStep
<1>2. CASE UNCHANGED reading
  BY <1>1, <1>2, ReadFromStoreFrame
<1>3. CASE Stop
  <2>1. \A s \in Standups : DOMAIN reading'[s] = {}
    BY <1>3 DEF Stop, NothingRead
  <2>2. QED
    BY <2>1 DEF ReadFromStore
<1>4. ASSUME NEW d \in Minutes, FindEnd(d)
      PROVE  ReadFromStore'
  <2>1. /\ \A s \in Standups : reading'[s] =
             IF s \in Ending(d) THEN RowsRead(s)
                                ELSE reading[s]
        /\ UNCHANGED <<rows, answers>>
    BY <1>4 DEF FindEnd, store
  <2>2. ASSUME NEW s \in Standups
        PROVE  /\ DOMAIN reading'[s] \subseteq rows'[s]
               /\ \A u \in DOMAIN reading'[s] :
                    reading'[s][u] # NoAnswer => answers'[s][u] # NoAnswer
    <3>1. CASE s \in Ending(d)
      BY <2>1, <3>1 DEF RowsRead
    <3>2. CASE s \notin Ending(d)
      BY <2>1, <3>2 DEF ReadFromStore
    <3>3. QED
      BY <3>1, <3>2
  <2>3. QED
    BY <2>2 DEF ReadFromStore
<1>5. ASSUME NEW s \in Standups, SaveRow(s) \/ ReportPosted(s) \/ ReportFails(s)
      PROVE  ReadFromStore'
  BY <1>2, <1>5 DEF SaveRow, ReportPosted, ReportFails
<1>6. ASSUME NEW s \in Standups, NEW u \in Users,
             MessageLinked(s, u) \/ MessageLinkFails(s, u)
      PROVE  ReadFromStore'
  BY <1>2, <1>6 DEF MessageLinked, MessageLinkFails
<1>7. CASE StartStep
  <2>1. ASSUME NEW s \in Standups, NEW u \in Users, GreetingFails(s, u)
        PROVE  ReadFromStore'
    BY <2>1, <1>2, <1>3 DEF GreetingFails
  <2>2. ASSUME NEW d \in Minutes, FindByStart(d) \/ FindByStartFails(d)
        PROVE  ReadFromStore'
    BY <2>2, <1>2 DEF FindByStart, FindByStartFails
  <2>3. ASSUME NEW s \in Standups,
               \/ InsertStandup(s) \/ InsertStandupFails(s) \/ Greet(s)
               \/ GreetingRejected(s) \/ SaveRow(s) \/ RowSaved(s)
               \/ RowSaveFails(s) \/ \E u \in Users : GreetingSent(s, u)
        PROVE  ReadFromStore'
    BY <2>3, <1>2 DEF InsertStandup, InsertStandupFails, Greet,
                       GreetingRejected, SaveRow, RowSaved, RowSaveFails,
                       GreetingSent
  <2>4. QED
    BY <1>7, <2>1, <2>2, <2>3 DEF StartStep
<1>8. CASE EndStep
  <2>1. ASSUME NEW d \in Minutes, FindEndFails(d)
        PROVE  ReadFromStore'
    BY <2>1, <1>2 DEF FindEndFails
  <2>2. ASSUME NEW s \in Standups, ReportFails(s)
        PROVE  ReadFromStore'
    BY <2>2, <1>2 DEF ReportFails
  <2>3. QED
    BY <1>4, <1>5, <1>6, <1>8, <2>1, <2>2 DEF EndStep
<1>9. CASE Tick \/ Crash \/ Restart
  BY <1>2, <1>3, <1>9 DEF Tick, Crash, Restart
<1>10. CASE Edit \/ Worker \/ UNCHANGED vars
  BY <1>2, <1>10 DEF Edit, Worker, EditDuration, AnswersStored, MessageChecked, vars
<1>11. QED
  BY <1>7, <1>8, <1>9, <1>10 DEF Next, Notifier

(* Everything the theorems below rest on.                                  *)
LEMMA ReadInvariant ==
  Spec => [](TypeOK /\ StartedOnce /\ SavedInOrder /\ ReportedOnce /\ ReadFromStore)
<1>1. Init => ReadFromStore
  BY InitReadFromStore
<1>2. TypeOK /\ ReadFromStore /\ [Next]_vars => ReadFromStore'
  BY ReadFromStoreStep
<1>3. QED
  BY <1>1, <1>2, ReportInvariant, PTL DEF Spec

(* What sendReport works from was read from rows and answers that exist.   *)
THEOREM ReadFromStoreHolds == Spec => []ReadFromStore
BY ReadInvariant, PTL

(* A report lists no user without a row and no answer nobody gave, however *)
(* much time and change lie between findEnd's query and the post.          *)
THEOREM ReportBackedHolds == Spec => []ReportBacked
<1> DEFINE Backed(s, r) ==
             /\ DOMAIN r \subseteq rows[s]
             /\ \A u \in DOMAIN r : r[u] # NoAnswer => answers[s][u] # NoAnswer
           StillBacked(s, r) ==
             /\ DOMAIN r \subseteq rows'[s]
             /\ \A u \in DOMAIN r : r[u] # NoAnswer => answers'[s][u] # NoAnswer
<1>1. Init => ReportBacked
  BY DEF Init, ReportBacked
<1>2. TypeOK /\ ReportedOnce /\ ReadFromStore /\ ReportBacked /\ [Next]_vars
        => ReportBacked'
  <2> SUFFICES ASSUME TypeOK, ReportedOnce, ReadFromStore, ReportBacked, [Next]_vars,
                      NEW s \in Standups, NEW i \in DOMAIN report'[s]
               PROVE  StillBacked(s, report'[s][i])
    BY DEF ReportBacked
  <2>1. StoreGrows
    BY StoreGrowsStep
  <2>2. ASSUME NEW r \in Readings, Backed(s, r)
        PROVE  StillBacked(s, r)
    <3>1. DOMAIN r \subseteq Users
      BY ReadingDomain
    <3>2. QED
      BY <2>1, <2>2, <3>1 DEF StoreGrows
  <2> HIDE DEF Backed, StillBacked
  <2>3. CASE report'[s] = report[s]
    <3>1. i \in DOMAIN report[s] /\ report[s][i] \in Readings
      BY <2>3 DEF TypeOK
    <3>2. Backed(s, report[s][i])
      BY <3>1 DEF ReportBacked, Backed
    <3>3. QED
      BY <2>2, <2>3, <3>1, <3>2
  <2>4. CASE s \in posting /\ report'[s] = Append(report[s], reading[s])
    <3>1. report[s] = <<>>
      BY <2>4 DEF ReportedOnce
    <3>2. report'[s] = <<reading[s]>>
      BY <2>4, <3>1
    <3>3. report'[s][i] = reading[s]
      BY <3>2
    <3>4. reading[s] \in Readings /\ Backed(s, reading[s])
      BY DEF ReadFromStore, TypeOK, Backed
    <3>5. QED
      BY <2>2, <3>3, <3>4
  <2>5. QED
    BY <2>3, <2>4, ReportChange
<1>3. QED
  BY <1>1, <1>2, ReadInvariant, PTL DEF Spec

-----------------------------------------------------------------------------
(* What a message shows.                                                   *)

(* A check mark or a link comes from a chat.update of sendReport or, the   *)
(* check mark alone, of the worker; greetings carry neither.               *)
LEMMA PromptChange ==
  ASSUME TypeOK, [Next]_vars, NEW s \in Standups, NEW u \in Users
  PROVE  \/ message'[s][u] = message[s][u]
         \/ message'[s][u] = StandupMsg(FALSE, FALSE)
         \/ MessageLinked(s, u)
         \/ MessageChecked(s, u)
<1> DEFINE Changed == \/ message'[s][u] = message[s][u]
                      \/ message'[s][u] = StandupMsg(FALSE, FALSE)
                      \/ MessageLinked(s, u)
                      \/ MessageChecked(s, u)
<1>1. CASE UNCHANGED message
  BY <1>1
<1>2. ASSUME NEW r \in Standups, NEW v \in Users,
             GreetingSent(r, v) \/ GreetingFails(r, v)
      PROVE  Changed
  <2>1. \/ UNCHANGED message
        \/ message' = [message EXCEPT ![r][v] = StandupMsg(FALSE, FALSE)]
    BY <1>2 DEF GreetingSent, GreetingFails
  <2>2. CASE UNCHANGED message
    BY <2>2
  <2>3. CASE message' = [message EXCEPT ![r][v] = StandupMsg(FALSE, FALSE)]
    <3>1. \/ message'[s][u] = message[s][u]
          \/ message'[s][u] = StandupMsg(FALSE, FALSE)
      BY <2>3 DEF TypeOK
    <3>2. QED
      BY <3>1
  <2>4. QED
    BY <2>1, <2>2, <2>3
<1>3. ASSUME NEW r \in Standups, NEW v \in Users, MessageLinked(r, v)
      PROVE  Changed
  <2>1. CASE r = s /\ v = u
    BY <1>3, <2>1
  <2>2. CASE r # s \/ v # u
    BY <1>3, <2>2 DEF MessageLinked, TypeOK
  <2>3. QED
    BY <2>1, <2>2
<1>4. ASSUME NEW r \in Standups, NEW v \in Users, MessageChecked(r, v)
      PROVE  Changed
  <2>1. CASE r = s /\ v = u
    BY <1>4, <2>1
  <2>2. CASE r # s \/ v # u
    BY <1>4, <2>2 DEF MessageChecked, TypeOK
  <2>3. QED
    BY <2>1, <2>2
<1> HIDE DEF Changed
<1>5. CASE Tick \/ Crash \/ Restart \/ Edit \/ UNCHANGED vars
  <2>1. UNCHANGED message
    BY <1>5 DEF Tick, Crash, Restart, Edit, EditDuration, vars, slack
  <2>2. QED
    BY <1>1, <2>1
<1>6. CASE StartStep
  <2>1. ASSUME NEW d \in Minutes, FindByStart(d) \/ FindByStartFails(d)
        PROVE  UNCHANGED message
    BY <2>1 DEF FindByStart, FindByStartFails, slack
  <2>2. ASSUME NEW r \in Standups,
               \/ InsertStandup(r) \/ InsertStandupFails(r) \/ Greet(r)
               \/ GreetingRejected(r) \/ SaveRow(r) \/ RowSaved(r)
               \/ RowSaveFails(r)
        PROVE  UNCHANGED message
    BY <2>2 DEF InsertStandup, InsertStandupFails, Greet, GreetingRejected,
                SaveRow, RowSaved, RowSaveFails, slack
  <2>3. QED
    BY <1>1, <1>2, <1>6, <2>1, <2>2 DEF StartStep, Changed
<1>7. CASE EndStep
  <2>1. ASSUME NEW d \in Minutes, FindEnd(d) \/ FindEndFails(d)
        PROVE  UNCHANGED message
    BY <2>1 DEF FindEnd, FindEndFails, slack
  <2>2. ASSUME NEW r \in Standups,
               ReportPosted(r) \/ ReportFails(r) \/ \E v \in Users : MessageLinkFails(r, v)
        PROVE  UNCHANGED message
    BY <2>2 DEF ReportPosted, ReportFails, MessageLinkFails, slack
  <2>3. QED
    BY <1>1, <1>3, <1>7, <2>1, <2>2 DEF EndStep, Changed
<1>8. CASE Worker
  <2>1. ASSUME NEW sheet \in Sheets, AnswersStored(sheet)
        PROVE  UNCHANGED message
    BY <2>1 DEF AnswersStored, slack
  <2>2. QED
    BY <1>1, <1>4, <1>8, <2>1 DEF Worker, Changed
<1>9. QED
  BY <1>5, <1>6, <1>7, <1>8 DEF Next, Notifier, Changed

(* What sendReport draws.                                                  *)
LEMMA LinkedPrompt ==
  ASSUME TypeOK, NEW s \in Standups, NEW u \in Users, MessageLinked(s, u)
  PROVE  message'[s][u].check = Answered(reading[s], u)
<1> DEFINE submitted == Answered(reading[s], u)
<1>1. message' = [message EXCEPT ![s][u] = StandupMsg(submitted, TRUE)]
  BY DEF MessageLinked
<1> HIDE DEF submitted
<1>2. message'[s][u] = StandupMsg(submitted, TRUE)
  BY <1>1 DEF TypeOK
<1>3. message'[s][u].check = submitted
  BY <1>2 DEF StandupMsg
<1>4. QED
  BY <1>3 DEF submitted

(* Both processes draw a check mark only from answers that are stored, and *)
(* a stored answer is never taken away.                                    *)
THEOREM CheckMeansAnswerHolds == Spec => []CheckMeansAnswer
<1>1. Init => CheckMeansAnswer
  BY DEF Init, CheckMeansAnswer, NoPrompt
<1>2. TypeOK /\ ReadFromStore /\ CheckMeansAnswer /\ [Next]_vars
        => CheckMeansAnswer'
  <2> SUFFICES ASSUME TypeOK, ReadFromStore, CheckMeansAnswer, [Next]_vars,
                      NEW s \in Standups, NEW u \in Users,
                      message'[s][u].check
               PROVE  answers'[s][u] # NoAnswer
    BY DEF CheckMeansAnswer
  <2>1. StoreGrows
    BY StoreGrowsStep
  <2>2. CASE message'[s][u] = message[s][u]
    BY <2>1, <2>2 DEF CheckMeansAnswer, StoreGrows
  <2>3. CASE message'[s][u] = StandupMsg(FALSE, FALSE)
    BY <2>3 DEF StandupMsg
  <2>4. CASE MessageLinked(s, u)
    <3>1. message'[s][u].check = Answered(reading[s], u)
      BY <2>4, LinkedPrompt
    <3>2. u \in DOMAIN reading[s] /\ reading[s][u] # NoAnswer
      BY <3>1 DEF Answered
    <3>3. answers[s][u] # NoAnswer
      BY <3>2 DEF ReadFromStore
    <3>4. QED
      BY <2>1, <3>3 DEF StoreGrows
  <2>5. CASE MessageChecked(s, u)
    BY <2>1, <2>5 DEF MessageChecked, StoreGrows
  <2>6. QED
    BY <2>2, <2>3, <2>4, <2>5, PromptChange
<1>3. QED
  BY <1>1, <1>2, ReadInvariant, PTL DEF Spec

(* A message with a link links to a report in the channel, and its check   *)
(* mark says what that report says of the user: sendReport posts before it *)
(* updates, from the same reading.                                         *)
THEOREM LinkAgreesWithReportHolds == Spec => []LinkAgreesWithReport
<1>1. Init => LinkAgreesWithReport
  BY DEF Init, LinkAgreesWithReport, NoPrompt
<1>2. TypeOK /\ ReportedOnce /\ LinkAgreesWithReport /\ [Next]_vars
        => LinkAgreesWithReport'
  <2> DEFINE Agrees(r, c, u) == \E i \in DOMAIN r : c <=> Answered(r[i], u)
  <2> SUFFICES ASSUME TypeOK, ReportedOnce, LinkAgreesWithReport, [Next]_vars,
                      NEW s \in Standups, NEW u \in Users,
                      message'[s][u].link
               PROVE  Agrees(report'[s], message'[s][u].check, u)
    BY DEF LinkAgreesWithReport
  <2>1. CASE message'[s][u] = message[s][u]
    <3>1. Agrees(report[s], message'[s][u].check, u)
      BY <2>1 DEF LinkAgreesWithReport
    <3>2. CASE report'[s] = report[s]
      BY <3>1, <3>2
    <3>3. CASE s \in posting /\ report'[s] = Append(report[s], reading[s])
      <4>1. report[s] = <<>>
        BY <3>3 DEF ReportedOnce
      <4>2. QED
        BY <3>1, <4>1
    <3>4. QED
      BY <3>2, <3>3, ReportChange
  <2>2. CASE message'[s][u] = StandupMsg(FALSE, FALSE)
    BY <2>2 DEF StandupMsg
  <2>3. CASE MessageLinked(s, u)
    <3>1. u \in linking[s] /\ report'[s] = report[s]
      BY <2>3 DEF MessageLinked
    <3>2. report'[s] = <<reading[s]>>
      BY <3>1 DEF ReportedOnce
    <3>3. message'[s][u].check = Answered(reading[s], u)
      BY <2>3, LinkedPrompt
    <3>4. 1 \in DOMAIN report'[s] /\ report'[s][1] = reading[s]
      BY <3>2
    <3>5. QED
      BY <3>3, <3>4
  <2>4. CASE MessageChecked(s, u)
    <3>1. message'[s][u] = StandupMsg(TRUE, FALSE)
      BY <2>4 DEF MessageChecked, TypeOK
    <3>2. QED
      BY <3>1 DEF StandupMsg
  <2>5. QED
    BY <2>1, <2>2, <2>3, <2>4, PromptChange
<1>3. QED
  BY <1>1, <1>2, ReadInvariant, PTL DEF Spec

-----------------------------------------------------------------------------
(* What the interaction path may rely on.                                  *)

(* The initial state creates nothing.                                      *)
LEMMA InitLoadedFromTeam == Init => LoadedFromTeam
BY DEF Init, LoadedFromTeam

(* A query only writes durations of teams into the objects it refreshes.   *)
LEMMA RefreshedFromTeam ==
  ASSUME TypeOK, LoadedFromTeam, NEW S \in SUBSET Standups,
         NEW calls \in [Standups -> {"idle", "matched", "inserted"}],
         \A s \in Standups : calls[s] = "matched" => creating[s] = "matched" \/ s \in S
  PROVE  \A s \in Standups :
           calls[s] = "matched" => Refreshed(S, calls)[s] \in Durations
<1> SUFFICES ASSUME NEW s \in Standups, calls[s] = "matched"
             PROVE  Refreshed(S, calls)[s] \in Durations
  OBVIOUS
<1>1. duration[Team(s)] \in Durations
  BY StandupType DEF TypeOK
<1>2. CASE \E r \in S : Team(r) = Team(s)
  BY <1>1, <1>2 DEF Refreshed
<1>3. CASE ~\E r \in S : Team(r) = Team(s)
  BY <1>3 DEF Refreshed, LoadedFromTeam
<1>4. QED
  BY <1>2, <1>3

(* Every step keeps LoadedFromTeam.                                        *)
LEMMA LoadedFromTeamStep == TypeOK /\ LoadedFromTeam /\ [Next]_vars => LoadedFromTeam'
<1> SUFFICES ASSUME TypeOK, LoadedFromTeam, [Next]_vars
             PROVE  LoadedFromTeam'
  OBVIOUS
<1> USE DEF store, slack, streams, startMem, endMem
<1>1. ASSUME \A s \in Standups :
               creating'[s] = "matched" => creating[s] = "matched" /\ loaded'[s] = loaded[s]
      PROVE  LoadedFromTeam'
  BY <1>1 DEF LoadedFromTeam
<1>2. CASE UNCHANGED <<creating, loaded>>
  BY <1>1, <1>2
<1>3. CASE Stop
  <2>1. \A s \in Standups : creating'[s] = "idle"
    BY <1>3 DEF Stop
  <2>2. QED
    BY <1>1, <2>1
<1>4. ASSUME NEW d \in Minutes, FindByStart(d)
      PROVE  LoadedFromTeam'
  <2>1. /\ creating' = [s \in Standups |->
                          IF s \in Due(d) THEN "matched" ELSE creating[s]]
        /\ loaded' = Refreshed(Due(d), creating')
    BY <1>4 DEF FindByStart
  <2>2. creating' \in [Standups -> {"idle", "matched", "inserted"}]
    BY <2>1 DEF TypeOK
  <2>3. Due(d) \in SUBSET Standups
    BY DEF Due
  <2>4. \A s \in Standups :
          creating'[s] = "matched" => creating[s] = "matched" \/ s \in Due(d)
    BY <2>1
  <2>5. QED
    BY <2>1, <2>2, <2>3, <2>4, RefreshedFromTeam DEF LoadedFromTeam
<1>5. ASSUME NEW d \in Minutes, FindEnd(d)
      PROVE  LoadedFromTeam'
  <2>1. UNCHANGED creating /\ loaded' = Refreshed(Ending(d), creating)
    BY <1>5 DEF FindEnd
  <2>2. Ending(d) \in SUBSET Standups
    BY DEF Ending, TypeOK
  <2>3. creating \in [Standups -> {"idle", "matched", "inserted"}]
    BY DEF TypeOK
  <2>4. QED
    BY <2>1, <2>2, <2>3, RefreshedFromTeam DEF LoadedFromTeam
<1>6. ASSUME NEW s \in Standups, InsertStandup(s) \/ InsertStandupFails(s)
      PROVE  LoadedFromTeam'
  BY <1>1, <1>6 DEF InsertStandup, InsertStandupFails, TypeOK
<1>7. ASSUME NEW s \in Standups, Greet(s)
      PROVE  LoadedFromTeam'
  BY <1>1, <1>7 DEF Greet, TypeOK
<1>8. CASE Notifier
  <2>1. CASE Tick \/ Crash \/ Restart
    BY <2>1, <1>2, <1>3 DEF Tick, Crash, Restart
  <2>2. ASSUME NEW d \in Minutes, FindByStartFails(d) \/ FindEndFails(d)
        PROVE  LoadedFromTeam'
    BY <2>2, <1>2 DEF FindByStartFails, FindEndFails
  <2>3. ASSUME NEW s \in Standups,
               \/ GreetingRejected(s) \/ SaveRow(s) \/ RowSaved(s)
               \/ RowSaveFails(s) \/ ReportPosted(s) \/ ReportFails(s)
        PROVE  LoadedFromTeam'
    BY <2>3, <1>2 DEF GreetingRejected, SaveRow, RowSaved, RowSaveFails,
                       ReportPosted, ReportFails
  <2>4. ASSUME NEW s \in Standups, NEW u \in Users,
               \/ GreetingSent(s, u) \/ GreetingFails(s, u)
               \/ MessageLinked(s, u) \/ MessageLinkFails(s, u)
        PROVE  LoadedFromTeam'
    BY <2>4, <1>2, <1>3 DEF GreetingSent, GreetingFails, MessageLinked,
                             MessageLinkFails
  <2>5. QED
    BY <1>4, <1>5, <1>6, <1>7, <1>8, <2>1, <2>2, <2>3, <2>4
       DEF Notifier, StartStep, EndStep
<1>9. CASE Edit \/ Worker \/ UNCHANGED vars
  BY <1>2, <1>9 DEF Edit, Worker, EditDuration, AnswersStored, MessageChecked, vars
<1>10. QED
  BY <1>8, <1>9 DEF Next

(* The initial state has neither answers nor links to draw.                *)
LEMMA InitAskedBefore == Init => AskedBefore
BY DEF Init, AskedBefore

(* Every step keeps AskedBefore: rows and messages stay, links are drawn   *)
(* for users with a row and for the one whose row is being saved.          *)
LEMMA AskedBeforeStep ==
  /\ TypeOK /\ SavedInOrder /\ RowsFollowRoster /\ ReadFromStore /\ AskedBefore
  /\ [Next]_vars
  => AskedBefore'
<1> SUFFICES ASSUME TypeOK, SavedInOrder, RowsFollowRoster, ReadFromStore, AskedBefore,
                    [Next]_vars
             PROVE  AskedBefore'
  OBVIOUS
<1> USE DEF store, slack, streams, startMem, endMem
<1>1. MessagesStay /\ StoreGrows
  BY MessagesStayStep, StoreGrowsStep
<1>2. ASSUME UNCHANGED answers,
             \A s \in Standups, u \in Users :
               u \in linking'[s] \union joined'[s] =>
                 u \in linking[s] \union joined[s] \/ message[s][u].sent
      PROVE  AskedBefore'
  BY <1>1, <1>2 DEF AskedBefore, MessagesStay, StoreGrows
<1>3. CASE UNCHANGED <<answers, linking, joined>>
  BY <1>2, <1>3
<1>4. CASE Stop
  BY <1>2, <1>4 DEF Stop
<1>5. ASSUME NEW sheet \in Sheets, AnswersStored(sheet)
      PROVE  AskedBefore'
  <2>1. /\ answers' = Written(answers, sheet)
        /\ \A s \in Standups, u \in Users : sheet[s][u] # NoAnswer => u \in rows[s]
        /\ UNCHANGED <<linking, joined>>
    BY <1>5 DEF AnswersStored
  <2>2. \A s \in Standups, u \in Users :
          answers'[s][u] = answers[s][u] \/ u \in rows[s]
    BY <2>1 DEF Written
  <2>3. QED
    BY <1>1, <2>1, <2>2 DEF AskedBefore, MessagesStay, StoreGrows
<1>6. ASSUME NEW s \in Standups, SaveRow(s)
      PROVE  AskedBefore'
  <2> DEFINE w == Asked(s)[cursor[s]]
  <2>1. w \in Users
    BY <1>6, StandupType DEF SaveRow
  <2>2. /\ greeting[s][w] = "sent"
        /\ \/ UNCHANGED joined
           \/ joined' = [joined EXCEPT ![s] = joined[s] \union {w}]
        /\ UNCHANGED <<answers, linking>>
    BY <1>6 DEF SaveRow
  <2>3. message[s][w].sent
    BY <2>1, <2>2 DEF SavedInOrder
  <2> HIDE DEF w
  <2>4. \A r \in Standups : joined'[r] \subseteq joined[r] \union (IF r = s THEN {w} ELSE {})
    BY <2>2 DEF TypeOK
  <2>5. QED
    BY <1>2, <2>2, <2>3, <2>4
<1>7. ASSUME NEW s \in Standups, ReportPosted(s)
      PROVE  AskedBefore'
  <2>1. /\ linking' = [linking EXCEPT ![s] = DOMAIN reading[s] \union joined[s]]
        /\ joined' = [joined EXCEPT ![s] = {}]
        /\ UNCHANGED answers
    BY <1>7 DEF ReportPosted
  <2>2. \A u \in DOMAIN reading[s] : message[s][u].sent
    BY DEF ReadFromStore, RowsFollowRoster
  <2>3. QED
    BY <1>2, <2>1, <2>2 DEF TypeOK
<1>8. ASSUME NEW s \in Standups, ReportFails(s)
      PROVE  AskedBefore'
  BY <1>2, <1>8 DEF ReportFails, TypeOK
<1>9. ASSUME NEW s \in Standups, NEW u \in Users,
             MessageLinked(s, u) \/ MessageLinkFails(s, u)
      PROVE  AskedBefore'
  <2>1. linking' = [linking EXCEPT ![s] = @ \ {u}] /\ UNCHANGED <<answers, joined>>
    BY <1>9 DEF MessageLinked, MessageLinkFails
  <2>2. QED
    BY <1>2, <2>1 DEF TypeOK
<1>10. CASE Notifier
  <2>1. CASE Tick \/ Crash \/ Restart
    BY <2>1, <1>3, <1>4 DEF Tick, Crash, Restart
  <2>2. ASSUME NEW d \in Minutes,
               FindByStart(d) \/ FindByStartFails(d) \/ FindEnd(d) \/ FindEndFails(d)
        PROVE  AskedBefore'
    BY <2>2, <1>3 DEF FindByStart, FindByStartFails, FindEnd, FindEndFails
  <2>3. ASSUME NEW s \in Standups,
               \/ InsertStandup(s) \/ InsertStandupFails(s) \/ Greet(s)
               \/ GreetingRejected(s) \/ RowSaved(s) \/ RowSaveFails(s)
        PROVE  AskedBefore'
    BY <2>3, <1>3 DEF InsertStandup, InsertStandupFails, Greet, GreetingRejected,
                       RowSaved, RowSaveFails
  <2>4. ASSUME NEW s \in Standups, NEW u \in Users,
               GreetingSent(s, u) \/ GreetingFails(s, u)
        PROVE  AskedBefore'
    BY <2>4, <1>3, <1>4 DEF GreetingSent, GreetingFails
  <2>5. QED
    BY <1>6, <1>7, <1>8, <1>9, <1>10, <2>1, <2>2, <2>3, <2>4
       DEF Notifier, StartStep, EndStep
<1>11. CASE Edit \/ Worker \/ UNCHANGED vars
  BY <1>3, <1>5, <1>11 DEF Edit, Worker, EditDuration, MessageChecked, vars
<1>12. QED
  BY <1>10, <1>11 DEF Next

(* The initial state has greeted nobody.                                   *)
LEMMA InitGreetedOnce == Init => GreetedOnce
BY DEF Init, GreetedOnce, NoPrompt, NoGreetings

(* A step that inserts and starts nothing, and draws only over messages    *)
(* that are there or for a greeting that is being sent.                    *)
LEMMA GreetedOnceFrame ==
  ASSUME GreetedOnce, UNCHANGED created,
         \A s \in Standups : creating'[s] \in {creating[s], "idle"},
         \A s \in Standups, u \in Users :
           /\ \/ greeting'[s][u] \in {greeting[s][u], "none"}
              \/ greeting[s][u] = "sending" /\ greeting'[s][u] # "sending"
           /\ message'[s][u].sent =>
                \/ message[s][u].sent
                \/ greeting[s][u] = "sending" /\ greeting'[s][u] # "sending"
  PROVE  GreetedOnce'
BY DEF GreetedOnce

(* Every step keeps GreetedOnce.                                           *)
LEMMA GreetedOnceStep ==
  /\ TypeOK /\ StartedOnce /\ RowsFollowRoster /\ AskedBefore /\ GreetedOnce
  /\ [Next]_vars
  => GreetedOnce'
<1> SUFFICES ASSUME TypeOK, StartedOnce, RowsFollowRoster, AskedBefore, GreetedOnce,
                    [Next]_vars
             PROVE  GreetedOnce'
  OBVIOUS
<1> USE DEF store, slack, streams, startMem, endMem
<1>1. CASE UNCHANGED <<created, creating, greeting, message>>
  BY <1>1 DEF GreetedOnce
<1>2. CASE Crash
  BY <1>2, GreetedOnceFrame DEF Crash, Stop, NoGreetings
<1>3. ASSUME NEW d \in Minutes, FindByStart(d)
      PROVE  GreetedOnce'
  <2>1. /\ d \in startQuery
        /\ \A s \in Standups :
             creating'[s] = IF s \in Due(d) THEN "matched" ELSE creating[s]
        /\ UNCHANGED <<created, greeting, message>>
    BY <1>3 DEF FindByStart
  <2>2. \A s \in Due(d) : s \notin created
    BY <2>1 DEF Due, StartedOnce
  <2>3. QED
    BY <2>1, <2>2 DEF GreetedOnce
<1>4. ASSUME NEW s \in Standups, InsertStandup(s)
      PROVE  GreetedOnce'
  <2>1. /\ creating[s] = "matched" /\ creating' = [creating EXCEPT ![s] = "inserted"]
        /\ created' = created \union {s}
        /\ UNCHANGED <<greeting, message>>
    BY <1>4 DEF InsertStandup
  <2>2. \A r \in Standups : creating'[r] = IF r = s THEN "inserted" ELSE creating[r]
    BY <2>1 DEF TypeOK
  <2>3. QED
    BY <2>1, <2>2 DEF GreetedOnce
<1>5. ASSUME NEW s \in Standups, InsertStandupFails(s)
      PROVE  GreetedOnce'
  BY <1>5, GreetedOnceFrame DEF InsertStandupFails, EndStart, TypeOK
<1>6. ASSUME NEW s \in Standups, Greet(s)
      PROVE  GreetedOnce'
  <2>1. /\ creating[s] = "inserted" /\ creating' = [creating EXCEPT ![s] = "idle"]
        /\ UNCHANGED <<created, message>>
    BY <1>6 DEF Greet
  <2>2. s \in created /\ \A u \in Users : ~message[s][u].sent
    BY <2>1 DEF StartedOnce, GreetedOnce
  <2>3. \A r \in Standups : creating'[r] = IF r = s THEN "idle" ELSE creating[r]
    BY <2>1 DEF TypeOK
  <2>4. \A r \in Standups, u \in Users :
          \/ greeting'[r][u] = greeting[r][u]
          \/ r = s /\ greeting'[r][u] # "none" /\ u \in Members(s)
          \/ greeting'[r][u] = "none"
    <3> DEFINE fresh == [u \in Users |-> IF u \in Members(s) THEN "sending" ELSE "none"]
    <3>1. \A u \in Users :
            fresh[u] = "none" \/ (fresh[u] # "none" /\ u \in Members(s))
      OBVIOUS
    <3>2. \/ UNCHANGED greeting
          \/ greeting' = [greeting EXCEPT ![s] = fresh]
      BY <1>6 DEF Greet
    <3> HIDE DEF fresh
    <3>3. QED
      BY <3>1, <3>2 DEF TypeOK
  <2>5. QED
    BY <2>1, <2>2, <2>3, <2>4 DEF GreetedOnce
<1>7. ASSUME NEW s \in Standups, NEW u \in Users, greeting[s][u] = "sending",
             UNCHANGED <<created, creating>>,
             NEW outcome \in {"sent", "failed"},
             greeting' = [greeting EXCEPT ![s][u] = outcome],
             \A r \in Standups, v \in Users :
               message'[r][v] = message[r][v] \/ (r = s /\ v = u)
      PROVE  GreetedOnce'
  <2>1. \A r \in Standups, v \in Users :
          greeting'[r][v] = IF r = s /\ v = u THEN outcome ELSE greeting[r][v]
    BY <1>7 DEF TypeOK
  <2>2. QED
    BY <1>7, <2>1, GreetedOnceFrame
<1>8. ASSUME NEW s \in Standups, NEW u \in Users, GreetingSent(s, u)
      PROVE  GreetedOnce'
  <2>1. \A r \in Standups, v \in Users :
          message'[r][v] = message[r][v] \/ (r = s /\ v = u)
    BY <1>8 DEF GreetingSent, TypeOK
  <2>2. QED
    BY <1>7, <1>8, <2>1 DEF GreetingSent
<1>9. ASSUME NEW s \in Standups, NEW u \in Users, GreetingFails(s, u)
      PROVE  GreetedOnce'
  <2>1. \A r \in Standups, v \in Users :
          message'[r][v] = message[r][v] \/ (r = s /\ v = u)
    <3>1. \/ UNCHANGED message
          \/ message' = [message EXCEPT ![s][u] = StandupMsg(FALSE, FALSE)]
      BY <1>9 DEF GreetingFails
    <3>2. CASE UNCHANGED message
      BY <3>2
    <3>3. CASE message' = [message EXCEPT ![s][u] = StandupMsg(FALSE, FALSE)]
      BY <3>3 DEF TypeOK
    <3>4. QED
      BY <3>1, <3>2, <3>3
  <2>2. greeting[s][u] = "sending"
    BY <1>9 DEF GreetingFails
  <2>3. CASE Stop
    <3>1. UNCHANGED created /\ (\A r \in Standups : creating'[r] = "idle")
          /\ \A r \in Standups, v \in Users : greeting'[r][v] = "none"
      BY <2>3 DEF Stop, NoGreetings
    <3>2. QED
      BY <2>1, <2>2, <3>1, GreetedOnceFrame
  <2>4. CASE ~Stop
    BY <1>7, <1>9, <2>1, <2>4 DEF GreetingFails
  <2>5. QED
    BY <2>3, <2>4
<1>10. ASSUME NEW s \in Standups, NEW u \in Users,
              MessageLinked(s, u) \/ MessageChecked(s, u)
       PROVE  GreetedOnce'
  <2>1. message[s][u].sent
    BY <1>10 DEF MessageLinked, MessageChecked, AskedBefore, RowsFollowRoster
  <2>2. /\ \A r \in Standups, v \in Users :
             message'[r][v] = message[r][v] \/ (r = s /\ v = u)
        /\ UNCHANGED <<created, creating, greeting>>
    <3>1. CASE MessageLinked(s, u)
      BY <3>1 DEF MessageLinked, TypeOK
    <3>2. CASE MessageChecked(s, u)
      BY <3>2 DEF MessageChecked, TypeOK
    <3>3. QED
      BY <1>10, <3>1, <3>2
  <2>3. QED
    BY <2>1, <2>2, GreetedOnceFrame
<1>11. CASE Notifier
  <2>1. CASE Tick \/ Restart
    BY <2>1, <1>1 DEF Tick, Restart
  <2>2. ASSUME NEW d \in Minutes, FindByStartFails(d) \/ FindEnd(d) \/ FindEndFails(d)
        PROVE  GreetedOnce'
    BY <2>2, <1>1 DEF FindByStartFails, FindEnd, FindEndFails
  <2>3. ASSUME NEW s \in Standups,
               \/ GreetingRejected(s) \/ SaveRow(s) \/ RowSaved(s)
               \/ RowSaveFails(s) \/ ReportPosted(s) \/ ReportFails(s)
        PROVE  GreetedOnce'
    BY <2>3, <1>1 DEF GreetingRejected, SaveRow, RowSaved, RowSaveFails,
                       ReportPosted, ReportFails
  <2>4. ASSUME NEW s \in Standups, NEW u \in Users, MessageLinkFails(s, u)
        PROVE  GreetedOnce'
    BY <2>4, <1>1 DEF MessageLinkFails
  <2>5. QED
    BY <1>2, <1>3, <1>4, <1>5, <1>6, <1>8, <1>9, <1>10, <1>11, <2>1, <2>2, <2>3, <2>4
       DEF Notifier, StartStep, EndStep
<1>12. CASE Edit \/ UNCHANGED vars
  BY <1>1, <1>12 DEF Edit, EditDuration, vars
<1>13. ASSUME NEW sheet \in Sheets, AnswersStored(sheet)
       PROVE  GreetedOnce'
  BY <1>1, <1>13 DEF AnswersStored
<1>14. QED
  BY <1>10, <1>11, <1>12, <1>13 DEF Next, Worker

(* All that the notifier keeps up, for its own reports and for the others. *)
NotifierInv ==
  /\ TypeOK /\ StartedOnce /\ SavedInOrder /\ RowsFollowRoster
  /\ ReportedOnce /\ ReadFromStore
  /\ LoadedFromTeam /\ AskedBefore /\ GreetedOnce

(* The initial state is one of them.                                       *)
LEMMA InitNotifierInv == Init => NotifierInv
BY InitType, InitStartedOnce, InitSavedInOrder, InitRowsFollowRoster, InitReportedOnce,
   InitReadFromStore, InitLoadedFromTeam, InitAskedBefore, InitGreetedOnce
   DEF NotifierInv

(* No step leaves them.                                                    *)
LEMMA NotifierInvStep == NotifierInv /\ [Next]_vars => NotifierInv'
BY TypeStep, StartedOnceStep, SavedInOrderStep, RowsFollowRosterStep, ReportedOnceStep,
   ReadFromStoreStep, LoadedFromTeamStep, AskedBeforeStep, GreetedOnceStep
   DEF NotifierInv

(* The whole of it is inductive.                                           *)
LEMMA NotifierInvariant == Spec => []NotifierInv
<1>1. QED
  BY InitNotifierInv, NotifierInvStep, PTL DEF Spec

(* A greeting is sent once, to a user who has no message yet: whatever is  *)
(* drawn over a message is drawn over one that a greeting has sent.        *)
THEOREM GreetedOnceHolds == Spec => []GreetedOnce
BY NotifierInvariant, PTL DEF NotifierInv

-----------------------------------------------------------------------------
(* The notifier implements the promise of DailyStandup.                    *)

Daily == INSTANCE DailyStandup WITH
  time <- now,
  ends <- endAt,
  open <- created,
  asked <- rows,
  told <- answers,
  cut <- [s \in Standups |-> IF s \in posting THEN {reading[s]} ELSE {}],
  published <- report

(* Nothing is promised of a standup before it is opened.                   *)
LEMMA DailyInit == Init => Daily!Init
BY DEF Init, Daily!Init, Standups, Daily!Standups

(* Steps that neither the clock, the store nor a report notices.           *)
LEMMA DailyStutter ==
  ASSUME UNCHANGED <<now, created, endAt, rows, answers, report, posting, reading>>
  PROVE  UNCHANGED Daily!vars
BY DEF Daily!vars

(* Reports under way are given up, all or one of them.                     *)
LEMMA DailyGiveUp ==
  ASSUME UNCHANGED <<now, created, endAt, rows, answers, report>>,
         NEW S \in SUBSET Standups, posting' = posting \ S,
         \A s \in posting' : reading'[s] = reading[s]
  PROVE  Daily!Next
<1>1. Daily!GiveUp(S)
  BY DEF Daily!GiveUp, Standups, Daily!Standups
<1>2. QED
  BY <1>1 DEF Daily!Next, Standups, Daily!Standups

(* A report that is posted is the cut that findEnd has made.               *)
LEMMA DailyPublish ==
  ASSUME TypeOK, ReportedOnce, UNCHANGED <<now, created, endAt, rows, answers, reading>>,
         NEW s \in posting, posting' = posting \ {s},
         report' = [report EXCEPT ![s] = Append(@, reading[s])]
  PROVE  Daily!Next
<1>1. s \in Standups /\ report[s] = <<>>
  BY DEF TypeOK, ReportedOnce
<1>2. report' = [report EXCEPT ![s] = <<reading[s]>>]
  BY <1>1
<1>3. Daily!Publish(s)
  BY <1>1, <1>2 DEF Daily!Publish, Standups, Daily!Standups
<1>4. QED
  BY <1>1, <1>3 DEF Daily!Next, Standups, Daily!Standups

(* Every step of the notifier and of its environment is one of the         *)
(* promise, or none: that findEnd cuts only standups without report is     *)
(* ReportedOnce, that a row is of somebody to ask is SavedInOrder.         *)
LEMMA DailyStep == NotifierInv /\ [Next]_vars => [Daily!Next]_(Daily!vars)
<1> SUFFICES ASSUME NotifierInv, [Next]_vars
             PROVE  Daily!Next \/ UNCHANGED Daily!vars
  OBVIOUS
<1> USE DEF NotifierInv, store, slack, streams, startMem, endMem
<1>1. CASE UNCHANGED <<now, created, endAt, rows, answers, report, posting, reading>>
  BY <1>1, DailyStutter
<1>2. CASE Tick
  <2>1. now' = now + 1
        /\ UNCHANGED <<created, endAt, rows, answers, report, posting, reading>>
    BY <1>2 DEF Tick
  <2>2. Daily!Pass
    BY <2>1 DEF Daily!Pass
  <2>3. QED
    BY <2>2 DEF Daily!Next
<1>3. CASE Stop /\ UNCHANGED report
  <2>1. /\ UNCHANGED <<now, created, endAt, rows, answers, report>>
        /\ posting' = {} /\ posting \in SUBSET Standups
    BY <1>3 DEF Stop, TypeOK
  <2>2. posting' = posting \ posting /\ \A s \in posting' : reading'[s] = reading[s]
    BY <2>1
  <2>3. QED
    BY <2>1, <2>2, DailyGiveUp
<1>4. ASSUME NEW s \in Standups, InsertStandup(s)
      PROVE  Daily!Next
  <2>1. /\ s \notin created /\ loaded[s] \in Durations
        /\ created' = created \union {s}
        /\ endAt' = [endAt EXCEPT ![s] = StartMinute(s) + loaded[s]]
        /\ UNCHANGED <<now, rows, answers, report, posting, reading>>
    BY <1>4 DEF InsertStandup, StartedOnce, LoadedFromTeam
  <2>2. Daily!Open(s)
    BY <2>1 DEF Daily!Open, StartMinute, Daily!StartMinute
  <2>3. QED
    BY <2>2 DEF Daily!Next, Standups, Daily!Standups
<1>5. ASSUME NEW s \in Standups, RowSaved(s)
      PROVE  Daily!Next
  <2> DEFINE u == Asked(s)[cursor[s]]
  <2>1. /\ s \in created /\ u \in Members(s) /\ u \in Users
    <3>1. cursor[s] \in DOMAIN Asked(s) /\ s \in created
      BY <1>5 DEF RowSaved, SavedInOrder
    <3>2. u \in Users
      BY <1>5, SavedUserType DEF RowSaved
    <3>3. QED
      BY <3>1, <3>2 DEF Members
  <2>2. /\ rows' = [rows EXCEPT ![s] = @ \union {u}]
        /\ UNCHANGED <<now, created, endAt, answers, report, posting, reading>>
    BY <1>5 DEF RowSaved
  <2>3. Daily!Ask(s, u)
    BY <2>1, <2>2 DEF Daily!Ask, Members, Asked, Team,
       Daily!Members, Daily!Asked, Daily!Team
  <2>4. QED
    BY <2>1, <2>3 DEF Daily!Next, Standups, Daily!Standups
<1>6. ASSUME NEW d \in Minutes, FindEnd(d)
      PROVE  Daily!Next
  <2>1. /\ d \in endQuery
        /\ posting' = posting \union Ending(d)
        /\ reading' = [s \in Standups |->
                         IF s \in Ending(d) THEN RowsRead(s) ELSE reading[s]]
        /\ UNCHANGED <<now, created, endAt, rows, answers, report>>
    BY <1>6 DEF FindEnd
  <2>2. Ending(d) \subseteq created /\ Ending(d) \in SUBSET Standups
    BY DEF Ending, TypeOK
  <2>3. \A s \in Ending(d) : endAt[s] <= now /\ s \notin posting /\ report[s] = <<>>
    <3>1. d <= now /\ \A s \in Ending(d) : endAt[s] = d
      BY <2>1, DataAssumption DEF ReportedOnce, Ending, TypeOK, Minutes
    <3>2. QED
      BY <2>1, <2>2, <3>1 DEF ReportedOnce
  <2>4. PICK S \in SUBSET Standups : S = Ending(d)
    BY <2>2
  <2>5. Daily!Cut(S)
    BY <2>1, <2>2, <2>3, <2>4 DEF Daily!Cut, RowsRead, Standups, Daily!Standups
  <2>6. QED
    BY <2>5 DEF Daily!Next, Standups, Daily!Standups
<1>7. ASSUME NEW s \in Standups, ReportPosted(s)
      PROVE  Daily!Next
  BY <1>7, DailyPublish DEF ReportPosted
<1>8. ASSUME NEW s \in Standups, ReportFails(s)
      PROVE  Daily!Next
  <2>1. CASE UNCHANGED report
    BY <1>8, <2>1, DailyGiveUp DEF ReportFails
  <2>2. CASE report' = [report EXCEPT ![s] = Append(@, reading[s])]
    BY <1>8, <2>2, DailyPublish DEF ReportFails
  <2>3. QED
    BY <1>8, <2>1, <2>2 DEF ReportFails
<1>9. ASSUME NEW sheet \in Sheets, AnswersStored(sheet)
      PROVE  Daily!Next
  <2>1. Daily!Tell(sheet)
    BY <1>9 DEF AnswersStored, Daily!Tell, Written, Daily!Written, Standups,
                Daily!Standups
  <2>2. QED
    BY <2>1 DEF Daily!Next, Sheets, Daily!Sheets, Standups, Daily!Standups
<1>10. CASE Notifier
  <2>1. CASE Crash \/ Restart
    BY <2>1, <1>1, <1>3 DEF Crash, Restart
  <2>2. ASSUME NEW d \in Minutes, FindByStart(d) \/ FindByStartFails(d) \/ FindEndFails(d)
        PROVE  UNCHANGED Daily!vars
    BY <2>2, DailyStutter DEF FindByStart, FindByStartFails, FindEndFails
  <2>3. ASSUME NEW s \in Standups,
               InsertStandupFails(s) \/ Greet(s) \/ GreetingRejected(s) \/ SaveRow(s)
                 \/ RowSaveFails(s)
        PROVE  UNCHANGED Daily!vars
    BY <2>3, DailyStutter DEF InsertStandupFails, Greet, GreetingRejected, SaveRow, RowSaveFails
  <2>4. ASSUME NEW s \in Standups, NEW u \in Users,
               GreetingSent(s, u) \/ MessageLinked(s, u) \/ MessageLinkFails(s, u)
        PROVE  UNCHANGED Daily!vars
    BY <2>4, DailyStutter DEF GreetingSent, MessageLinked, MessageLinkFails
  <2>5. ASSUME NEW s \in Standups, NEW u \in Users, GreetingFails(s, u)
        PROVE  Daily!Next \/ UNCHANGED Daily!vars
    BY <2>5, <1>1, <1>3 DEF GreetingFails
  <2>6. QED
    BY <1>2, <1>4, <1>5, <1>6, <1>7, <1>8, <1>10, <2>1, <2>2, <2>3, <2>4, <2>5
       DEF Notifier, StartStep, EndStep
<1>11. CASE Edit \/ UNCHANGED vars
  BY <1>1, <1>11 DEF Edit, EditDuration, vars
<1>12. ASSUME NEW s \in Standups, NEW u \in Users, MessageChecked(s, u)
       PROVE  UNCHANGED Daily!vars
  BY <1>12, DailyStutter DEF MessageChecked
<1>13. QED
  BY <1>9, <1>10, <1>11, <1>12 DEF Next, Worker

(* What StandupNotifier does, crashes and failures included, is what       *)
(* DailyStandup promises: whatever the store, the queries and the posts    *)
(* do in between, a report is one consistent cut not before the end.       *)
THEOREM NotifierImplementsDaily == Spec => Daily!Spec
<1>1. QED
  BY DailyInit, DailyStep, NotifierInvariant, PTL DEF Spec, Daily!Spec

-----------------------------------------------------------------------------
(* What is in time for a report is in it; what missed its tick stays out.  *)

(* What a step can do to the end of a standup, to the ticks whose findEnd  *)
(* is to answer and to a report under way.                                 *)
EndChange(s) ==
  /\ s \in created => s \in created' /\ endAt'[s] = endAt[s]
  /\ now <= now'
  /\ \A d \in endQuery' : d \in endQuery \/ d > now
  /\ s \in posting' =>
       \/ s \in posting /\ reading'[s] = reading[s]
       \/ s \in created /\ endAt[s] \in endQuery /\ reading'[s] = RowsRead(s)

(* Most steps leave all of these alone, or take some queries and reports   *)
(* away.                                                                   *)
LEMMA EndChangeFrame ==
  ASSUME TypeOK, NEW s \in Standups, UNCHANGED <<now, created, endAt>>,
         endQuery' \subseteq endQuery, posting' \subseteq posting,
         posting' = {} \/ UNCHANGED reading
  PROVE  EndChange(s)
<1>1. now <= now'
  BY DataAssumption DEF TypeOK, Minutes
<1>2. QED
  BY <1>1 DEF EndChange

(* No end moves, and only findEnd begins a report, with what it has read.  *)
LEMMA EndChangeStep ==
  ASSUME NotifierInv, [Next]_vars, NEW s \in Standups
  PROVE  EndChange(s)
<1> USE DEF store, slack, streams, startMem, endMem
<1>1. TypeOK
  BY DEF NotifierInv
<1>2. CASE UNCHANGED <<now, created, endAt, endQuery, posting, reading>>
  BY <1>1, <1>2, EndChangeFrame
<1>3. CASE Tick
  <2>1. /\ now' = now + 1 /\ now \in Nat
        /\ \A d \in endQuery' : d \in endQuery \/ d = now + 1
        /\ UNCHANGED <<created, endAt, posting, reading>>
    BY <1>1, <1>3, DataAssumption DEF Tick, TypeOK, Minutes
  <2>2. QED
    BY <2>1 DEF EndChange
<1>4. CASE Stop
  BY <1>1, <1>4, EndChangeFrame DEF Stop
<1>5. ASSUME NEW r \in Standups, InsertStandup(r)
      PROVE  EndChange(s)
  <2>1. /\ r \notin created
        /\ created' = created \union {r}
        /\ endAt' = [endAt EXCEPT ![r] = StartMinute(r) + loaded[r]]
        /\ UNCHANGED <<now, endQuery, posting, reading>>
    BY <1>5 DEF InsertStandup, NotifierInv, StartedOnce
  <2>2. s \in created => s \in created' /\ endAt'[s] = endAt[s]
    BY <1>1, <2>1 DEF TypeOK
  <2>3. now <= now'
    BY <1>1, <2>1, DataAssumption DEF TypeOK, Minutes
  <2>4. QED
    BY <2>1, <2>2, <2>3 DEF EndChange
<1>6. ASSUME NEW d \in Minutes, FindEnd(d)
      PROVE  EndChange(s)
  <2>1. /\ d \in endQuery /\ endQuery' \subseteq endQuery
        /\ posting' = posting \union Ending(d)
        /\ reading'[s] = IF s \in Ending(d) THEN RowsRead(s) ELSE reading[s]
        /\ UNCHANGED <<now, created, endAt>>
    BY <1>6 DEF FindEnd
  <2>2. now <= now'
    BY <1>1, <2>1, DataAssumption DEF TypeOK, Minutes
  <2>3. QED
    BY <2>1, <2>2 DEF EndChange, Ending
<1>7. CASE Notifier
  <2>1. CASE Crash \/ Restart
    BY <2>1, <1>2, <1>4 DEF Crash, Restart
  <2>2. ASSUME NEW d \in Minutes, FindByStart(d) \/ FindByStartFails(d)
        PROVE  EndChange(s)
    BY <2>2, <1>2 DEF FindByStart, FindByStartFails
  <2>3. ASSUME NEW d \in Minutes, FindEndFails(d)
        PROVE  EndChange(s)
    BY <2>3, <1>1, EndChangeFrame DEF FindEndFails
  <2>4. ASSUME NEW r \in Standups,
               \/ InsertStandupFails(r) \/ Greet(r) \/ GreetingRejected(r) \/ SaveRow(r)
               \/ RowSaved(r) \/ RowSaveFails(r)
        PROVE  EndChange(s)
    BY <2>4, <1>2 DEF InsertStandupFails, Greet, GreetingRejected, SaveRow, RowSaved,
                       RowSaveFails
  <2>5. ASSUME NEW r \in Standups, ReportPosted(r) \/ ReportFails(r)
        PROVE  EndChange(s)
    BY <2>5, <1>1, EndChangeFrame DEF ReportPosted, ReportFails
  <2>6. ASSUME NEW r \in Standups, NEW u \in Users,
               GreetingSent(r, u) \/ MessageLinked(r, u) \/ MessageLinkFails(r, u)
        PROVE  EndChange(s)
    BY <2>6, <1>2 DEF GreetingSent, MessageLinked, MessageLinkFails
  <2>7. ASSUME NEW r \in Standups, NEW u \in Users, GreetingFails(r, u)
        PROVE  EndChange(s)
    BY <2>7, <1>2, <1>4 DEF GreetingFails
  <2>8. QED
    BY <1>3, <1>5, <1>6, <1>7, <2>1, <2>2, <2>3, <2>4, <2>5, <2>6, <2>7
       DEF Notifier, StartStep, EndStep
<1>8. CASE Edit \/ Worker \/ UNCHANGED vars
  BY <1>2, <1>8 DEF Edit, EditDuration, Worker, MessageChecked, AnswersStored, vars
<1>9. QED
  BY <1>7, <1>8 DEF Next

(* The answers of u to s are stored, and in every report under way or      *)
(* posted.                                                                 *)
Accounted(s, u) ==
  /\ s \in created /\ answers[s][u] # NoAnswer
  /\ s \in posting => Answered(reading[s], u)
  /\ \A i \in DOMAIN report[s] : Answered(report[s][i], u)

(* Answers that are accounted for stay so: a later report reads rows and   *)
(* answers that have only grown.                                           *)
LEMMA AccountedStep ==
  ASSUME NotifierInv, [Next]_vars, NEW s \in Standups, NEW u \in Users, Accounted(s, u)
  PROVE  Accounted(s, u)'
<1>1. TypeOK /\ AskedBefore /\ ReportedOnce
  BY DEF NotifierInv
<1>2. EndChange(s) /\ StoreGrows
  BY <1>1, EndChangeStep, StoreGrowsStep
<1>3. s \in created' /\ answers'[s][u] # NoAnswer
  BY <1>2 DEF Accounted, EndChange, StoreGrows
<1>4. s \in posting' => Answered(reading'[s], u)
  <2>1. CASE s \in posting /\ reading'[s] = reading[s]
    BY <2>1 DEF Accounted
  <2>2. CASE reading'[s] = RowsRead(s)
    <3>1. u \in rows[s] /\ answers[s][u] # NoAnswer
      BY <1>1 DEF Accounted, AskedBefore
    <3>2. QED
      BY <2>2, <3>1 DEF RowsRead, Answered
  <2>3. QED
    BY <1>2, <2>1, <2>2 DEF EndChange
<1>5. \A i \in DOMAIN report'[s] : Answered(report'[s][i], u)
  <2>1. CASE report'[s] = report[s]
    BY <2>1 DEF Accounted
  <2>2. CASE s \in posting /\ report'[s] = Append(report[s], reading[s])
    <3>1. report[s] = <<>>
      BY <1>1, <2>2 DEF ReportedOnce
    <3>2. report'[s] = <<reading[s]>>
      BY <2>2, <3>1
    <3>3. QED
      BY <2>2, <3>2 DEF Accounted
  <2>3. QED
    BY <1>1, <2>1, <2>2, ReportChange
<1>6. QED
  BY <1>3, <1>4, <1>5 DEF Accounted

(* Answers stored before the end minute are in the report, if there is     *)
(* one: sendReport works from what findEnd read, and findEnd reads at the  *)
(* end or later.                                                           *)
THEOREM InTimeIsReportedHolds == Spec => InTimeIsReported
<1>1. ASSUME NEW s \in Standups, NEW u \in Users
      PROVE  Spec => []((s \in created /\ now < endAt[s] /\ answers[s][u] # NoAnswer)
                          => [](\A i \in DOMAIN report[s] :
                                  u \in DOMAIN report[s][i] /\ report[s][i][u] # NoAnswer))
  <2> DEFINE InTime == s \in created /\ now < endAt[s] /\ answers[s][u] # NoAnswer
             Reported == \A i \in DOMAIN report[s] :
                           u \in DOMAIN report[s][i] /\ report[s][i][u] # NoAnswer
  <2>1. NotifierInv /\ InTime => Accounted(s, u)
    <3> SUFFICES ASSUME NotifierInv, InTime
                 PROVE  Accounted(s, u)
      OBVIOUS
    <3>1. ~(endAt[s] <= now)
      BY DataAssumption DEF NotifierInv, TypeOK, Minutes
    <3>2. s \notin posting /\ report[s] = <<>>
      BY <3>1 DEF NotifierInv, ReportedOnce
    <3>3. QED
      BY <3>2 DEF Accounted
  <2>2. NotifierInv /\ Accounted(s, u) /\ [Next]_vars => Accounted(s, u)'
    BY AccountedStep
  <2>3. Accounted(s, u) => Reported
    BY DEF Accounted, Answered
  <2>4. QED
    BY <2>1, <2>2, <2>3, NotifierInvariant, PTL DEF Spec
<1>2. QED
  BY <1>1 DEF InTimeIsReported

(* A standup whose end tick is past, with no query and no post open, never *)
(* gets a report: only the query of that very minute finds it.             *)
THEOREM MissedForGoodHolds == Spec => MissedForGood
<1>1. ASSUME NEW s \in Standups
      PROVE  Spec => []((/\ s \in created /\ endAt[s] < now /\ endAt[s] \notin endQuery
                         /\ s \notin posting /\ report[s] = <<>>)
                          => [](report[s] = <<>>))
  <2> DEFINE Missed == /\ s \in created /\ endAt[s] < now /\ endAt[s] \notin endQuery
                       /\ s \notin posting /\ report[s] = <<>>
             NoReport == report[s] = <<>>
  <2>1. NotifierInv /\ Missed /\ [Next]_vars => Missed'
    <3> SUFFICES ASSUME NotifierInv, Missed, [Next]_vars
                 PROVE  Missed'
      OBVIOUS
    <3>1. TypeOK
      BY DEF NotifierInv
    <3>2. EndChange(s)
      BY EndChangeStep
    <3>3. s \in created' /\ endAt'[s] = endAt[s] /\ s \notin posting'
      BY <3>2 DEF EndChange
    <3>4. now \in Nat /\ now' \in Nat /\ endAt[s] \in Nat
      BY <3>1, TypeStep, DataAssumption DEF NotifierInv, TypeOK, Minutes
    <3>5. endAt[s] < now' /\ endAt[s] \notin endQuery'
      BY <3>2, <3>4 DEF EndChange
    <3>6. report'[s] = <<>>
      BY <3>1, ReportChange
    <3>7. QED
      BY <3>3, <3>5, <3>6
  <2>2. Missed => NoReport
    OBVIOUS
  <2>3. QED
    BY <2>1, <2>2, NotifierInvariant, PTL DEF Spec
<1>2. QED
  BY <1>1 DEF MissedForGood

-----------------------------------------------------------------------------
(* What becomes of a link.                                                 *)

(* A prompt that shows a link is there.                                    *)
LinksAreSent == \A s \in Standups, u \in Users : message[s][u].link => message[s][u].sent

(* Whoever draws a prompt sends it.                                        *)
LEMMA LinksAreSentStep == TypeOK /\ LinksAreSent /\ [Next]_vars => LinksAreSent'
<1> SUFFICES ASSUME TypeOK, LinksAreSent, [Next]_vars,
                    NEW s \in Standups, NEW u \in Users,
                    message'[s][u].link
             PROVE  message'[s][u].sent
  BY DEF LinksAreSent
<1>1. CASE message'[s][u] = message[s][u]
  BY <1>1 DEF LinksAreSent
<1>2. CASE message'[s][u] = StandupMsg(FALSE, FALSE)
  BY <1>2 DEF StandupMsg
<1>3. ASSUME NEW c \in BOOLEAN, NEW l \in BOOLEAN,
             message' = [message EXCEPT ![s][u] = StandupMsg(c, l)]
      PROVE  message'[s][u].sent
  BY <1>3, RedrawStays
<1>4. CASE MessageLinked(s, u)
  <2>1. PICK c \in BOOLEAN : c = Answered(reading[s], u)
    BY DEF Answered
  <2>2. message' = [message EXCEPT ![s][u] = StandupMsg(c, TRUE)]
    BY <1>4, <2>1 DEF MessageLinked
  <2>3. QED
    BY <1>3, <2>2
<1>5. CASE MessageChecked(s, u)
  BY <1>3, <1>5 DEF MessageChecked
<1>6. QED
  BY <1>1, <1>2, <1>4, <1>5, PromptChange

(* No link without a message.                                              *)
LEMMA LinksAreSentInvariant == Spec => []LinksAreSent
<1>1. Init => LinksAreSent
  BY DEF Init, LinksAreSent, NoPrompt
<1>2. QED
  BY <1>1, LinksAreSentStep, NotifierInvariant, PTL DEF Spec, NotifierInv

(* The notifier itself never takes a link away: a greeting that lands late *)
(* is the first message of its user all the same.                          *)
LEMMA NotifierKeepsLinks ==
  ASSUME TypeOK, GreetedOnce, LinksAreSent, Notifier \/ Edit,
         NEW s \in Standups, NEW u \in Users, message[s][u].link
  PROVE  message'[s][u].link
<1> USE DEF store, slack, streams, startMem, endMem
<1>1. CASE UNCHANGED message
  BY <1>1
<1>2. ASSUME NEW r \in Standups, NEW v \in Users, GreetingSent(r, v) \/ GreetingFails(r, v)
      PROVE  message'[s][u].link
  <2>1. CASE message' = [message EXCEPT ![r][v] = StandupMsg(FALSE, FALSE)]
    <3>1. ~message[r][v].sent
      BY <1>2 DEF GreetingSent, GreetingFails, GreetedOnce
    <3>2. r # s \/ v # u
      BY <3>1 DEF LinksAreSent
    <3>3. QED
      BY <2>1, <3>2 DEF TypeOK
  <2>2. QED
    BY <1>1, <1>2, <2>1 DEF GreetingSent, GreetingFails
<1>3. ASSUME NEW r \in Standups, NEW v \in Users, MessageLinked(r, v)
      PROVE  message'[s][u].link
  <2>1. PICK c \in BOOLEAN : c = Answered(reading[r], v)
    BY DEF Answered
  <2>2. message' = [message EXCEPT ![r][v] = StandupMsg(c, TRUE)]
    BY <1>3, <2>1 DEF MessageLinked
  <2>3. QED
    BY <2>2 DEF TypeOK, StandupMsg
<1>4. CASE Tick \/ Crash \/ Restart \/ Edit
  BY <1>1, <1>4 DEF Tick, Crash, Restart, Edit, EditDuration
<1>5. ASSUME NEW d \in Minutes,
             FindByStart(d) \/ FindByStartFails(d) \/ FindEnd(d) \/ FindEndFails(d)
      PROVE  message'[s][u].link
  BY <1>1, <1>5 DEF FindByStart, FindByStartFails, FindEnd, FindEndFails
<1>6. ASSUME NEW r \in Standups,
             \/ InsertStandup(r) \/ InsertStandupFails(r) \/ Greet(r) \/ GreetingRejected(r)
             \/ SaveRow(r) \/ RowSaved(r) \/ RowSaveFails(r)
             \/ ReportPosted(r) \/ ReportFails(r) \/ \E v \in Users : MessageLinkFails(r, v)
      PROVE  message'[s][u].link
  BY <1>1, <1>6 DEF InsertStandup, InsertStandupFails, Greet, GreetingRejected, SaveRow,
                     RowSaved, RowSaveFails, ReportPosted, ReportFails, MessageLinkFails
<1>7. QED
  BY <1>2, <1>3, <1>4, <1>5, <1>6 DEF Notifier, StartStep, EndStep

(* What a step of a notifier that meets no failure does to one user: a     *)
(* message is drawn over, if at all, by MessageLinked, and a report that   *)
(* is posted gives everybody in it a link to come.                         *)
LEMMA CalmNotifierStep ==
  ASSUME TypeOK, Faults = {}, GreetedOnce, Notifier \/ Edit,
         NEW s \in Standups, NEW u \in Users
  PROVE  /\ UNCHANGED answers
         /\ \/ /\ message'[s][u] = message[s][u] \/ ~message[s][u].sent
               /\ report'[s] = report[s]
               /\ u \in linking[s] => u \in linking'[s]
            \/ MessageLinked(s, u)
            \/ ReportPosted(s)
<1> DEFINE Quiet == /\ UNCHANGED answers
                    /\ message'[s][u] = message[s][u] \/ ~message[s][u].sent
                    /\ report'[s] = report[s]
                    /\ u \in linking[s] => u \in linking'[s]
<1> USE DEF store, slack, streams, startMem, endMem
<1>1. CASE Tick \/ Restart \/ Edit
  <2>1. Quiet
    BY <1>1 DEF Tick, Restart, Edit, EditDuration
  <2>2. QED
    BY <2>1
<1>2. ASSUME NEW d \in Minutes, FindByStart(d) \/ FindEnd(d)
      PROVE  Quiet
  BY <1>2 DEF FindByStart, FindEnd
<1>3. ASSUME NEW r \in Standups,
             InsertStandup(r) \/ Greet(r) \/ GreetingRejected(r) \/ SaveRow(r) \/ RowSaved(r)
      PROVE  Quiet
  BY <1>3 DEF InsertStandup, Greet, GreetingRejected, SaveRow, RowSaved
<1>4. ASSUME NEW r \in Standups, NEW v \in Users, GreetingSent(r, v)
      PROVE  Quiet
  <2>1. /\ message' = [message EXCEPT ![r][v] = StandupMsg(FALSE, FALSE)]
        /\ ~message[r][v].sent
        /\ UNCHANGED <<answers, report, linking>>
    BY <1>4 DEF GreetingSent, GreetedOnce
  <2>2. message'[s][u] = message[s][u] \/ (r = s /\ v = u)
    BY <2>1 DEF TypeOK
  <2>3. QED
    BY <2>1, <2>2
<1>5. ASSUME NEW r \in Standups, ReportPosted(r), r # s
      PROVE  Quiet
  BY <1>5 DEF ReportPosted, TypeOK
<1>6. ASSUME NEW r \in Standups, NEW v \in Users, MessageLinked(r, v), r # s \/ v # u
      PROVE  Quiet
  <2>1. PICK c \in BOOLEAN : c = Answered(reading[r], v)
    BY DEF Answered
  <2>2. message' = [message EXCEPT ![r][v] = StandupMsg(c, TRUE)]
    BY <1>6, <2>1 DEF MessageLinked
  <2>3. message'[s][u] = message[s][u]
    BY <1>6, <2>2 DEF TypeOK
  <2>4. u \in linking[s] => u \in linking'[s]
    BY <1>6 DEF MessageLinked, TypeOK
  <2>5. QED
    BY <1>6, <2>3, <2>4 DEF MessageLinked
<1>7. \A r \in Standups, v \in Users :
        (MessageLinked(r, v) \/ ReportPosted(r)) => UNCHANGED answers
  BY DEF MessageLinked, ReportPosted
<1>8. ~Crash /\ \A r \in Standups :
        /\ ~InsertStandupFails(r) /\ ~RowSaveFails(r) /\ ~ReportFails(r)
        /\ \A v \in Users : ~GreetingFails(r, v) /\ ~MessageLinkFails(r, v)
  BY DEF Crash, InsertStandupFails, RowSaveFails, ReportFails, GreetingFails, MessageLinkFails
<1>9. \A d \in Minutes : ~FindByStartFails(d) /\ ~FindEndFails(d)
  BY DEF FindByStartFails, FindEndFails
<1>10. QED
  BY <1>1, <1>2, <1>3, <1>4, <1>5, <1>6, <1>7, <1>8, <1>9 DEF Notifier, StartStep, EndStep

=============================================================================
