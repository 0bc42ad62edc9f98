----------------------------- MODULE TeamsProofs -----------------------------
(***************************************************************************)
(* Theorems about the edits of a team and the snapshots of it (TeamStore): *)
(* standups ask what their team was when it was matched, an edited team    *)
(* has a snapshot of what it is, an edit is stored as the form asked for   *)
(* it, and all rows and requests keep their types; and, of the composition *)
(* of MCTeams, that the parts do.                                          *)
(***************************************************************************)
EXTENDS MCTeams, PagesProofs, SequenceTheorems

-----------------------------------------------------------------------------
(* The inductive invariant.                                                *)

(* Versions and snapshots are rows of some kind, in order.                 *)
RowsInOrder == \E S : versions \in Seq(S) /\ snapshots \in Seq(S)

(* The last version is what the tables say.                                *)
VersionIsCurrent ==
  /\ Len(versions) \in Nat \ {0}
  /\ versions[Len(versions)] = Current

(* createStandup goes on with the version the team was matched at.         *)
CallIsBacked ==
  /\ call.stage \in {"matched", "compared"} =>
       call.since \in 1..Len(versions) /\ call.team = versions[call.since]
  /\ call.stage = "compared" => call.last \in 0..Len(snapshots)
  /\ call.stage = "ready" =>
       /\ call.since \in 1..Len(versions)
       /\ call.snapshot \in 1..Len(snapshots)
       /\ snapshots[call.snapshot].content = versions[call.since]

(* The rows a standup refers to are there.                                 *)
StandupsAreBacked ==
  /\ \E S : standups \in Seq(S)
  /\ \A i \in DOMAIN standups :
       /\ standups[i].since \in 1..Len(versions)
       /\ standups[i].snapshot \in 1..Len(snapshots)

IInv ==
  /\ RowsInOrder /\ VersionIsCurrent /\ CallIsBacked /\ StandupsAreBacked
  /\ StandupAsksTheTeam /\ EditedTeamHasSnapshot

-----------------------------------------------------------------------------
(* Lemmas.                                                                 *)

(* A row added at the end leaves those before it as they are.              *)
LEMMA Appended ==
  ASSUME NEW S, NEW s \in Seq(S), NEW e
  PROVE  /\ Append(s, e) \in Seq(S \union {e})
         /\ Len(Append(s, e)) = Len(s) + 1
         /\ DOMAIN Append(s, e) = 1..Len(s) + 1
         /\ \A i \in 1..Len(s) : Append(s, e)[i] = s[i]
         /\ Append(s, e)[Len(s) + 1] = e
<1>1. s \in Seq(S \union {e})
  OBVIOUS
<1>2. QED
  BY <1>1

(* Rows of one kind are rows of a wider kind.                              *)
LEMMA Widened ==
  ASSUME NEW S, NEW T, S \subseteq T, NEW s \in Seq(S)
  PROVE  s \in Seq(T)
OBVIOUS

(* The rows of a table stay when others are added.                         *)
Kept(s, t) ==
  /\ Len(s) \in Nat /\ Len(t) \in Nat /\ Len(s) <= Len(t)
  /\ DOMAIN s = 1..Len(s)
  /\ DOMAIN t = 1..Len(t)
  /\ \A i \in 1..Len(s) : t[i] = s[i]

(* What stays when snapshots or versions are added: the standups there     *)
(* were still ask what they asked.                                         *)
LEMMA StandupsStay ==
  ASSUME StandupsAreBacked, StandupAsksTheTeam, standups' = standups,
         Kept(versions, versions'), Kept(snapshots, snapshots')
  PROVE  StandupsAreBacked' /\ StandupAsksTheTeam'
<1>1. \A i \in DOMAIN standups :
        /\ standups[i].since \in 1..Len(versions')
        /\ standups[i].snapshot \in 1..Len(snapshots')
        /\ snapshots'[standups[i].snapshot] = snapshots[standups[i].snapshot]
        /\ versions'[standups[i].since] = versions[standups[i].since]
  BY DEF StandupsAreBacked, Kept
<1>2. QED
  BY <1>1 DEF StandupsAreBacked, StandupAsksTheTeam

(* So does a call that goes on.                                            *)
LEMMA CallStays ==
  ASSUME CallIsBacked, call' = call,
         Kept(versions, versions'), Kept(snapshots, snapshots')
  PROVE  CallIsBacked'
BY DEF CallIsBacked, Kept

(* No step but Submit changes the contents, or adds a version.             *)
LEMMA EditedStays ==
  ASSUME EditedTeamHasSnapshot, UNCHANGED <<roster, question, option, versions>>,
         Kept(snapshots, snapshots')
  PROVE  EditedTeamHasSnapshot'
<1>1. Current' = Current
  BY DEF Current
<1>2. QED
  BY <1>1 DEF EditedTeamHasSnapshot, Kept

-----------------------------------------------------------------------------
(* Every step keeps the invariant.                                         *)

(* The invariant holds before anything was edited or started.              *)
LEMMA InitIInv == Init => IInv
<1> SUFFICES ASSUME Init
             PROVE  IInv
  OBVIOUS
<1>1. versions = <<Current>> /\ snapshots = <<>> /\ standups = <<>> /\ call = NoCall
  BY DEF Init
<1>2. versions \in Seq({Current}) /\ snapshots \in Seq({Current}) /\ standups \in Seq({Current})
  BY <1>1
<1>3. Len(versions) = 1 /\ versions[1] = Current
  BY <1>1
<1>4. RowsInOrder /\ VersionIsCurrent
  BY <1>2, <1>3 DEF RowsInOrder, VersionIsCurrent
<1>5. CallIsBacked
  BY <1>1 DEF CallIsBacked, NoCall
<1>6. StandupsAreBacked /\ StandupAsksTheTeam
  BY <1>1, <1>2 DEF StandupsAreBacked, StandupAsksTheTeam
<1>7. EditedTeamHasSnapshot
  BY <1>3 DEF EditedTeamHasSnapshot
<1>8. QED
  BY <1>4, <1>5, <1>6, <1>7 DEF IInv

(* Steps that add neither versions, snapshots nor standups, and do not go  *)
(* on with createStandup.                                                  *)
LEMMA QuietStep ==
  ASSUME IInv,
         UNCHANGED <<roster, question, option, versions, snapshots, standups, call>>
  PROVE  IInv'
<1>1. Current' = Current
  BY DEF Current
<1>2. QED
  BY <1>1 DEF IInv, RowsInOrder, VersionIsCurrent, CallIsBacked, StandupsAreBacked,
              StandupAsksTheTeam, EditedTeamHasSnapshot

(* Steps of createStandup: tables and versions stay.                       *)
LEMMA RowsAreKept ==
  ASSUME IInv, versions' = versions, snapshots' = snapshots
  PROVE  Kept(versions, versions') /\ Kept(snapshots, snapshots')
<1>1. PICK S : versions \in Seq(S) /\ snapshots \in Seq(S)
  BY DEF IInv, RowsInOrder
<1>2. QED
  BY <1>1 DEF Kept

(* A step of the notifier that adds no row: what is left is that the call  *)
(* is backed.                                                              *)
LEMMA CallStep ==
  ASSUME IInv, CallIsBacked',
         UNCHANGED <<roster, question, option, versions, snapshots, standups>>
  PROVE  IInv'
<1>1. Current' = Current
  BY DEF Current
<1>2. QED
  BY <1>1 DEF IInv, RowsInOrder, VersionIsCurrent, StandupsAreBacked,
              StandupAsksTheTeam, EditedTeamHasSnapshot

(* findByStart reads the last version.                                     *)
LEMMA MatchStep == IInv /\ Match => IInv'
<1> SUFFICES ASSUME IInv, Match
             PROVE  IInv'
  OBVIOUS
<1>1. /\ call' = [stage |-> "matched", team |-> Current, since |-> Len(versions)]
      /\ UNCHANGED <<roster, question, option, versions, snapshots, standups>>
  BY DEF Match, tables
<1>2. CallIsBacked'
  BY <1>1 DEF IInv, VersionIsCurrent, CallIsBacked
<1>3. QED
  BY <1>1, <1>2, CallStep

(* findSnapshot finds a row, or none.                                      *)
LEMMA FindSnapshotStep == IInv /\ FindSnapshot => IInv'
<1> SUFFICES ASSUME IInv, FindSnapshot
             PROVE  IInv'
  OBVIOUS
<1>1. PICK i \in Last :
        call' = [stage |-> "compared", team |-> call.team, since |-> call.since,
                 last |-> i]
  BY DEF FindSnapshot
<1>2. /\ call.stage = "matched"
      /\ UNCHANGED <<roster, question, option, versions, snapshots, standups>>
  BY DEF FindSnapshot, tables
<1>3. i \in 0..Len(snapshots)
  BY RowsAreKept, <1>2 DEF Last, Kept
<1>4. CallIsBacked'
  BY <1>1, <1>2, <1>3 DEF IInv, CallIsBacked
<1>5. QED
  BY <1>2, <1>4, CallStep

(* A snapshot is kept only if it says what the team was.                   *)
LEMMA KeepSnapshotStep == IInv /\ KeepSnapshot => IInv'
<1> SUFFICES ASSUME IInv, KeepSnapshot
             PROVE  IInv'
  OBVIOUS
<1>1. /\ call.stage = "compared"
      /\ call' = [stage |-> "ready", since |-> call.since, snapshot |-> call.last]
      /\ UNCHANGED <<roster, question, option, versions, snapshots, standups>>
  BY DEF KeepSnapshot, Ready, tables
<1>2. TRUE \in Equals(call.last, call.team)
  BY DEF KeepSnapshot
<1>3. call.last # 0 /\ snapshots[call.last].content = call.team
  BY <1>2 DEF Equals
<1>4. CallIsBacked'
  BY <1>1, <1>3 DEF IInv, CallIsBacked
<1>5. QED
  BY <1>1, <1>4, CallStep

(* A snapshot that is taken says what the team was.                        *)
LEMMA TakeSnapshotStep == IInv /\ TakeSnapshot => IInv'
<1> SUFFICES ASSUME IInv, TakeSnapshot
             PROVE  IInv'
  OBVIOUS
<1>1. PICK S : versions \in Seq(S) /\ snapshots \in Seq(S)
  BY DEF IInv, RowsInOrder
<1>2. DEFINE row == [content |-> call.team, at |-> now]
<1>3. /\ call.stage = "compared"
      /\ snapshots' = Append(snapshots, row)
      /\ call' = [stage |-> "ready", since |-> call.since, snapshot |-> Len(snapshots) + 1]
      /\ UNCHANGED <<roster, question, option, versions, standups>>
  BY DEF TakeSnapshot, Ready, Taken, tables
<1> HIDE DEF row
<1>4. /\ snapshots' \in Seq(S \union {row})
      /\ Len(snapshots') = Len(snapshots) + 1
      /\ snapshots'[Len(snapshots) + 1] = row
      /\ Kept(snapshots, snapshots')
  BY <1>1, <1>3, Appended DEF Kept
<1>5. Kept(versions, versions')
  BY <1>1, <1>3 DEF Kept
<1>6. RowsInOrder'
  <2>1. versions' \in Seq(S \union {row})
    BY <1>1, <1>3, Widened
  <2>2. QED
    BY <2>1, <1>4 DEF RowsInOrder
<1>7. VersionIsCurrent'
  BY <1>3 DEF IInv, VersionIsCurrent, Current
<1>8. CallIsBacked'
  <2>1. row.content = versions[call.since] /\ call.since \in 1..Len(versions)
    BY <1>3 DEF IInv, CallIsBacked, row
  <2>2. Len(snapshots) + 1 \in 1..Len(snapshots')
    BY <1>1, <1>4
  <2>3. QED
    BY <1>3, <1>4, <2>1, <2>2 DEF CallIsBacked
<1>9. StandupsAreBacked' /\ StandupAsksTheTeam'
  BY <1>3, <1>4, <1>5, StandupsStay DEF IInv
<1>10. EditedTeamHasSnapshot'
  BY <1>3, <1>4, EditedStays DEF IInv
<1>11. QED
  BY <1>6, <1>7, <1>8, <1>9, <1>10 DEF IInv

(* The standup refers to the snapshot of the version matched.              *)
LEMMA InsertStandupStep == IInv /\ InsertStandup => IInv'
<1> SUFFICES ASSUME IInv, InsertStandup
             PROVE  IInv'
  OBVIOUS
<1>1. DEFINE row == [snapshot |-> call.snapshot, since |-> call.since]
<1>2. /\ call.stage = "ready" /\ call' = NoCall
      /\ standups' = Append(standups, row)
      /\ UNCHANGED <<roster, question, option, versions, snapshots>>
  BY DEF InsertStandup, tables
<1>3. PICK S : standups \in Seq(S)
  BY DEF IInv, StandupsAreBacked
<1>4. /\ row.since \in 1..Len(versions)
      /\ row.snapshot \in 1..Len(snapshots)
      /\ snapshots[row.snapshot].content = versions[row.since]
  BY <1>2 DEF IInv, CallIsBacked
<1> HIDE DEF row
<1>5. /\ standups' \in Seq(S \union {row})
      /\ DOMAIN standups' = 1..Len(standups) + 1
      /\ DOMAIN standups = 1..Len(standups) /\ Len(standups) \in Nat
      /\ \A i \in 1..Len(standups) : standups'[i] = standups[i]
      /\ standups'[Len(standups) + 1] = row
  BY <1>2, <1>3, Appended
<1>6. \A i \in DOMAIN standups' : i \in DOMAIN standups \/ standups'[i] = row
  BY <1>5
<1>7. StandupsAreBacked' /\ StandupAsksTheTeam'
  <2>1. \A i \in DOMAIN standups' :
          /\ standups'[i].since \in 1..Len(versions)
          /\ standups'[i].snapshot \in 1..Len(snapshots)
          /\ snapshots[standups'[i].snapshot].content = versions[standups'[i].since]
    BY <1>4, <1>5, <1>6 DEF IInv, StandupsAreBacked, StandupAsksTheTeam
  <2>2. QED
    BY <1>2, <1>5, <2>1 DEF StandupsAreBacked, StandupAsksTheTeam
<1>8. CallIsBacked'
  BY <1>2 DEF CallIsBacked, NoCall
<1>9. /\ RowsInOrder' /\ VersionIsCurrent' /\ EditedTeamHasSnapshot'
  <2>1. Current' = Current
    BY <1>2 DEF Current
  <2>2. QED
    BY <1>2, <2>1 DEF IInv, RowsInOrder, VersionIsCurrent, EditedTeamHasSnapshot
<1>10. QED
  BY <1>7, <1>8, <1>9 DEF IInv

(* submit stores a version, and a snapshot of it unless the last one says  *)
(* the same.                                                               *)
LEMMA SubmitStep == ASSUME IInv, NEW c \in Clients, Submit(c) PROVE IInv'
<1>1. PICK S : versions \in Seq(S) /\ snapshots \in Seq(S)
  BY DEF IInv, RowsInOrder
<1>2. versions' = Append(versions, Current')
  BY DEF Submit, Current
<1>3. PICK i \in Last : \E same \in Equals(i, Current') :
        snapshots' = IF same THEN snapshots ELSE Taken(Current')
  BY DEF Submit, Current
<1>16. PICK same \in Equals(i, Current') :
        snapshots' = IF same THEN snapshots ELSE Taken(Current')
  BY <1>3
<1>4. standups' = standups /\ call' = call
  BY DEF Submit
<1>5. DEFINE row == [content |-> Current', at |-> now]
<1>6. snapshots' = snapshots \/ snapshots' = Append(snapshots, row)
  BY <1>16 DEF Taken
<1>7. Taken(Current') = Append(snapshots, row) /\ row.content = Current'
  BY DEF Taken
<1> HIDE DEF row
<1>8. /\ versions' \in Seq(S \union {Current'})
      /\ Len(versions') = Len(versions) + 1
      /\ versions'[Len(versions) + 1] = Current'
      /\ Kept(versions, versions')
  BY <1>1, <1>2, Appended DEF Kept
<1>9. /\ snapshots' \in Seq(S \union {row})
      /\ Kept(snapshots, snapshots')
  <2>1. CASE snapshots' = snapshots
    BY <1>1, <2>1, Widened DEF Kept
  <2>2. CASE snapshots' = Append(snapshots, row)
    BY <1>1, <2>2, Appended DEF Kept
  <2>3. QED
    BY <1>6, <2>1, <2>2
<1>10. RowsInOrder'
  <2>1. DEFINE T == (S \union {Current'}) \union (S \union {row})
  <2>2. S \union {Current'} \subseteq T /\ S \union {row} \subseteq T
    OBVIOUS
  <2>3. versions' \in Seq(T) /\ snapshots' \in Seq(T)
    BY <1>8, <1>9, <2>2, Widened
  <2>4. QED
    BY <2>3 DEF RowsInOrder
<1>11. VersionIsCurrent'
  BY <1>1, <1>8 DEF VersionIsCurrent
<1>12. EditedTeamHasSnapshot'
  <2>1. CASE same
    <3>1. i # 0 /\ snapshots[i].content = Current'
      BY <1>16, <2>1 DEF Equals
    <3>2. i \in DOMAIN snapshots
      BY <1>3, <3>1 DEF Last
    <3>3. snapshots' = snapshots
      BY <1>16, <2>1
    <3>4. QED
      BY <3>1, <3>2, <3>3 DEF EditedTeamHasSnapshot
  <2>2. CASE ~same
    <3>1. snapshots' = Append(snapshots, row)
      BY <1>16, <1>7, <2>2
    <3>2. Len(snapshots) + 1 \in DOMAIN snapshots' /\ snapshots'[Len(snapshots) + 1] = row
      BY <1>1, <3>1, Appended
    <3>3. QED
      BY <3>2, <1>7 DEF EditedTeamHasSnapshot
  <2>3. QED
    BY <2>1, <2>2
<1>13. StandupsAreBacked' /\ StandupAsksTheTeam'
  BY <1>4, <1>8, <1>9, StandupsStay DEF IInv
<1>14. CallIsBacked'
  BY <1>4, <1>8, <1>9, CallStays DEF IInv
<1>15. QED
  BY <1>10, <1>11, <1>12, <1>13, <1>14 DEF IInv

(* Every step keeps the invariant.                                         *)
LEMMA NextIInv == IInv /\ [Next]_vars => IInv'
<1> SUFFICES ASSUME IInv, [Next]_vars
             PROVE  IInv'
  OBVIOUS
<1>1. CASE UNCHANGED vars
  BY <1>1, QuietStep DEF vars, tables
<1>2. CASE Tick
  BY <1>2, QuietStep DEF Tick, tables
<1>3. ASSUME NEW c \in Clients, Load(c)
      PROVE  IInv'
  BY <1>3, QuietStep DEF Load, tables
<1>4. ASSUME NEW c \in Clients, NEW dto, Send(c, dto)
      PROVE  IInv'
  BY <1>4, QuietStep DEF Send, tables
<1>5. ASSUME NEW c \in Clients, CheckTeam(c)
      PROVE  IInv'
  BY <1>5, QuietStep DEF CheckTeam, tables
<1>6. ASSUME NEW c \in Clients, Submit(c)
      PROVE  IInv'
  BY <1>6, SubmitStep
<1>7. ASSUME NEW c \in Clients, SubmitFails(c)
      PROVE  IInv'
  BY <1>7, QuietStep DEF SubmitFails, tables
<1>8. ASSUME NEW value, SetStatus(value)
      PROVE  IInv'
  BY <1>8, QuietStep DEF SetStatus
<1>9. CASE Match
  BY <1>9, MatchStep
<1>10. CASE FindSnapshot
  BY <1>10, FindSnapshotStep
<1>11. CASE KeepSnapshot
  BY <1>11, KeepSnapshotStep
<1>12. CASE TakeSnapshot
  BY <1>12, TakeSnapshotStep
<1>13. CASE InsertStandup
  BY <1>13, InsertStandupStep
<1>14. CASE CreateFails
  <2>1. CallIsBacked'
    BY <1>14 DEF CreateFails, CallIsBacked, NoCall
  <2>2. QED
    BY <1>14, <2>1, CallStep DEF CreateFails, tables
<1>15. QED
  BY <1>1, <1>2, <1>3, <1>4, <1>5, <1>6, <1>7, <1>8, <1>9, <1>10, <1>11, <1>12,
     <1>13, <1>14 DEF Next

(* The invariant holds always.                                             *)
LEMMA TeamInvariant == Spec => []IInv
BY InitIInv, NextIInv, PTL DEF Spec

(* A standup asks what its team was when it was matched.                   *)
THEOREM StandupAsksTheTeamHolds == Spec => []StandupAsksTheTeam
<1>1. IInv => StandupAsksTheTeam
  BY DEF IInv
<1>2. QED
  BY <1>1, TeamInvariant, PTL

(* An edited team has a snapshot of what it is.                            *)
THEOREM EditedTeamHasSnapshotHolds == Spec => []EditedTeamHasSnapshot
<1>1. IInv => EditedTeamHasSnapshot
  BY DEF IInv
<1>2. QED
  BY <1>1, TeamInvariant, PTL

-----------------------------------------------------------------------------
(* What the types need to know of tables, forms and requests               *)

(* What a browser shows: a team with users and with questions, whose rows  *)
(* are there and which have different places.                              *)
IsShown(x) ==
  /\ IsContent(x)
  /\ x.users # {} /\ DOMAIN x.questions # {}
  /\ \A p, q \in DOMAIN x.questions :
       x.questions[p].index = x.questions[q].index => p = q

(* Questions that a form which showed x may hold: each row at most once,   *)
(* with no option that it did not show, and new ones.                      *)
AreItems(s, x) ==
  /\ s \in Seq(DTOQuestions) /\ s # <<>>
  /\ \A i \in DOMAIN s :
       /\ s[i].id \in {0} \union DOMAIN x.questions
       /\ s[i].options \subseteq IF s[i].id = 0 THEN {} ELSE x.questions[s[i].id].options
  /\ \A i, j \in DOMAIN s : s[i].id = s[j].id => i = j \/ s[i].id = 0

IsDraft(dto, x) ==
  /\ dto \in [users : (SUBSET Users) \ {{}}, questions : Seq(DTOQuestions) \ {<<>>}]
  /\ AreItems(dto.questions, x)
  /\ \A i \in DOMAIN dto.questions : dto.questions[i].index = i - 1

(* The tables: no two enabled questions have the same place.               *)
TablesTyped ==
  /\ now \in 0..MaxSeconds
  /\ status \in Statuses
  /\ roster \in (SUBSET Users) \ {{}}
  /\ question \in Seq(Question)
  /\ option \in Seq(QuestionOption(question))
  /\ Len(question) \in Ids /\ Len(option) <= MaxOptions
  /\ \A p, q \in DOMAIN question :
       question[p].enabled /\ question[q].enabled /\ question[p].index = question[q].index
         => p = q

(* The rows that only the notifier and submit add.                         *)
RowsTyped ==
  /\ \A i \in DOMAIN snapshots : TeamSnapshot(snapshots[i])
  /\ standups \in Seq(Standup)
  /\ call = NoCall \/ IsCall(call)
  /\ \A v \in DOMAIN versions : IsContent(versions[v])

(* What a browser shows, and what it sends, is of questions there are.     *)
FormsAreShown ==
  /\ \E S : form \in [Clients -> S]
  /\ \A k \in Clients : form[k] # NoForm =>
       IsShown(form[k]) /\ DOMAIN form[k].questions \subseteq DOMAIN question

RequestsAreDrafts ==
  /\ \E S : request \in [Clients -> S]
  /\ \A k \in Clients : request[k] # NoRequest =>
       /\ request[k].stage \in {"sent", "checked"}
       /\ IsShown(request[k].seen) /\ DOMAIN request[k].seen.questions \subseteq DOMAIN question
       /\ IsDraft(request[k].dto, request[k].seen)

TeamTypeInv ==
  IInv /\ TablesTyped /\ RowsTyped /\ FormsAreShown /\ RequestsAreDrafts

-----------------------------------------------------------------------------
(* Places                                                                  *)

(* How many elements of S have no greater key than q.                      *)
Rank(S, key, q) == Cardinality({p \in S : key[p] <= key[q]})

(* Counting those with no greater key numbers the elements of a finite set *)
(* from 1 on, when no two have the same key.                               *)
LEMMA RankIsPlace ==
  ASSUME NEW S, IsFiniteSet(S), NEW key \in [S -> Int],
         \A p, q \in S : key[p] = key[q] => p = q
  PROVE  /\ \A q \in S : Rank(S, key, q) \in 1..Cardinality(S)
         /\ \A p, q \in S : Rank(S, key, p) = Rank(S, key, q) => p = q
         /\ {Rank(S, key, q) : q \in S} = 1..Cardinality(S)
<1> DEFINE upTo(q) == {p \in S : key[p] <= key[q]}
           place(q) == Rank(S, key, q)
           n == Cardinality(S)
<1>1. n \in Nat
  BY FS_CardinalityType
<1>2. \A q \in S : upTo(q) \in SUBSET S /\ q \in upTo(q)
  OBVIOUS
<1>0. \A q : place(q) = Cardinality(upTo(q))
  BY DEF Rank
<1>9. \A p, q \in S : p \in upTo(q) <=> key[p] <= key[q]
  OBVIOUS
<1> HIDE DEF upTo, place
<1>3. \A q \in S : IsFiniteSet(upTo(q)) /\ place(q) <= n
  BY <1>0, <1>2, FS_Subset
<1>4. \A q \in S : place(q) \in Nat /\ place(q) # 0
  BY <1>0, <1>2, <1>3, FS_CardinalityType, FS_EmptySet
<1>5. \A q \in S : place(q) \in 1..n
  BY <1>1, <1>3, <1>4
<1>6. ASSUME NEW p \in S, NEW q \in S, place(p) = place(q), key[p] <= key[q]
      PROVE  p = q
  <2>1. upTo(p) \in SUBSET upTo(q)
    BY <1>2, <1>6, <1>9
  <2>2. upTo(p) = upTo(q)
    BY <1>0, <1>3, <1>6, <2>1, FS_Subset
  <2>3. key[q] <= key[p]
    BY <1>2, <1>9, <2>2
  <2>4. QED
    BY <1>6, <2>3
<1>7. \A p, q \in S : place(p) = place(q) => p = q
  <2> SUFFICES ASSUME NEW p \in S, NEW q \in S, place(p) = place(q)
               PROVE  p = q
    OBVIOUS
  <2>1. key[p] <= key[q] \/ key[q] <= key[p]
    OBVIOUS
  <2>2. QED
    BY <1>6, <2>1
<1>8. ASSUME NEW i \in 1..n, \A q \in S : place(q) # i
      PROVE  FALSE
  <2>1. IsFiniteSet(1..n) /\ Cardinality(1..n) = n
    BY <1>1, FS_Interval
  <2>2. IsFiniteSet((1..n) \ {i}) /\ Cardinality((1..n) \ {i}) = n - 1
    BY <1>8, <2>1, FS_RemoveElement
  <2>3. DEFINE f == [q \in S |-> place(q)]
  <2>4. f \in [S -> (1..n) \ {i}]
    BY <1>5, <1>8
  <2>5. \A p, q \in S : f[p] = f[q] => p = q
    BY <1>7
  <2> HIDE DEF f
  <2>6. n - 1 < n
    BY <1>1
  <2>7. QED
    BY <2>2, <2>4, <2>5, <2>6, FS_PigeonHole
<1>10. {place(q) : q \in S} = 1..n
  BY <1>5, <1>8
<1>11. QED
  BY <1>5, <1>7, <1>10 DEF place

(* So does Place with the elements of a set of numbers.                    *)
LEMMA PlaceIsPlace ==
  ASSUME NEW S \in SUBSET Int, IsFiniteSet(S)
  PROVE  /\ Cardinality(S) \in Nat
         /\ \A q \in S : Place(S, q) \in 1..Cardinality(S)
         /\ \A p, q \in S : Place(S, p) = Place(S, q) => p = q
         /\ {Place(S, q) : q \in S} = 1..Cardinality(S)
<1> DEFINE key == [q \in S |-> q]
<1>1. key \in [S -> Int] /\ \A p, q \in S : key[p] = key[q] => p = q
  OBVIOUS
<1>2. \A q \in S : Rank(S, key, q) = Place(S, q)
  <2> SUFFICES ASSUME NEW q \in S
               PROVE  {p \in S : key[p] <= key[q]} = {p \in S : p <= q}
    BY DEF Rank, Place
  <2>1. QED
    OBVIOUS
<1> HIDE DEF key
<1>3. \A q \in S : Rank(S, key, q) \in 1..Cardinality(S)
  BY <1>1, RankIsPlace
<1>4. \A p, q \in S : Rank(S, key, p) = Rank(S, key, q) => p = q
  BY <1>1, RankIsPlace
<1>5. {Rank(S, key, q) : q \in S} = 1..Cardinality(S)
  BY <1>1, RankIsPlace
<1>6. Cardinality(S) \in Nat
  BY FS_CardinalityType
<1>7. QED
  BY <1>2, <1>3, <1>4, <1>5, <1>6

(* The rows of a table, and some of them, are finitely many.               *)
LEMMA PlacesAreFinite ==
  ASSUME NEW T, NEW s \in Seq(T), NEW P \in SUBSET DOMAIN s
  PROVE  IsFiniteSet(P) /\ P \in SUBSET Int
<1>1. DOMAIN s = 1..Len(s) /\ Len(s) \in Nat
  OBVIOUS
<1>2. IsFiniteSet(1..Len(s))
  BY <1>1, FS_Interval
<1>3. QED
  BY <1>1, <1>2, FS_Subset

-----------------------------------------------------------------------------
(* Forms                                                                   *)

(* The bounds are numbers.                                                 *)
LEMMA Bounds ==
  /\ MaxQuestions \in Nat \ {0} /\ MaxOptions \in Nat /\ MaxSeconds \in Nat
  /\ MaxVersions \in Nat /\ MaxSnapshots \in Nat /\ MaxStandups \in Nat
BY TeamAssumption

(* A form shows each of the questions once, in its place.                  *)
LEMMA ShownItemsAre ==
  ASSUME NEW f, IsShown(f)
  PROVE  /\ AreItems(ShownItems(f), f)
         /\ \A i \in DOMAIN ShownItems(f) : ShownItems(f)[i].index = i - 1
<1> DEFINE D == DOMAIN f.questions
           key == [q \in D |-> f.questions[q].index]
           n == Cardinality(D)
           nth(i) == CHOOSE p \in D : Rank(D, key, p) = i
           s == ShownItems(f)
           row(i) == [id |-> nth(i), index |-> i - 1, text |-> f.questions[nth(i)].text,
                      options |-> f.questions[nth(i)].options, added |-> FALSE]
<1>1. /\ D \in SUBSET Ids /\ D # {}
      /\ \A q \in D : /\ f.questions[q].text \in Texts /\ f.questions[q].index \in Nat
                      /\ f.questions[q].options \in SUBSET (1..MaxOptions)
  BY DEF IsShown, IsContent, QuestionSnapshot, QuestionOptionSnapshot
<1>2. IsFiniteSet(D)
  <2>1. IsFiniteSet(Ids)
    BY Bounds, FS_Interval DEF Ids
  <2>2. QED
    BY <1>1, <2>1, FS_Subset
<1>3. n \in Nat \ {0}
  BY <1>1, <1>2, FS_CardinalityType, FS_EmptySet
<1>4. \A q \in D : Cardinality({p \in D : f.questions[p].index <= f.questions[q].index})
                     = Rank(D, key, q)
  <2> SUFFICES ASSUME NEW q \in D
               PROVE  {p \in D : f.questions[p].index <= f.questions[q].index}
                        = {p \in D : key[p] <= key[q]}
    BY DEF Rank
  <2>1. QED
    OBVIOUS
<1>5. s = [i \in 1..n |-> row(i)]
  <2>1. \A i : nth(i) =
          CHOOSE q \in D :
            Cardinality({p \in D : f.questions[p].index <= f.questions[q].index}) = i
    BY <1>4
  <2> HIDE DEF nth, key
  <2>2. QED
    BY <2>1 DEF ShownItems
<1>6. key \in [D -> Int] /\ \A p, q \in D : key[p] = key[q] => p = q
  BY <1>1 DEF IsShown
<1> HIDE DEF key, D, s
<1>7. {Rank(D, key, q) : q \in D} = 1..n
  BY <1>2, <1>6, RankIsPlace
<1>8. \A i \in 1..n : nth(i) \in D /\ Rank(D, key, nth(i)) = i
  BY <1>7
<1> HIDE DEF nth, n
<1>9. \A i \in 1..n : nth(i) \in Ids /\ nth(i) # 0
  <2>1. \A q \in Ids : q # 0
    BY Bounds DEF Ids
  <2>2. \A q \in D : q \in Ids
    BY <1>1
  <2>3. QED
    BY <1>8, <2>1, <2>2
<1>10. \A i \in 1..n : row(i) \in DTOQuestions
  <2> SUFFICES ASSUME NEW i \in 1..n
               PROVE  row(i) \in DTOQuestions
    OBVIOUS
  <2>1. nth(i) \in 0..MaxQuestions /\ nth(i) \in D
    BY <1>8, <1>9, Bounds DEF Ids
  <2>2. i - 1 \in Nat
    BY <1>3
  <2>3. QED
    BY <1>1, <2>1, <2>2 DEF DTOQuestions
<1>11. /\ s \in Seq(DTOQuestions) /\ s # <<>> /\ DOMAIN s = 1..n
       /\ \A i \in 1..n : s[i] = row(i)
  <2> HIDE DEF row
  <2>1. DOMAIN s = 1..n /\ \A i \in 1..n : s[i] = row(i)
    BY <1>5
  <2>2. s \in Seq(DTOQuestions)
    BY <1>3, <1>5, <1>10
  <2>3. s # <<>>
    BY <1>3, <2>1
  <2>4. QED
    BY <2>1, <2>2, <2>3
<1>12. \A i \in 1..n : s[i].id = nth(i) /\ s[i].options = f.questions[nth(i)].options
  BY <1>11
<1>13. \A i \in 1..n : s[i].index = i - 1
  BY <1>11
<1>14. \A i, j \in 1..n : nth(i) = nth(j) => i = j
  BY <1>8
<1>15. AreItems(s, f)
  BY <1>8, <1>9, <1>11, <1>12, <1>14 DEF AreItems, D
<1>16. QED
  BY <1>11, <1>13, <1>15 DEF s

(* What is before an element of a sequence, and what is after it.          *)
LEMMA BeforeAndAfter ==
  ASSUME NEW T, NEW s \in Seq(T), NEW i \in 1..Len(s)
  PROVE  /\ SubSeq(s, 1, i - 1) \in Seq(T) /\ Len(SubSeq(s, 1, i - 1)) = i - 1
         /\ \A k \in 1..i - 1 : SubSeq(s, 1, i - 1)[k] = s[k]
         /\ SubSeq(s, i + 1, Len(s)) \in Seq(T) /\ Len(SubSeq(s, i + 1, Len(s))) = Len(s) - i
         /\ \A k \in 1..Len(s) - i : SubSeq(s, i + 1, Len(s))[k] = s[i + k]
<1>1. Len(s) \in Nat /\ i \in Int /\ 1 <= i /\ i <= Len(s) /\ \A k \in 1..Len(s) : s[k] \in T
  OBVIOUS
<1>2. \A k \in 1..i - 1 : s[k] \in T
  BY <1>1
<1>3. \A k \in i + 1..Len(s) : s[k] \in T
  BY <1>1
<1>4. /\ SubSeq(s, 1, i - 1) \in Seq(T) /\ Len(SubSeq(s, 1, i - 1)) = i - 1
      /\ \A k \in 1..i - 1 : SubSeq(s, 1, i - 1)[k] = s[k]
  BY <1>1, <1>2, SubSeqProperties
<1>5. /\ SubSeq(s, i + 1, Len(s)) \in Seq(T) /\ Len(SubSeq(s, i + 1, Len(s))) = Len(s) - i
      /\ \A k \in 1..Len(s) - i : SubSeq(s, i + 1, Len(s))[k] = s[i + k]
  BY <1>1, <1>3, SubSeqProperties
<1>6. QED
  BY <1>4, <1>5

(* What a user may change leaves items of the form.                        *)
LEMMA RearrangedAre ==
  ASSUME NEW f, IsShown(f), NEW s, AreItems(s, f), NEW z \in Rearranged(s)
  PROVE  AreItems(z, f)
<1>1. /\ s \in Seq(DTOQuestions) /\ s # <<>> /\ DOMAIN s = 1..Len(s) /\ Len(s) \in Nat \ {0}
      /\ \A i \in DOMAIN s :
           /\ s[i] \in DTOQuestions
           /\ s[i].id \in {0} \union DOMAIN f.questions
           /\ s[i].options \subseteq IF s[i].id = 0 THEN {} ELSE f.questions[s[i].id].options
      /\ \A i, j \in DOMAIN s : s[i].id = s[j].id => i = j \/ s[i].id = 0
  BY DEF AreItems
<1>2. ASSUME NEW y \in Seq(DTOQuestions), y # <<>>, DOMAIN y \subseteq DOMAIN s,
             NEW from \in [DOMAIN y -> DOMAIN s], \A i, j \in DOMAIN y : from[i] = from[j] => i = j,
             \A i \in DOMAIN y :
               y[i].id = s[from[i]].id /\ y[i].options \subseteq s[from[i]].options
      PROVE  AreItems(y, f)
  <2>1. \A i \in DOMAIN y : y[i].id \in {0} \union DOMAIN f.questions
    BY <1>1, <1>2
  <2>2. \A i \in DOMAIN y :
          y[i].options \subseteq IF y[i].id = 0 THEN {} ELSE f.questions[y[i].id].options
    <3> SUFFICES ASSUME NEW i \in DOMAIN y
                 PROVE  y[i].options \subseteq
                          IF y[i].id = 0 THEN {} ELSE f.questions[y[i].id].options
      OBVIOUS
    <3>1. /\ from[i] \in DOMAIN s
          /\ y[i].id = s[from[i]].id /\ y[i].options \subseteq s[from[i]].options
      BY <1>2
    <3>2. s[from[i]].options \subseteq
            IF s[from[i]].id = 0 THEN {} ELSE f.questions[s[from[i]].id].options
      BY <1>1, <3>1
    <3>3. QED
      BY <3>1, <3>2
  <2>3. \A i, j \in DOMAIN y : y[i].id = y[j].id => i = j \/ y[i].id = 0
    <3> SUFFICES ASSUME NEW i \in DOMAIN y, NEW j \in DOMAIN y, y[i].id = y[j].id, y[i].id # 0
                 PROVE  i = j
      OBVIOUS
    <3>1. /\ from[i] \in DOMAIN s /\ y[i].id = s[from[i]].id
          /\ from[j] \in DOMAIN s /\ y[j].id = s[from[j]].id
      BY <1>2
    <3>2. from[i] = from[j]
      BY <1>1, <3>1
    <3>3. QED
      BY <1>2, <3>2
  <2>4. QED
    BY <1>2, <2>1, <2>2, <2>3 DEF AreItems
<1>3. ASSUME NEW i \in DOMAIN s, NEW r \in DTOQuestions,
             r.id = s[i].id, r.options \subseteq s[i].options,
             z = [s EXCEPT ![i] = r]
      PROVE  AreItems(z, f)
  <2>1. z \in Seq(DTOQuestions) /\ DOMAIN z = DOMAIN s /\ z # <<>>
    BY <1>1, <1>3
  <2>2. \A j \in DOMAIN z : z[j].id = s[j].id /\ z[j].options \subseteq s[j].options
    BY <1>3, <2>1
  <2>3. DEFINE from == [j \in DOMAIN z |-> j]
  <2>4. /\ from \in [DOMAIN z -> DOMAIN s]
        /\ \A k, j \in DOMAIN z : from[k] = from[j] => k = j
        /\ \A j \in DOMAIN z : z[j].id = s[from[j]].id /\ z[j].options \subseteq s[from[j]].options
    BY <2>1, <2>2
  <2> HIDE DEF from
  <2>5. QED
    BY <1>2, <2>1, <2>4
<1>4. CASE z = s
  BY <1>4
<1>5. ASSUME NEW i \in DOMAIN s, NEW t \in Texts, z = [s EXCEPT ![i].text = t]
      PROVE  AreItems(z, f)
  <2>1. DEFINE r == [s[i] EXCEPT !.text = t]
  <2>2. r \in DTOQuestions /\ r.id = s[i].id /\ r.options = s[i].options
    BY <1>1, <1>5 DEF DTOQuestions
  <2>3. z = [s EXCEPT ![i] = r]
    BY <1>5
  <2> HIDE DEF r
  <2>4. QED
    BY <1>3, <1>5, <2>2, <2>3
<1>6. ASSUME NEW i \in DOMAIN s, z = [s EXCEPT ![i].added = TRUE]
      PROVE  AreItems(z, f)
  <2>1. DEFINE r == [s[i] EXCEPT !.added = TRUE]
  <2>2. r \in DTOQuestions /\ r.id = s[i].id /\ r.options = s[i].options
    BY <1>1, <1>6 DEF DTOQuestions
  <2>3. z = [s EXCEPT ![i] = r]
    BY <1>6
  <2> HIDE DEF r
  <2>4. QED
    BY <1>3, <1>6, <2>2, <2>3
<1>7. ASSUME NEW i \in DOMAIN s, NEW o, z = [s EXCEPT ![i].options = @ \ {o}]
      PROVE  AreItems(z, f)
  <2>1. DEFINE r == [s[i] EXCEPT !.options = @ \ {o}]
  <2>2. r \in DTOQuestions /\ r.id = s[i].id /\ r.options \subseteq s[i].options
    BY <1>1, <1>7 DEF DTOQuestions
  <2>3. z = [s EXCEPT ![i] = r]
    BY <1>7
  <2> HIDE DEF r
  <2>4. QED
    BY <1>3, <1>7, <2>2, <2>3
<1>8. ASSUME NEW t \in Texts, NEW added \in BOOLEAN, z = Append(s, NewItem(t, added))
      PROVE  AreItems(z, f)
  <2>1. DEFINE r == NewItem(t, added)
  <2>2. r \in DTOQuestions /\ r.id = 0 /\ r.options = {}
    BY Bounds DEF DTOQuestions, NewItem
  <2> HIDE DEF r
  <2>3. /\ z \in Seq(DTOQuestions) /\ DOMAIN z = 1..Len(s) + 1 /\ z # <<>>
        /\ \A i \in 1..Len(s) : z[i] = s[i]
        /\ z[Len(s) + 1] = r
    BY <1>1, <1>8, <2>2 DEF r
  <2>4. \A i \in DOMAIN z : i \in DOMAIN s \/ i = Len(s) + 1
    BY <1>1, <2>3
  <2>5. \A i \in DOMAIN z : z[i].id # 0 => i \in DOMAIN s /\ z[i] = s[i]
    BY <1>1, <2>2, <2>3, <2>4
  <2>6. \A i \in DOMAIN z :
          /\ z[i].id \in {0} \union DOMAIN f.questions
          /\ z[i].options \subseteq IF z[i].id = 0 THEN {} ELSE f.questions[z[i].id].options
    BY <1>1, <2>2, <2>3, <2>4
  <2>7. \A i, j \in DOMAIN z : z[i].id = z[j].id => i = j \/ z[i].id = 0
    BY <1>1, <2>5
  <2>8. QED
    BY <2>3, <2>6, <2>7 DEF AreItems
<1>9. ASSUME NEW i \in DOMAIN s, NEW j \in DOMAIN s, z = Swapped(s, i, j)
      PROVE  AreItems(z, f)
  <2>1. DEFINE from == [k \in DOMAIN s |-> IF k = j THEN i ELSE IF k = i THEN j ELSE k]
  <2>2. z \in Seq(DTOQuestions) /\ DOMAIN z = DOMAIN s /\ z # <<>>
    BY <1>1, <1>9 DEF Swapped
  <2>3. \A k \in DOMAIN z : z[k] = s[from[k]]
    BY <1>1, <1>9 DEF Swapped
  <2>4. /\ from \in [DOMAIN z -> DOMAIN s]
        /\ \A k, l \in DOMAIN z : from[k] = from[l] => k = l
    BY <1>9, <2>2
  <2> HIDE DEF from
  <2>5. QED
    BY <1>2, <2>2, <2>3, <2>4
<1>10. ASSUME NEW i \in DOMAIN s, Len(s) > 1, z = Without(s, i)
      PROVE  AreItems(z, f)
  <2>1. DEFINE from == [k \in 1..Len(s) - 1 |-> IF k < i THEN k ELSE k + 1]
               before == SubSeq(s, 1, i - 1)
               after == SubSeq(s, i + 1, Len(s))
  <2>2. i \in 1..Len(s) /\ i \in Int /\ s \in Seq(DTOQuestions)
    BY <1>1, <1>10
  <2>3. /\ before \in Seq(DTOQuestions) /\ Len(before) = i - 1
        /\ \A k \in 1..i - 1 : before[k] = s[k]
    BY <2>2, BeforeAndAfter
  <2>4. /\ after \in Seq(DTOQuestions) /\ Len(after) = Len(s) - i
        /\ \A k \in 1..Len(s) - i : after[k] = s[i + k]
    BY <2>2, BeforeAndAfter
  <2>5. z = before \o after
    BY <1>10 DEF Without
  <2> HIDE DEF before, after
  <2>6. /\ z \in Seq(DTOQuestions) /\ Len(z) = Len(s) - 1 /\ DOMAIN z = 1..Len(s) - 1
        /\ \A k \in 1..i - 1 : z[k] = before[k]
        /\ \A k \in i..Len(s) - 1 : z[k] = after[k - (i - 1)]
    <3>1. z \in Seq(DTOQuestions) /\ Len(z) = Len(before) + Len(after)
      BY <2>3, <2>4, <2>5, ConcatProperties
    <3>2. Len(z) = Len(s) - 1 /\ DOMAIN z = 1..Len(s) - 1
      BY <1>1, <2>2, <2>3, <2>4, <3>1
    <3>3. \A k \in 1..Len(s) - 1 :
            z[k] = IF k <= i - 1 THEN before[k] ELSE after[k - (i - 1)]
      <4>1. \A k \in 1..Len(before) + Len(after) : (before \o after)[k] =
              IF k <= Len(before) THEN before[k] ELSE after[k - Len(before)]
        BY <2>3, <2>4, ConcatProperties
      <4>2. QED
        BY <2>3, <2>4, <2>5, <3>1, <3>2, <4>1
    <3>4. \A k \in 1..i - 1 : k \in 1..Len(s) - 1 /\ k <= i - 1
      BY <1>1, <2>2
    <3>5. \A k \in i..Len(s) - 1 : k \in 1..Len(s) - 1 /\ ~(k <= i - 1)
      BY <1>1, <2>2
    <3>6. QED
      BY <3>1, <3>2, <3>3, <3>4, <3>5
  <2>7. z # <<>> /\ DOMAIN z \subseteq DOMAIN s
    BY <1>1, <1>10, <2>6
  <2>8. \A k \in DOMAIN z : z[k] = s[from[k]]
    <3> SUFFICES ASSUME NEW k \in 1..Len(s) - 1
                 PROVE  z[k] = s[from[k]]
      BY <2>6
    <3>1. CASE k < i
      <4>1. k \in 1..i - 1
        BY <1>1, <2>2, <3>1
      <4>2. z[k] = s[k]
        BY <2>3, <2>6, <4>1
      <4>3. QED
        BY <3>1, <4>2
    <3>2. CASE ~(k < i)
      <4>1. k \in i..Len(s) - 1 /\ k - (i - 1) \in 1..Len(s) - i /\ i + (k - (i - 1)) = k + 1
        BY <1>1, <2>2, <3>2
      <4>2. z[k] = s[k + 1]
        BY <2>4, <2>6, <4>1
      <4>3. QED
        BY <3>2, <4>2
    <3>3. QED
      BY <3>1, <3>2
  <2>9. /\ from \in [DOMAIN z -> DOMAIN s]
        /\ \A k, l \in DOMAIN z : from[k] = from[l] => k = l
    BY <1>1, <2>2, <2>6
  <2> HIDE DEF from
  <2>10. \A k \in DOMAIN z : z[k].id = s[from[k]].id /\ z[k].options \subseteq s[from[k]].options
    BY <2>8
  <2>11. QED
    BY <1>2, <2>6, <2>7, <2>9, <2>10
<1>11. \/ z = s
       \/ \E i \in DOMAIN s, t \in Texts : z = [s EXCEPT ![i].text = t]
       \/ \E i \in DOMAIN s : z = [s EXCEPT ![i].added = TRUE]
       \/ \E i \in DOMAIN s, o \in 1..MaxOptions : z = [s EXCEPT ![i].options = @ \ {o}]
       \/ \E t \in Texts, added \in BOOLEAN : z = Append(s, NewItem(t, added))
       \/ \E i, j \in DOMAIN s : z = Swapped(s, i, j)
       \/ Len(s) > 1 /\ \E i \in DOMAIN s : z = Without(s, i)
  <2>1. \/ z \in {s}
        \/ z \in {[s EXCEPT ![i].text = t] : i \in DOMAIN s, t \in Texts}
        \/ z \in {[s EXCEPT ![i].added = TRUE] : i \in DOMAIN s}
        \/ z \in {[s EXCEPT ![i].options = @ \ {o}] : i \in DOMAIN s, o \in 1..MaxOptions}
        \/ z \in {Append(s, NewItem(t, added)) : t \in Texts, added \in BOOLEAN}
        \/ z \in {Swapped(s, i, j) : i, j \in DOMAIN s}
        \/ z \in IF Len(s) > 1 THEN {Without(s, i) : i \in DOMAIN s} ELSE {}
    BY DEF Rearranged
  <2>2. z \in {[s EXCEPT ![i].text = t] : i \in DOMAIN s, t \in Texts}
          => \E i \in DOMAIN s, t \in Texts : z = [s EXCEPT ![i].text = t]
    OBVIOUS
  <2>3. z \in {[s EXCEPT ![i].added = TRUE] : i \in DOMAIN s}
          => \E i \in DOMAIN s : z = [s EXCEPT ![i].added = TRUE]
    OBVIOUS
  <2>4. z \in {[s EXCEPT ![i].options = @ \ {o}] : i \in DOMAIN s, o \in 1..MaxOptions}
          => \E i \in DOMAIN s, o \in 1..MaxOptions : z = [s EXCEPT ![i].options = @ \ {o}]
    OBVIOUS
  <2>5. z \in {Append(s, NewItem(t, added)) : t \in Texts, added \in BOOLEAN}
          => \E t \in Texts, added \in BOOLEAN : z = Append(s, NewItem(t, added))
    OBVIOUS
  <2>6. z \in {Swapped(s, i, j) : i, j \in DOMAIN s}
          => \E i, j \in DOMAIN s : z = Swapped(s, i, j)
    OBVIOUS
  <2>7. z \in (IF Len(s) > 1 THEN {Without(s, i) : i \in DOMAIN s} ELSE {})
          => Len(s) > 1 /\ \E i \in DOMAIN s : z = Without(s, i)
    OBVIOUS
  <2>8. QED
    BY <2>1, <2>2, <2>3, <2>4, <2>5, <2>6, <2>7
<1>12. QED
  BY <1>4, <1>5, <1>6, <1>7, <1>8, <1>9, <1>10, <1>11

(* What a form sends is a draft of what it showed.                         *)
LEMMA DraftsAre ==
  ASSUME NEW f, IsShown(f), NEW dto \in Drafts(f)
  PROVE  IsDraft(dto, f)
<1> DEFINE items == ShownItems(f)
           placed(s) == [i \in DOMAIN s |-> [s[i] EXCEPT !.index = i - 1]]
<1>1. AreItems(items, f) /\ \A i \in DOMAIN items : items[i].index = i - 1
  BY ShownItemsAre
<1> HIDE DEF items
<1>2. f.users \in (SUBSET Users) \ {{}}
  <2>1. IsContent(f) /\ f.users # {}
    BY DEF IsShown
  <2>2. f.users \in SUBSET Users
    BY <2>1 DEF IsContent
  <2>3. QED
    BY <2>1, <2>2
<1>3. \/ \E s \in Rearranged(items) : dto = [users |-> f.users, questions |-> placed(s)]
      \/ \E us \in (SUBSET Users) \ {{}} : dto = [users |-> us, questions |-> items]
  BY DEF Drafts, items
<1>4. ASSUME NEW s \in Rearranged(items), dto = [users |-> f.users, questions |-> placed(s)]
      PROVE  IsDraft(dto, f)
  <2>1. AreItems(s, f)
    BY <1>1, <1>4, RearrangedAre
  <2>2. s \in Seq(DTOQuestions) /\ s # <<>> /\ DOMAIN s = 1..Len(s) /\ Len(s) \in Nat
    BY <2>1 DEF AreItems
  <2>3. \A i \in DOMAIN s :
          LET r == [s[i] EXCEPT !.index = i - 1] IN
          r \in DTOQuestions /\ r.id = s[i].id /\ r.options = s[i].options /\ r.index = i - 1
    <3> SUFFICES ASSUME NEW i \in DOMAIN s
                 PROVE  LET r == [s[i] EXCEPT !.index = i - 1] IN
                        /\ r \in DTOQuestions /\ r.id = s[i].id /\ r.options = s[i].options
                        /\ r.index = i - 1
      OBVIOUS
    <3>1. s[i] \in DTOQuestions /\ i - 1 \in Nat
      BY <2>2
    <3>2. QED
      BY <3>1 DEF DTOQuestions
  <2>4. DEFINE z == placed(s)
  <2>5. /\ DOMAIN z = DOMAIN s
        /\ \A i \in DOMAIN s : /\ z[i] \in DTOQuestions /\ z[i].id = s[i].id
                               /\ z[i].options = s[i].options /\ z[i].index = i - 1
    BY <2>3
  <2>6. z \in Seq(DTOQuestions) /\ z # <<>>
    <3>1. z \in [1..Len(s) -> DTOQuestions]
      BY <2>2, <2>5
    <3>2. Len(s) > 0
      BY <2>2
    <3> HIDE DEF z
    <3>3. QED
      BY <2>2, <2>5, <3>1, <3>2
  <2> HIDE DEF z
  <2>7. AreItems(z, f)
    BY <2>1, <2>5, <2>6 DEF AreItems
  <2>8. dto = [users |-> f.users, questions |-> z]
    BY <1>4 DEF z
  <2>9. QED
    BY <1>2, <2>5, <2>6, <2>7, <2>8 DEF IsDraft
<1>5. ASSUME NEW us \in (SUBSET Users) \ {{}}, dto = [users |-> us, questions |-> items]
      PROVE  IsDraft(dto, f)
  <2>1. items \in Seq(DTOQuestions) \ {<<>>}
    BY <1>1 DEF AreItems
  <2>2. QED
    BY <1>1, <1>5, <2>1 DEF IsDraft
<1>6. QED
  BY <1>3, <1>4, <1>5

-----------------------------------------------------------------------------
(* Contents                                                                *)

(* A content has the users and the enabled rows of the tables.             *)
IsContentOf(x, us, qs, os) ==
  /\ x.users = us
  /\ DOMAIN x.questions = {q \in DOMAIN qs : qs[q].enabled}
  /\ \A q \in DOMAIN qs : qs[q].enabled =>
       x.questions[q] =
         [text |-> qs[q].text, index |-> qs[q].index,
          options |-> {o \in DOMAIN os : os[o].question = q /\ os[o].enabled}]

(* What a snapshot keeps of typed rows is a content.                       *)
LEMMA ContentTyped ==
  ASSUME NEW us \in SUBSET Users, NEW qs \in Seq(Question), Len(qs) <= MaxQuestions,
         NEW os \in Seq(QuestionOption(qs)), Len(os) <= MaxOptions
  PROVE  IsContent(Content(us, qs, os)) /\ IsContentOf(Content(us, qs, os), us, qs, os)
<1> DEFINE E == {q \in DOMAIN qs : qs[q].enabled}
           row(q) == [text |-> qs[q].text, index |-> qs[q].index,
                      options |-> {o \in DOMAIN os : os[o].question = q /\ os[o].enabled}]
           f == [q \in E |-> row(q)]
           x == Content(us, qs, os)
<1>1. x = [users |-> us, questions |-> f]
  BY DEF Content
<1>2. x.users = us /\ x.questions = f
  BY <1>1
<1>3. E \in SUBSET Ids
  BY Bounds DEF Ids
<1>4. DOMAIN os \subseteq 1..MaxOptions
  BY Bounds
<1>5. \A q \in E : row(q) \in QuestionSnapshot
  <2> SUFFICES ASSUME NEW q \in E
               PROVE  row(q) \in QuestionSnapshot
    OBVIOUS
  <2>1. qs[q].text \in Texts /\ qs[q].index \in Nat
    <3>1. q \in DOMAIN qs /\ qs[q] \in Question
      OBVIOUS
    <3>2. QED
      BY <3>1 DEF Question
  <2>2. {o \in DOMAIN os : os[o].question = q /\ os[o].enabled} \in SUBSET QuestionOptionSnapshot
    BY <1>4 DEF QuestionOptionSnapshot
  <2>3. QED
    BY <2>1, <2>2 DEF QuestionSnapshot
<1> HIDE DEF row, x
<1>6. DOMAIN f = E /\ f \in [E -> QuestionSnapshot] /\ \A q \in E : f[q] = row(q)
  BY <1>5
<1> HIDE DEF f
<1>7. IsContent(x)
  BY <1>2, <1>3, <1>6 DEF IsContent
<1>8. QED
  BY <1>2, <1>6, <1>7 DEF row, x, IsContentOf

-----------------------------------------------------------------------------
(* Submit                                                                  *)

(* Rows for the items of a draft: those it names, or new ones at the end   *)
(* of the table, each for one item.                                        *)
NewRows(items) == Cardinality({i \in DOMAIN items : items[i].id > Len(question)})

AreRows(items, dto) ==
  /\ DOMAIN items = DOMAIN dto.questions
  /\ NewRows(items) \in Nat
  /\ \A i \in DOMAIN items :
       /\ items[i].text = dto.questions[i].text /\ items[i].index = dto.questions[i].index
       /\ items[i].options = dto.questions[i].options
       /\ items[i].added = dto.questions[i].added
       /\ IF dto.questions[i].id # 0
            THEN items[i].id = dto.questions[i].id /\ items[i].id \in DOMAIN question
            ELSE items[i].id \in Len(question) + 1..Len(question) + NewRows(items)
  /\ \A i, j \in DOMAIN items : items[i].id = items[j].id => i = j
  /\ \A q \in Len(question) + 1..Len(question) + NewRows(items) :
       q \in {items[i].id : i \in DOMAIN items}

(* New questions get the ids that follow the last one.                     *)
LEMMA AssignedAre ==
  ASSUME question \in Seq(Question), NEW x, DOMAIN x.questions \subseteq DOMAIN question,
         NEW dto, IsDraft(dto, x)
  PROVE  AreRows(Assigned(dto), dto)
<1> DEFINE s == dto.questions
           new == {i \in DOMAIN s : s[i].id = 0}
           L == Len(question)
           items == Assigned(dto)
           n == Cardinality(new)
<1>1. /\ s \in Seq(DTOQuestions) /\ DOMAIN s = 1..Len(s) /\ Len(s) \in Nat
      /\ L \in Nat /\ DOMAIN question = 1..L
      /\ \A i \in DOMAIN s : s[i] \in DTOQuestions
  BY DEF IsDraft, AreItems
<1>2. IsFiniteSet(new) /\ new \in SUBSET Int /\ new \subseteq DOMAIN s
  BY <1>1, PlacesAreFinite
<1>3. \A i \in DOMAIN s : i \notin new => s[i].id \in DOMAIN question
  BY DEF IsDraft, AreItems
<1>4. \A i, j \in DOMAIN s : s[i].id = s[j].id => i = j \/ i \in new
  BY DEF IsDraft, AreItems
<1>5. /\ DOMAIN items = DOMAIN s
      /\ \A i \in DOMAIN s : i \notin new => items[i] = s[i]
      /\ \A i \in new : items[i] = [s[i] EXCEPT !.id = L + Place(new, i)]
  BY <1>2 DEF Assigned
<1> HIDE DEF items, s, L
<1>6. \A i \in DOMAIN s : i \in new <=> s[i].id = 0
  OBVIOUS
<1> HIDE DEF new
<1>7. \A i \in new : items[i].id = L + Place(new, i)
  BY <1>1, <1>2, <1>5 DEF DTOQuestions
<1>8. \A i \in DOMAIN s :
        /\ items[i].text = s[i].text /\ items[i].index = s[i].index
        /\ items[i].options = s[i].options /\ items[i].added = s[i].added
  <2> SUFFICES ASSUME NEW i \in DOMAIN s
               PROVE  /\ items[i].text = s[i].text /\ items[i].index = s[i].index
                      /\ items[i].options = s[i].options /\ items[i].added = s[i].added
    OBVIOUS
  <2>1. s[i] \in DTOQuestions
    BY <1>1
  <2>2. CASE i \in new
    BY <1>5, <2>1, <2>2 DEF DTOQuestions
  <2>3. CASE i \notin new
    BY <1>5, <2>3
  <2>4. QED
    BY <2>2, <2>3
<1>9. /\ n \in Nat
      /\ \A i \in new : Place(new, i) \in 1..n
      /\ \A i, j \in new : Place(new, i) = Place(new, j) => i = j
      /\ {Place(new, i) : i \in new} = 1..n
  BY <1>2, PlaceIsPlace
<1> HIDE DEF n
<1>10. \A i \in DOMAIN s : items[i].id > L <=> i \in new
  <2> SUFFICES ASSUME NEW i \in DOMAIN s
               PROVE  items[i].id > L <=> i \in new
    OBVIOUS
  <2>1. CASE i \in new
    BY <1>1, <1>7, <1>9, <2>1
  <2>2. CASE i \notin new
    BY <1>1, <1>3, <1>5, <2>2
  <2>3. QED
    BY <2>1, <2>2
<1>11. NewRows(items) = n
  <2>1. {i \in DOMAIN items : items[i].id > L} = new
    BY <1>2, <1>5, <1>10
  <2>2. QED
    BY <2>1 DEF NewRows, L, n
<1>12. \A i \in DOMAIN s :
         IF s[i].id # 0 THEN items[i].id = s[i].id /\ items[i].id \in DOMAIN question
         ELSE items[i].id \in L + 1..L + n
  <2> SUFFICES ASSUME NEW i \in DOMAIN s
               PROVE  IF s[i].id # 0 THEN items[i].id = s[i].id /\ items[i].id \in DOMAIN question
                      ELSE items[i].id \in L + 1..L + n
    OBVIOUS
  <2>1. CASE i \in new
    BY <1>1, <1>6, <1>7, <1>9, <2>1
  <2>2. CASE i \notin new
    BY <1>3, <1>5, <1>6, <2>2
  <2>3. QED
    BY <2>1, <2>2
<1>13. \A i, j \in DOMAIN s : items[i].id = items[j].id => i = j
  <2> SUFFICES ASSUME NEW i \in DOMAIN s, NEW j \in DOMAIN s, items[i].id = items[j].id
               PROVE  i = j
    OBVIOUS
  <2>1. i \in new <=> j \in new
    BY <1>10
  <2>2. CASE i \in new
    BY <1>1, <1>7, <1>9, <2>1, <2>2
  <2>3. CASE i \notin new
    BY <1>4, <1>5, <2>1, <2>3
  <2>4. QED
    BY <2>2, <2>3
<1>14. \A q \in L + 1..L + n : q \in {items[i].id : i \in DOMAIN s}
  <2> SUFFICES ASSUME NEW q \in L + 1..L + n
               PROVE  \E i \in DOMAIN s : items[i].id = q
    OBVIOUS
  <2>1. q - L \in 1..n /\ q = L + (q - L)
    BY <1>1, <1>9
  <2>2. PICK i \in new : Place(new, i) = q - L
    BY <1>9, <2>1
  <2>3. QED
    BY <1>2, <1>7, <2>1, <2>2
<1>15. QED
  BY <1>5, <1>8, <1>9, <1>11, <1>12, <1>13, <1>14 DEF AreRows, s, L, items

(* A row is named by one item, or by none.                                 *)
LEMMA ItemsOfRows ==
  ASSUME NEW items, NEW dto, AreRows(items, dto)
  PROVE  /\ \A i \in DOMAIN items : Item(items, items[i].id) = {items[i]}
         /\ \A q : q \notin {items[i].id : i \in DOMAIN items} => Item(items, q) = {}
         /\ \A q : q \in {items[i].id : i \in DOMAIN items} => Item(items, q) # {}
<1>1. \A i, j \in DOMAIN items : items[i].id = items[j].id => i = j
  BY DEF AreRows
<1>2. ASSUME NEW i \in DOMAIN items
      PROVE  Item(items, items[i].id) = {items[i]}
  <2>1. {j \in DOMAIN items : items[j].id = items[i].id} = {i}
    BY <1>1, <1>2
  <2>2. Item(items, items[i].id) = {items[j] : j \in {i}}
    BY <2>1 DEF Item
  <2>3. QED
    BY <2>2
<1>3. ASSUME NEW q, q \notin {items[i].id : i \in DOMAIN items}
      PROVE  Item(items, q) = {}
  <2>1. {j \in DOMAIN items : items[j].id = q} = {}
    BY <1>3
  <2>2. QED
    BY <2>1 DEF Item
<1>4. ASSUME NEW q, q \in {items[i].id : i \in DOMAIN items}
      PROVE  Item(items, q) # {}
  <2>1. PICK i \in DOMAIN items : items[i].id = q
    BY <1>4
  <2>2. QED
    BY <1>2, <2>1
<1>5. QED
  BY <1>2, <1>3, <1>4

(* The rows of the questions after submit.                                 *)
LEMMA StoredQuestionsAre ==
  ASSUME question \in Seq(Question), NEW x, NEW dto, IsDraft(dto, x),
         NEW items, AreRows(items, dto)
  PROVE  LET qs == StoredQuestions(items)
             ids == {items[i].id : i \in DOMAIN items}
         IN
         /\ qs \in Seq(Question)
         /\ DOMAIN qs = 1..Len(question) + NewRows(items)
         /\ Len(qs) = Len(question) + NewRows(items)
         /\ \A i \in DOMAIN items :
              LET q == items[i].id IN
              /\ q \in DOMAIN qs
              /\ qs[q].text = dto.questions[i].text /\ qs[q].index = dto.questions[i].index
              /\ qs[q].enabled <=> (q \in DOMAIN question => question[q].enabled)
         /\ \A q \in DOMAIN qs : qs[q].enabled => q \in ids
         /\ \A p, q \in DOMAIN qs :
              qs[p].enabled /\ qs[q].enabled /\ qs[p].index = qs[q].index => p = q
<1> DEFINE L == Len(question)
           n == NewRows(items)
           ids == {items[i].id : i \in DOMAIN items}
           qs == StoredQuestions(items)
           kept(q) == [question[q] EXCEPT !.enabled = FALSE]
           put(i, q) == [text |-> items[i].text, index |-> items[i].index,
                         enabled |-> IF q \in DOMAIN question THEN question[q].enabled ELSE TRUE]
<1>1. /\ L \in Nat /\ DOMAIN question = 1..L /\ n \in Nat
      /\ \A q \in 1..L : question[q] \in Question
  BY DEF AreRows
<1>2. \A q \in 1..L + n : q \in 1..L \/ q \in L + 1..L + n
  BY <1>1
<1>3. \A q \in 1..L + n : q \in ids \/ q \in DOMAIN question
  BY <1>1, <1>2 DEF AreRows
<1>4. \A i \in DOMAIN items : items[i].id \in 1..L + n
  <2> SUFFICES ASSUME NEW i \in DOMAIN items
               PROVE  items[i].id \in 1..L + n
    OBVIOUS
  <2>1. items[i].id \in DOMAIN question \/ items[i].id \in L + 1..L + n
    BY DEF AreRows
  <2>2. QED
    BY <1>1, <2>1
<1>5. \A i \in DOMAIN items :
        /\ items[i].text = dto.questions[i].text /\ items[i].index = dto.questions[i].index
        /\ items[i].text \in Texts /\ items[i].index \in Nat
        /\ dto.questions[i].index = i - 1
  <2> SUFFICES ASSUME NEW i \in DOMAIN items
               PROVE  /\ items[i].text = dto.questions[i].text
                      /\ items[i].index = dto.questions[i].index
                      /\ items[i].text \in Texts /\ items[i].index \in Nat
                      /\ dto.questions[i].index = i - 1
    OBVIOUS
  <2>1. i \in DOMAIN dto.questions
    BY DEF AreRows
  <2>2. dto.questions[i] \in DTOQuestions
    BY <2>1 DEF IsDraft, AreItems
  <2>3. dto.questions[i].text \in Texts /\ dto.questions[i].index \in Nat
    BY <2>2 DEF DTOQuestions
  <2>4. items[i].text = dto.questions[i].text /\ items[i].index = dto.questions[i].index
    BY DEF AreRows
  <2>5. dto.questions[i].index = i - 1
    BY <2>1 DEF IsDraft
  <2>6. QED
    BY <2>3, <2>4, <2>5
<1>6. /\ DOMAIN qs = 1..L + n
      /\ \A q \in 1..L + n : q \notin ids => qs[q] = kept(q)
      /\ \A i \in DOMAIN items : qs[items[i].id] = put(i, items[i].id)
  <2> DEFINE entry(q) ==
        CASE Item(items, q) = {} -> [question[q] EXCEPT !.enabled = FALSE]
          [] Item(items, q) # {} ->
               LET item == CHOOSE i \in Item(items, q) : TRUE IN
               [text |-> item.text, index |-> item.index,
                enabled |-> IF q \in DOMAIN question THEN question[q].enabled ELSE TRUE]
  <2>1. qs = [q \in 1..L + n |-> entry(q)]
    BY DEF StoredQuestions, NewRows
  <2>2. \A q : q \notin ids => entry(q) = kept(q)
    BY ItemsOfRows
  <2>3. ASSUME NEW i \in DOMAIN items
        PROVE  entry(items[i].id) = put(i, items[i].id)
    <3>1. Item(items, items[i].id) = {items[i]}
      BY <2>3, ItemsOfRows
    <3>2. (CHOOSE j \in {items[i]} : TRUE) = items[i]
      OBVIOUS
    <3>3. Item(items, items[i].id) # {}
      BY <3>1
    <3>4. QED
      BY <3>1, <3>2, <3>3
  <2> HIDE DEF entry, kept, put, qs
  <2>4. QED
    BY <1>4, <2>1, <2>2, <2>3
<1> HIDE DEF qs, ids
<1>7. \A q \in 1..L + n : q \notin ids => qs[q] \in Question /\ ~qs[q].enabled
  <2> SUFFICES ASSUME NEW q \in 1..L + n, q \notin ids
               PROVE  qs[q] \in Question /\ ~qs[q].enabled
    OBVIOUS
  <2>1. question[q] \in Question
    BY <1>1, <1>3
  <2>2. QED
    BY <1>6, <2>1 DEF Question
<1>8. \A i \in DOMAIN items :
        LET q == items[i].id IN
        /\ qs[q] \in Question
        /\ qs[q].text = dto.questions[i].text /\ qs[q].index = dto.questions[i].index
        /\ qs[q].enabled <=> (q \in DOMAIN question => question[q].enabled)
  <2> SUFFICES ASSUME NEW i \in DOMAIN items, NEW q, q = items[i].id
               PROVE  /\ qs[q] \in Question
                      /\ qs[q].text = dto.questions[i].text /\ qs[q].index = dto.questions[i].index
                      /\ qs[q].enabled <=> (q \in DOMAIN question => question[q].enabled)
    OBVIOUS
  <2>1. qs[q] = put(i, q)
    BY <1>6
  <2>2. q \in DOMAIN question => question[q].enabled \in BOOLEAN
    BY <1>1 DEF Question
  <2>3. /\ qs[q].text = items[i].text /\ qs[q].index = items[i].index
        /\ qs[q].enabled = IF q \in DOMAIN question THEN question[q].enabled ELSE TRUE
        /\ qs[q] = [text |-> qs[q].text, index |-> qs[q].index, enabled |-> qs[q].enabled]
    BY <2>1
  <2> HIDE DEF put
  <2>4. qs[q].enabled \in BOOLEAN
    BY <2>2, <2>3
  <2>5. qs[q] \in Question
    BY <1>5, <2>3, <2>4 DEF Question
  <2>6. qs[q].enabled <=> (q \in DOMAIN question => question[q].enabled)
    BY <2>2, <2>3
  <2>7. QED
    BY <1>5, <2>3, <2>5, <2>6
<1>9. \A q \in 1..L + n : qs[q] \in Question
  BY <1>7, <1>8 DEF ids
<1>10. qs \in Seq(Question) /\ Len(qs) = L + n
  <2>1. qs = [q \in 1..L + n |-> qs[q]]
    BY <1>6 DEF qs, StoredQuestions, NewRows
  <2>2. L + n \in Nat
    BY <1>1
  <2>3. QED
    BY <1>9, <2>1, <2>2
<1>11. \A p, q \in DOMAIN qs :
         qs[p].enabled /\ qs[q].enabled /\ qs[p].index = qs[q].index => p = q
  <2> SUFFICES ASSUME NEW p \in 1..L + n, NEW q \in 1..L + n,
                      qs[p].enabled, qs[q].enabled, qs[p].index = qs[q].index
               PROVE  p = q
    BY <1>6
  <2>1. p \in ids /\ q \in ids
    BY <1>7
  <2>2. PICK i \in DOMAIN items : p = items[i].id
    BY <2>1 DEF ids
  <2>3. PICK j \in DOMAIN items : q = items[j].id
    BY <2>1 DEF ids
  <2>4. qs[p].index = i - 1 /\ qs[q].index = j - 1
    BY <1>5, <1>8, <2>2, <2>3
  <2>5. i \in Int /\ j \in Int
    <3>1. DOMAIN items = 1..Len(dto.questions)
      BY DEF AreRows, IsDraft, AreItems
    <3>2. QED
      BY <3>1
  <2>6. i = j
    <3>1. i - 1 = j - 1
      BY <2>4, Zenon
    <3>2. QED
      BY <2>5, <3>1
  <2>7. QED
    BY <2>2, <2>3, <2>6
<1>12. QED
  BY <1>4, <1>6, <1>7, <1>8, <1>10, <1>11 DEF qs, ids

(* The new options follow the places of the items that come with one.      *)
AreNewOptions(new, items, added) ==
  /\ \A i \in added : /\ Place(added, i) \in 1..Cardinality(added)
                      /\ new[Place(added, i)] = [question |-> items[i].id, enabled |-> TRUE]
  /\ \A k \in 1..Cardinality(added) :
       \E i \in added : Place(added, i) = k /\ new[k] = [question |-> items[i].id, enabled |-> TRUE]

(* The options that are added, each to the row of its item.                *)
LEMMA NewOptionsAre ==
  ASSUME question \in Seq(Question), NEW x, NEW dto, IsDraft(dto, x),
         NEW items, AreRows(items, dto)
  PROVE  LET added == {i \in DOMAIN items : items[i].added}
             new == NewOptions(items)
         IN
         /\ Cardinality(added) \in Nat
         /\ DOMAIN new = 1..Cardinality(added)
         /\ AreNewOptions(new, items, added)
         /\ new \in Seq([question : 1..Len(question) + NewRows(items), enabled : BOOLEAN])
         /\ Len(new) = Cardinality(added)
<1> DEFINE added == {i \in DOMAIN items : items[i].added}
           new == NewOptions(items)
           m == Cardinality(added)
           nth(k) == CHOOSE i \in added : Place(added, i) = k
           entry(k) == [question |-> items[nth(k)].id, enabled |-> TRUE]
           Row == [question : 1..Len(question) + NewRows(items), enabled : BOOLEAN]
<1>1. new = [k \in 1..m |-> entry(k)]
  BY DEF NewOptions
<1>2. IsFiniteSet(added) /\ added \in SUBSET Int
  <2>1. dto.questions \in Seq(DTOQuestions) /\ added \in SUBSET DOMAIN dto.questions
    BY DEF IsDraft, AreItems, AreRows
  <2>2. QED
    BY <2>1, PlacesAreFinite
<1>3. added \subseteq DOMAIN items
  OBVIOUS
<1> HIDE DEF added, new
<1>4. /\ m \in Nat
      /\ \A i \in added : Place(added, i) \in 1..m
      /\ \A i, j \in added : Place(added, i) = Place(added, j) => i = j
      /\ {Place(added, i) : i \in added} = 1..m
  BY <1>2, PlaceIsPlace
<1> HIDE DEF m
<1>5. \A k \in 1..m : nth(k) \in added /\ Place(added, nth(k)) = k
  BY <1>4
<1>6. \A i \in added : nth(Place(added, i)) = i
  BY <1>4, <1>5
<1> HIDE DEF nth
<1>7. \A k \in 1..m : new[k] = entry(k) /\ entry(k) \in Row
  <2> SUFFICES ASSUME NEW k \in 1..m
               PROVE  new[k] = entry(k) /\ items[nth(k)].id \in 1..Len(question) + NewRows(items)
    OBVIOUS
  <2>1. nth(k) \in DOMAIN items
    BY <1>3, <1>5
  <2>2. \/ items[nth(k)].id \in DOMAIN question
        \/ items[nth(k)].id \in Len(question) + 1..Len(question) + NewRows(items)
    BY <2>1 DEF AreRows
  <2>3. Len(question) \in Nat /\ DOMAIN question = 1..Len(question) /\ NewRows(items) \in Nat
    BY DEF AreRows
  <2>4. items[nth(k)].id \in 1..Len(question) + NewRows(items)
    BY <2>2, <2>3
  <2>5. new[k] = entry(k)
    BY <1>1
  <2>6. QED
    BY <2>4, <2>5
<1>8. DOMAIN new = 1..m
  BY <1>1
<1>9. \A i \in added : new[Place(added, i)] = [question |-> items[i].id, enabled |-> TRUE]
  BY <1>4, <1>6, <1>7
<1>10. \A k \in 1..m :
         \E i \in added :
           Place(added, i) = k /\ new[k] = [question |-> items[i].id, enabled |-> TRUE]
  BY <1>5, <1>7
<1>11. new \in Seq(Row) /\ Len(new) = m
  <2> HIDE DEF entry, Row
  <2>1. QED
    BY <1>1, <1>4, <1>7
<1>12. QED
  BY <1>4, <1>8, <1>9, <1>10, <1>11 DEF added, new, m, AreNewOptions

(* The rows of the options after submit: those there were belong to the    *)
(* question they did, the new ones follow.                                 *)
LEMMA StoredOptionsAre ==
  ASSUME question \in Seq(Question), option \in Seq(QuestionOption(question)),
         NEW x, NEW dto, IsDraft(dto, x), NEW items, AreRows(items, dto)
  PROVE  LET os == StoredOptions(items)
             new == NewOptions(items)
         IN
         /\ os \in Seq([question : 1..Len(question) + NewRows(items), enabled : BOOLEAN])
         /\ Len(os) = Len(option) + Len(new) /\ DOMAIN os = 1..Len(option) + Len(new)
         /\ \A o \in DOMAIN option :
              /\ os[o].question = option[o].question
              /\ \A i \in DOMAIN items : items[i].id = option[o].question =>
                   (os[o].enabled <=> o \in items[i].options)
         /\ \A k \in DOMAIN new : os[Len(option) + k] = new[k]
<1> DEFINE os == StoredOptions(items)
           new == NewOptions(items)
           M == Len(option)
           Row == [question : 1..Len(question) + NewRows(items), enabled : BOOLEAN]
           entry(o) ==
             LET item == Item(items, option[o].question) IN
             IF item = {} THEN option[o]
             ELSE [option[o] EXCEPT !.enabled = \E i \in item : o \in i.options]
           old == [o \in DOMAIN option |-> entry(o)]
<1>1. /\ M \in Nat /\ DOMAIN option = 1..M
      /\ Len(question) \in Nat /\ DOMAIN question = 1..Len(question) /\ NewRows(items) \in Nat
      /\ \A o \in 1..M : option[o] \in QuestionOption(question)
  BY DEF AreRows
<1>2. os = old \o new
  BY DEF StoredOptions
<1>3. new \in Seq(Row) /\ Len(new) \in Nat /\ DOMAIN new = 1..Len(new)
  BY NewOptionsAre
<1>4. \A o \in 1..M : entry(o) \in Row /\ entry(o).question = option[o].question
  <2> SUFFICES ASSUME NEW o \in 1..M
               PROVE  entry(o) \in Row /\ entry(o).question = option[o].question
    OBVIOUS
  <2>1. option[o].question \in 1..Len(question) + NewRows(items) /\ option[o] \in Row
    BY <1>1 DEF QuestionOption
  <2>2. entry(o) = option[o] \/
          entry(o) = [option[o] EXCEPT !.enabled =
                        \E i \in Item(items, option[o].question) : o \in i.options]
    OBVIOUS
  <2> HIDE DEF entry
  <2>3. QED
    BY <2>1, <2>2
<1>5. ASSUME NEW o \in 1..M, NEW i \in DOMAIN items, items[i].id = option[o].question
      PROVE  entry(o).enabled <=> o \in items[i].options
  <2>1. Item(items, option[o].question) = {items[i]}
    BY <1>5, ItemsOfRows
  <2>2. entry(o) = [option[o] EXCEPT !.enabled = \E j \in {items[i]} : o \in j.options]
    BY <2>1
  <2>3. option[o] \in [question : DOMAIN question, enabled : BOOLEAN]
    BY <1>1, <1>5 DEF QuestionOption
  <2> HIDE DEF entry
  <2>4. QED
    BY <2>2, <2>3
<1> HIDE DEF entry, new, os
<1>6. old \in Seq(Row) /\ Len(old) = M
  <2>1. old = [o \in 1..M |-> entry(o)]
    BY <1>1
  <2> HIDE DEF old, Row
  <2>2. QED
    BY <1>1, <1>4, <2>1
<1>7. \A o \in 1..M : old[o] = entry(o)
  BY <1>1
<1> HIDE DEF old, Row
<1>8. os \in Seq(Row) /\ Len(os) = M + Len(new) /\ DOMAIN os = 1..M + Len(new)
  BY <1>2, <1>3, <1>6
<1>9. \A o \in 1..M : os[o] = entry(o)
  BY <1>1, <1>2, <1>3, <1>6, <1>7
<1>10. ASSUME NEW k \in 1..Len(new)
       PROVE  os[M + k] = new[k]
  <2>1. M + k \in 1..Len(old) + Len(new) /\ ~(M + k <= Len(old)) /\ M + k - Len(old) = k
    BY <1>1, <1>3, <1>6
  <2>2. os[M + k] = new[M + k - Len(old)]
    BY <1>2, <1>3, <1>6, <2>1, ConcatProperties
  <2>3. QED
    BY <2>1, <2>2
<1>11. QED
  BY <1>1, <1>3, <1>4, <1>5, <1>8, <1>9, <1>10 DEF os, new, Row

-----------------------------------------------------------------------------
(* Types of the team                                                       *)

(* The invariant implies the types TLC checks.                             *)
LEMMA TypesAreTeamTypes == TeamTypeInv => TypeOK
<1> SUFFICES ASSUME TeamTypeInv
             PROVE  TypeOK
  OBVIOUS
<1>1. IsContent(NoForm)
  BY DEF IsContent, NoForm
<1>2. ASSUME NEW k \in Clients
      PROVE  IsContent(form[k])
  BY <1>1 DEF TeamTypeInv, FormsAreShown, IsShown
<1>3. ASSUME NEW k \in Clients, request[k] # NoRequest
      PROVE  IsRequest(request[k])
  BY <1>3 DEF TeamTypeInv, RequestsAreDrafts, IsShown, IsDraft, IsRequest
<1>4. QED
  BY <1>2, <1>3 DEF TypeOK, TeamTypeInv, TablesTyped, RowsTyped

(* What TeamController.get answers.                                        *)
LEMMA CurrentShown ==
  ASSUME TablesTyped
  PROVE  /\ IsContent(Current) /\ IsContentOf(Current, roster, question, option)
         /\ Found => IsShown(Current)
<1>1. /\ roster \in SUBSET Users /\ roster # {}
      /\ question \in Seq(Question) /\ Len(question) <= MaxQuestions
      /\ option \in Seq(QuestionOption(question)) /\ Len(option) <= MaxOptions
  BY Bounds DEF TablesTyped, Ids
<1>2. IsContent(Content(roster, question, option))
      /\ IsContentOf(Content(roster, question, option), roster, question, option)
  BY <1>1, ContentTyped
<1>3. IsContent(Current) /\ IsContentOf(Current, roster, question, option)
  BY <1>2 DEF Current
<1>4. /\ Current.users = roster
      /\ DOMAIN Current.questions = {q \in DOMAIN question : question[q].enabled}
      /\ \A q \in DOMAIN Current.questions : Current.questions[q].index = question[q].index
  <2>1. /\ Current.users = roster
        /\ DOMAIN Current.questions = {q \in DOMAIN question : question[q].enabled}
    BY <1>3, Zenon DEF IsContentOf
  <2>2. ASSUME NEW q \in DOMAIN Current.questions
        PROVE  Current.questions[q].index = question[q].index
    <3>1. q \in DOMAIN question /\ question[q].enabled
      BY <2>1, <2>2
    <3>2. Current.questions[q] =
            [text |-> question[q].text, index |-> question[q].index,
             options |-> {o \in DOMAIN option : option[o].question = q /\ option[o].enabled}]
      BY <1>3, <3>1, Zenon DEF IsContentOf
    <3>3. QED
      BY <3>2
  <2>3. QED
    BY <2>1, <2>2
<1>5. ASSUME Found
      PROVE  IsShown(Current)
  <2>1. DOMAIN Current.questions # {}
    <3>1. Current.questions = [q \in DOMAIN Current.questions |-> Current.questions[q]]
      BY <1>3 DEF IsContent
    <3>2. <<>> = [q \in {} |-> Current.questions[q]]
      OBVIOUS
    <3>3. QED
      BY <1>5, <3>1, <3>2 DEF Found
  <2>2. \A p, q \in DOMAIN Current.questions :
          Current.questions[p].index = Current.questions[q].index => p = q
    BY <1>4 DEF TablesTyped
  <2>3. QED
    BY <1>1, <1>3, <1>4, <2>1, <2>2 DEF IsShown
<1>6. QED
  BY <1>3, <1>5

(* Seconds pass and the status changes without the rows.                   *)
LEMMA RowsStay ==
  ASSUME TablesTyped, RowsTyped, UNCHANGED <<snapshots, standups, call, versions>>,
         now' \in Nat, now <= now'
  PROVE  RowsTyped'
<1>1. now \in Nat /\ \A m \in 0..now : m \in 0..now'
  BY Bounds DEF TablesTyped
<1>2. \A i \in DOMAIN snapshots : TeamSnapshot(snapshots[i])'
  BY <1>1 DEF RowsTyped, TeamSnapshot
<1>3. Standup' = Standup
  BY DEF Standup
<1>4. (call = NoCall \/ IsCall(call))'
  BY DEF RowsTyped, IsCall
<1>5. QED
  BY <1>2, <1>3, <1>4 DEF RowsTyped

(* createStandup goes on, and adds no row.                                 *)
LEMMA CallGoesOn ==
  ASSUME RowsTyped, UNCHANGED <<now, snapshots, standups, versions>>,
         call' = NoCall \/ IsCall(call')
  PROVE  RowsTyped'
<1>1. Standup' = Standup
  BY DEF Standup
<1>2. \A i \in DOMAIN snapshots : TeamSnapshot(snapshots[i])'
  BY DEF RowsTyped, TeamSnapshot
<1>3. (call = NoCall \/ IsCall(call))'
  BY DEF IsCall
<1>4. QED
  BY <1>1, <1>2, <1>3 DEF RowsTyped

(* Rows are added at the end; a call under way goes on with those it has.  *)
LEMMA RowsGrow ==
  ASSUME TablesTyped, RowsTyped, UNCHANGED <<now, standups>>,
         Kept(versions, versions'), Kept(snapshots, snapshots'),
         \A v \in DOMAIN versions' : v \in DOMAIN versions \/ IsContent(versions'[v]),
         \A i \in DOMAIN snapshots' :
           i \in DOMAIN snapshots
             \/ (IsContent(snapshots'[i].content) /\ snapshots'[i].at = now),
         call' = call \/ (IsCall(call)' /\ call' # NoCall)
  PROVE  RowsTyped'
<1>1. /\ DOMAIN versions \subseteq DOMAIN versions'
      /\ \A v \in DOMAIN versions : versions'[v] = versions[v]
      /\ DOMAIN snapshots \subseteq DOMAIN snapshots'
      /\ \A i \in DOMAIN snapshots : snapshots'[i] = snapshots[i]
  BY DEF Kept
<1>2. \A v \in DOMAIN versions' : IsContent(versions'[v])
  BY <1>1 DEF RowsTyped
<1>3. \A i \in DOMAIN snapshots' :
        IsContent(snapshots'[i].content) /\ snapshots'[i].at \in 0..now
  <2>1. now \in 0..now
    BY Bounds DEF TablesTyped
  <2>2. QED
    BY <1>1, <2>1 DEF RowsTyped, TeamSnapshot
<1>4. standups \in Seq(Standup')
  <2>1. Standup \subseteq Standup'
    BY <1>1 DEF Standup
  <2>2. QED
    BY <2>1, Widened DEF RowsTyped
<1>5. (call = NoCall \/ IsCall(call))'
  BY <1>1 DEF RowsTyped, IsCall
<1>6. QED
  BY <1>2, <1>3, <1>4, <1>5 DEF RowsTyped, TeamSnapshot

(* A team as it is created, before anyone has seen it.                     *)
LEMMA InitTeamTypeInv == Init => TeamTypeInv
<1> SUFFICES ASSUME Init
             PROVE  TeamTypeInv
  OBVIOUS
<1>1. PICK t \in Texts : question = <<[text |-> t, index |-> 0, enabled |-> TRUE]>>
  BY DEF Init
<1>2. [text |-> t, index |-> 0, enabled |-> TRUE] \in Question
  BY DEF Question
<1>3. /\ question \in Seq(Question) /\ Len(question) = 1 /\ DOMAIN question = {1}
      /\ option \in Seq(QuestionOption(question)) /\ Len(option) = 0
  <2>1. option = <<>>
    BY DEF Init
  <2>2. question \in Seq(Question)
    BY <1>1, <1>2
  <2>3. QED
    BY <1>1, <2>1, <2>2
<1>4. TablesTyped
  BY <1>3, Bounds DEF Init, TablesTyped, Statuses, Activated, Ids
<1>5. RowsTyped
  <2>1. IsContent(Current)
    BY <1>4, CurrentShown
  <2>2. /\ snapshots = <<>> /\ standups = <<>> /\ call = NoCall
        /\ DOMAIN versions = {1} /\ versions[1] = Current
    BY DEF Init
  <2>3. standups \in Seq(Standup)
    BY <2>2
  <2>4. QED
    BY <2>1, <2>2, <2>3 DEF RowsTyped
<1>6. FormsAreShown /\ RequestsAreDrafts
  <2>1. form \in [Clients -> {NoForm}] /\ request \in [Clients -> {NoRequest}]
    BY DEF Init
  <2>2. QED
    BY <2>1 DEF FormsAreShown, RequestsAreDrafts
<1>7. QED
  BY <1>4, <1>5, <1>6, InitIInv DEF TeamTypeInv

(* The tables stay when their columns do.                                  *)
LEMMA TablesStay ==
  ASSUME TablesTyped, UNCHANGED <<roster, question, option>>,
         now' \in 0..MaxSeconds, status' \in Statuses
  PROVE  TablesTyped'
<1>1. (option \in Seq(QuestionOption(question)))'
  BY DEF TablesTyped, QuestionOption
<1>2. QED
  BY <1>1 DEF TablesTyped

(* No browser has anything new.                                            *)
LEMMA FormsStay ==
  ASSUME FormsAreShown, RequestsAreDrafts, UNCHANGED <<form, request>>,
         DOMAIN question \subseteq DOMAIN question'
  PROVE  FormsAreShown' /\ RequestsAreDrafts'
<1>1. FormsAreShown'
  BY DEF FormsAreShown
<1>2. RequestsAreDrafts'
  BY DEF RequestsAreDrafts
<1>3. QED
  BY <1>1, <1>2

(* A request ends.                                                         *)
LEMMA RequestEnds ==
  ASSUME FormsAreShown, RequestsAreDrafts, NEW c \in Clients,
         request' = [request EXCEPT ![c] = NoRequest], form' = form,
         DOMAIN question \subseteq DOMAIN question'
  PROVE  FormsAreShown' /\ RequestsAreDrafts'
<1>1. FormsAreShown'
  BY DEF FormsAreShown
<1>2. PICK S : request \in [Clients -> S]
  BY DEF RequestsAreDrafts
<1>3. request' \in [Clients -> S \union {NoRequest}]
  BY <1>2
<1>4. \A k \in Clients : request'[k] # NoRequest => request'[k] = request[k]
  BY <1>2
<1>5. RequestsAreDrafts'
  BY <1>3, <1>4 DEF RequestsAreDrafts
<1>6. QED
  BY <1>1, <1>5

(* TeamController.get answers with questions there are.                    *)
LEMMA LoadTyped == ASSUME TeamTypeInv, NEW c \in Clients, Load(c) PROVE TeamTypeInv'
<1>1. /\ Found /\ form' = [form EXCEPT ![c] = Current] /\ request' = request
      /\ UNCHANGED <<now, status, roster, question, option>>
      /\ UNCHANGED <<snapshots, standups, call, versions>>
  BY DEF Load, tables
<1>2. TablesTyped' /\ RowsTyped'
  BY <1>1, TablesStay, RowsStay DEF TeamTypeInv, TablesTyped
<1>3. IsShown(Current) /\ DOMAIN Current.questions \subseteq DOMAIN question
  BY <1>1, CurrentShown DEF TeamTypeInv, IsContentOf
<1>4. FormsAreShown'
  <2>1. PICK S : form \in [Clients -> S]
    BY DEF TeamTypeInv, FormsAreShown
  <2>2. form' \in [Clients -> S \union {Current}]
    BY <1>1, <2>1
  <2>3. \A k \in Clients : form'[k] = form[k] \/ form'[k] = Current
    BY <1>1, <2>1
  <2>4. QED
    BY <1>1, <1>3, <2>2, <2>3 DEF TeamTypeInv, FormsAreShown
<1>5. RequestsAreDrafts'
  BY <1>1 DEF TeamTypeInv, RequestsAreDrafts
<1>6. IInv'
  BY <1>1, QuietStep DEF TeamTypeInv
<1>7. QED
  BY <1>2, <1>4, <1>5, <1>6 DEF TeamTypeInv

(* What is sent is a draft of the form, which is gone.                     *)
LEMMA SendTyped ==
  ASSUME TeamTypeInv, NEW c \in Clients, form[c] # NoForm, NEW dto \in Drafts(form[c]), Send(c, dto)
  PROVE  TeamTypeInv'
<1> DEFINE sent == [stage |-> "sent", seen |-> form[c], dto |-> dto]
<1>1. /\ form' = [form EXCEPT ![c] = NoForm] /\ request' = [request EXCEPT ![c] = sent]
      /\ UNCHANGED <<now, status, roster, question, option>>
      /\ UNCHANGED <<snapshots, standups, call, versions>>
  BY DEF Send, updateTeam, tables
<1>2. TablesTyped' /\ RowsTyped'
  BY <1>1, TablesStay, RowsStay DEF TeamTypeInv, TablesTyped
<1>3. FormsAreShown'
  <2>1. PICK S : form \in [Clients -> S]
    BY DEF TeamTypeInv, FormsAreShown
  <2>2. form' \in [Clients -> S \union {NoForm}]
    BY <1>1, <2>1
  <2>3. \A k \in Clients : form'[k] = form[k] \/ form'[k] = NoForm
    BY <1>1, <2>1
  <2>4. QED
    BY <1>1, <2>2, <2>3 DEF TeamTypeInv, FormsAreShown
<1>4. /\ sent.stage = "sent" /\ IsShown(sent.seen)
      /\ DOMAIN sent.seen.questions \subseteq DOMAIN question
      /\ IsDraft(sent.dto, sent.seen)
  <2>1. IsShown(form[c]) /\ DOMAIN form[c].questions \subseteq DOMAIN question
    BY DEF TeamTypeInv, FormsAreShown
  <2>2. QED
    BY <2>1, DraftsAre
<1> HIDE DEF sent
<1>5. RequestsAreDrafts'
  <2>1. PICK S : request \in [Clients -> S]
    BY DEF TeamTypeInv, RequestsAreDrafts
  <2>2. request' \in [Clients -> S \union {sent}]
    BY <1>1, <2>1
  <2>3. \A k \in Clients : request'[k] = request[k] \/ request'[k] = sent
    BY <1>1, <2>1
  <2>4. QED
    BY <1>1, <1>4, <2>2, <2>3 DEF TeamTypeInv, RequestsAreDrafts
<1>6. IInv'
  BY <1>1, QuietStep DEF TeamTypeInv
<1>7. QED
  BY <1>2, <1>3, <1>5, <1>6 DEF TeamTypeInv

(* TeamController.edit goes on with the request, or refuses it.            *)
LEMMA CheckTeamTyped == ASSUME TeamTypeInv, NEW c \in Clients, CheckTeam(c) PROVE TeamTypeInv'
<1> DEFINE checked == [request[c] EXCEPT !.stage = "checked"]
<1>1. /\ request[c].stage = "sent" /\ form' = form
      /\ request' = [request EXCEPT ![c] = checked] \/ request' = [request EXCEPT ![c] = NoRequest]
      /\ UNCHANGED <<now, status, roster, question, option>>
      /\ UNCHANGED <<snapshots, standups, call, versions>>
  BY DEF CheckTeam, At, tables
<1>2. TablesTyped' /\ RowsTyped'
  BY <1>1, TablesStay, RowsStay DEF TeamTypeInv, TablesTyped
<1>3. FormsAreShown' /\ RequestsAreDrafts'
  <2>1. CASE request' = [request EXCEPT ![c] = NoRequest]
    BY <1>1, <2>1, RequestEnds DEF TeamTypeInv
  <2>2. CASE request' = [request EXCEPT ![c] = checked]
    <3>1. request[c] # NoRequest
      BY <1>1 DEF NoRequest
    <3>2. /\ IsShown(request[c].seen)
          /\ DOMAIN request[c].seen.questions \subseteq DOMAIN question
          /\ IsDraft(request[c].dto, request[c].seen)
      BY <3>1 DEF TeamTypeInv, RequestsAreDrafts
    <3>3. checked.seen = request[c].seen /\ checked.dto = request[c].dto
      OBVIOUS
    <3>4. checked.stage \in {"sent", "checked"}
      BY <3>1, <1>1 DEF TeamTypeInv, RequestsAreDrafts
    <3> HIDE DEF checked
    <3>5. PICK S : request \in [Clients -> S]
      BY DEF TeamTypeInv, RequestsAreDrafts
    <3>6. request' \in [Clients -> S \union {checked}]
      BY <2>2, <3>5
    <3>7. \A k \in Clients : request'[k] = request[k] \/ request'[k] = checked
      BY <2>2, <3>5
    <3>8. RequestsAreDrafts'
      BY <1>1, <3>2, <3>3, <3>4, <3>6, <3>7 DEF TeamTypeInv, RequestsAreDrafts
    <3>9. FormsAreShown'
      BY <1>1 DEF TeamTypeInv, FormsAreShown
    <3>10. QED
      BY <3>8, <3>9
  <2>3. QED
    BY <1>1, <2>1, <2>2
<1>4. IInv'
  BY <1>1, QuietStep DEF TeamTypeInv
<1>5. QED
  BY <1>2, <1>3, <1>4 DEF TeamTypeInv

(* The rows that submit stores.                                            *)
LEMMA SubmitStores ==
  ASSUME TeamTypeInv, NEW c \in Clients, Submit(c)
  PROVE  LET dto == request[c].dto
             items == Assigned(dto)
         IN
         /\ request[c] # NoRequest
         /\ IsShown(request[c].seen) /\ IsDraft(dto, request[c].seen)
         /\ AreRows(items, dto)
         /\ roster' = dto.users /\ roster' \in (SUBSET Users) \ {{}}
         /\ question' = StoredQuestions(items) /\ option' = StoredOptions(items)
         /\ question' \in Seq(Question) /\ option' \in Seq(QuestionOption(question'))
         /\ Len(question') \in Ids /\ Len(option') <= MaxOptions
         /\ DOMAIN question \subseteq DOMAIN question'
<1> DEFINE dto == request[c].dto
           items == Assigned(dto)
<1>1. request[c] # NoRequest
  BY DEF Submit, At, NoRequest
<1>2. /\ IsShown(request[c].seen) /\ IsDraft(dto, request[c].seen)
      /\ DOMAIN request[c].seen.questions \subseteq DOMAIN question
  BY <1>1 DEF TeamTypeInv, RequestsAreDrafts
<1>3. /\ question \in Seq(Question) /\ option \in Seq(QuestionOption(question))
      /\ Len(question) \in 1..MaxQuestions /\ DOMAIN question = 1..Len(question)
  BY DEF TeamTypeInv, TablesTyped, Ids
<1> HIDE DEF dto
<1>4. AreRows(items, dto)
  BY <1>2, <1>3, AssignedAre
<1> HIDE DEF items
<1>5. /\ roster' = dto.users
      /\ question' = StoredQuestions(items) /\ option' = StoredOptions(items)
      /\ Len(StoredQuestions(items)) <= MaxQuestions /\ Len(StoredOptions(items)) <= MaxOptions
  BY DEF Submit, dto, items
<1>6. /\ StoredQuestions(items) \in Seq(Question)
      /\ DOMAIN StoredQuestions(items) = 1..Len(question) + NewRows(items)
      /\ Len(StoredQuestions(items)) = Len(question) + NewRows(items)
  BY <1>2, <1>3, <1>4, StoredQuestionsAre
<1>7. StoredOptions(items)
        \in Seq([question : 1..Len(question) + NewRows(items), enabled : BOOLEAN])
  BY <1>2, <1>3, <1>4, StoredOptionsAre
<1>8. NewRows(items) \in Nat
  BY <1>4 DEF AreRows
<1>9. Len(question') \in Ids /\ DOMAIN question \subseteq DOMAIN question'
  BY <1>3, <1>5, <1>6, <1>8, Bounds DEF Ids
<1>10. option' \in Seq(QuestionOption(question'))
  BY <1>5, <1>6, <1>7 DEF QuestionOption
<1>11. roster' \in (SUBSET Users) \ {{}}
  BY <1>2, <1>5 DEF IsDraft
<1>12. QED
  BY <1>1, <1>2, <1>4, <1>5, <1>6, <1>9, <1>10, <1>11 DEF dto, items

(* submit leaves the team typed, its questions in different places.        *)
LEMMA SubmitTyped == ASSUME TeamTypeInv, NEW c \in Clients, Submit(c) PROVE TeamTypeInv'
<1> DEFINE dto == request[c].dto
           items == Assigned(dto)
<1>1. /\ request' = [request EXCEPT ![c] = NoRequest]
      /\ UNCHANGED <<now, standups>> /\ UNCHANGED <<status, form, call>>
      /\ versions' = Append(versions, Current')
  BY DEF Submit, Current
<1>2. /\ IsDraft(dto, request[c].seen) /\ AreRows(items, dto)
      /\ question' = StoredQuestions(items)
  BY SubmitStores
<1>3. /\ roster' \in (SUBSET Users) \ {{}}
      /\ question' \in Seq(Question) /\ option' \in Seq(QuestionOption(question'))
      /\ Len(question') \in Ids /\ Len(option') <= MaxOptions
      /\ DOMAIN question \subseteq DOMAIN question'
  BY SubmitStores
<1> HIDE DEF dto, items
<1>4. \A p, q \in DOMAIN question' :
        question'[p].enabled /\ question'[q].enabled /\ question'[p].index = question'[q].index
          => p = q
  <2>1. \A p, q \in DOMAIN StoredQuestions(items) :
          /\ StoredQuestions(items)[p].enabled /\ StoredQuestions(items)[q].enabled
          /\ StoredQuestions(items)[p].index = StoredQuestions(items)[q].index
          => p = q
    BY <1>2, StoredQuestionsAre DEF TeamTypeInv, TablesTyped
  <2>2. QED
    BY <1>2, <2>1
<1>5. TablesTyped'
  BY <1>1, <1>3, <1>4 DEF TeamTypeInv, TablesTyped
<1>6. IsContent(Current')
  <2>1. roster' \in SUBSET Users /\ Len(question') <= MaxQuestions
    BY <1>3, Bounds DEF Ids
  <2>2. IsContent(Content(roster', question', option'))
    BY <1>3, <2>1, ContentTyped
  <2>3. QED
    BY <2>2 DEF Current
<1>7. RowsTyped'
  <2>1. PICK S : versions \in Seq(S) /\ snapshots \in Seq(S)
    BY DEF TeamTypeInv, IInv, RowsInOrder
  <2>2. /\ Kept(versions, versions')
        /\ \A v \in DOMAIN versions' : v \in DOMAIN versions \/ IsContent(versions'[v])
    <3>1. /\ DOMAIN versions = 1..Len(versions) /\ Len(versions) \in Nat
          /\ DOMAIN versions' = 1..Len(versions) + 1 /\ Len(versions') = Len(versions) + 1
          /\ \A v \in 1..Len(versions) : versions'[v] = versions[v]
          /\ versions'[Len(versions) + 1] = Current'
      BY <1>1, <2>1, Appended
    <3>2. \A v \in 1..Len(versions) + 1 : v \in 1..Len(versions) \/ v = Len(versions) + 1
      BY <3>1
    <3>3. QED
      BY <1>6, <3>1, <3>2 DEF Kept
  <2>3. DEFINE row == [content |-> Current', at |-> now]
  <2>4. snapshots' = snapshots \/ snapshots' = Append(snapshots, row)
    BY DEF Submit, Current, Taken
  <2>5. row.content = Current' /\ row.at = now
    OBVIOUS
  <2> HIDE DEF row
  <2>6. /\ Kept(snapshots, snapshots')
        /\ \A i \in DOMAIN snapshots' :
             i \in DOMAIN snapshots
               \/ (IsContent(snapshots'[i].content) /\ snapshots'[i].at = now)
    <3>1. CASE snapshots' = snapshots
      BY <2>1, <3>1 DEF Kept
    <3>2. CASE snapshots' = Append(snapshots, row)
      <4>1. /\ DOMAIN snapshots = 1..Len(snapshots) /\ Len(snapshots) \in Nat
            /\ DOMAIN snapshots' = 1..Len(snapshots) + 1 /\ Len(snapshots') = Len(snapshots) + 1
            /\ \A i \in 1..Len(snapshots) : snapshots'[i] = snapshots[i]
            /\ snapshots'[Len(snapshots) + 1] = row
        BY <3>2, <2>1, Appended
      <4>2. \A i \in 1..Len(snapshots) + 1 : i \in 1..Len(snapshots) \/ i = Len(snapshots) + 1
        BY <4>1
      <4>3. QED
        BY <1>6, <2>5, <4>1, <4>2 DEF Kept
    <3>3. QED
      BY <2>4, <3>1, <3>2
  <2>7. QED
    BY <1>1, <2>2, <2>6, RowsGrow DEF TeamTypeInv
<1>8. FormsAreShown' /\ RequestsAreDrafts'
  BY <1>1, <1>3, RequestEnds DEF TeamTypeInv
<1>9. IInv'
  BY SubmitStep DEF TeamTypeInv
<1>10. QED
  BY <1>5, <1>7, <1>8, <1>9 DEF TeamTypeInv

(* Steps of the notifier leave tables, forms and requests.                 *)
LEMMA NotifierTyped ==
  ASSUME TeamTypeInv, UNCHANGED <<now, status, roster, question, option, form, request>>,
         RowsTyped', IInv'
  PROVE  TeamTypeInv'
<1>1. TablesTyped'
  BY TablesStay DEF TeamTypeInv, TablesTyped
<1>2. FormsAreShown' /\ RequestsAreDrafts'
  BY FormsStay DEF TeamTypeInv
<1>3. QED
  BY <1>1, <1>2 DEF TeamTypeInv

(* findByStart answers with a content and its version.                     *)
LEMMA MatchTyped == TeamTypeInv /\ Match => TeamTypeInv'
<1> SUFFICES ASSUME TeamTypeInv, Match
             PROVE  TeamTypeInv'
  OBVIOUS
<1>1. /\ call' = [stage |-> "matched", team |-> Current, since |-> Len(versions)]
      /\ UNCHANGED <<now, status, roster, question, option, form, request>>
      /\ UNCHANGED <<snapshots, standups, versions>>
  BY DEF Match, tables
<1>2. IsContent(Current)
  BY CurrentShown DEF TeamTypeInv
<1>3. Len(versions) \in DOMAIN versions
  <2>1. PICK S : versions \in Seq(S)
    BY DEF TeamTypeInv, IInv, RowsInOrder
  <2>2. QED
    BY <2>1 DEF TeamTypeInv, IInv, VersionIsCurrent
<1>4. IsCall(call')
  BY <1>1, <1>2, <1>3 DEF IsCall
<1>5. RowsTyped'
  BY <1>1, <1>4, CallGoesOn DEF TeamTypeInv
<1>6. QED
  BY <1>1, <1>5, MatchStep, NotifierTyped DEF TeamTypeInv

(* findSnapshot finds one of the rows, or none.                            *)
LEMMA FindSnapshotTyped == TeamTypeInv /\ FindSnapshot => TeamTypeInv'
<1> SUFFICES ASSUME TeamTypeInv, FindSnapshot
             PROVE  TeamTypeInv'
  OBVIOUS
<1>1. PICK i \in Last :
        call' = [stage |-> "compared", team |-> call.team, since |-> call.since, last |-> i]
  BY DEF FindSnapshot
<1>2. /\ call.stage = "matched"
      /\ UNCHANGED <<now, status, roster, question, option, form, request>>
      /\ UNCHANGED <<snapshots, standups, versions>>
  BY DEF FindSnapshot, tables
<1>3. i \in {0} \union DOMAIN snapshots
  BY DEF Last
<1>4. call # NoCall /\ IsCall(call)
  BY <1>2 DEF TeamTypeInv, RowsTyped, NoCall
<1>5. IsCall(call')
  BY <1>1, <1>2, <1>3, <1>4 DEF IsCall
<1>6. RowsTyped'
  BY <1>2, <1>5, CallGoesOn DEF TeamTypeInv
<1>7. QED
  BY <1>2, <1>6, FindSnapshotStep, NotifierTyped DEF TeamTypeInv

(* A snapshot that is kept is one of the rows.                             *)
LEMMA KeepSnapshotTyped == TeamTypeInv /\ KeepSnapshot => TeamTypeInv'
<1> SUFFICES ASSUME TeamTypeInv, KeepSnapshot
             PROVE  TeamTypeInv'
  OBVIOUS
<1>1. /\ call.stage = "compared"
      /\ call' = [stage |-> "ready", since |-> call.since, snapshot |-> call.last]
      /\ UNCHANGED <<now, status, roster, question, option, form, request>>
      /\ UNCHANGED <<snapshots, standups, versions>>
  BY DEF KeepSnapshot, Ready, tables
<1>2. call.last # 0
  BY DEF KeepSnapshot, Equals
<1>3. call # NoCall /\ IsCall(call)
  BY <1>1 DEF TeamTypeInv, RowsTyped, NoCall
<1>4. IsCall(call')
  BY <1>1, <1>2, <1>3 DEF IsCall
<1>5. RowsTyped'
  BY <1>1, <1>4, CallGoesOn DEF TeamTypeInv
<1>6. QED
  BY <1>1, <1>5, KeepSnapshotStep, NotifierTyped DEF TeamTypeInv

(* A snapshot that is taken is a row of what the team was.                 *)
LEMMA TakeSnapshotTyped == TeamTypeInv /\ TakeSnapshot => TeamTypeInv'
<1> SUFFICES ASSUME TeamTypeInv, TakeSnapshot
             PROVE  TeamTypeInv'
  OBVIOUS
<1> DEFINE row == [content |-> call.team, at |-> now]
<1>1. /\ call.stage = "compared"
      /\ call' = [stage |-> "ready", since |-> call.since, snapshot |-> Len(snapshots) + 1]
      /\ snapshots' = Append(snapshots, row)
      /\ UNCHANGED <<now, status, roster, question, option, form, request>>
      /\ UNCHANGED <<standups, versions>>
  BY DEF TakeSnapshot, Ready, Taken, tables
<1>2. call # NoCall /\ IsCall(call)
  BY <1>1 DEF TeamTypeInv, RowsTyped, NoCall
<1>3. IsContent(row.content) /\ row.at = now
  BY <1>1, <1>2 DEF IsCall
<1> HIDE DEF row
<1>4. PICK S : versions \in Seq(S) /\ snapshots \in Seq(S)
  BY DEF TeamTypeInv, IInv, RowsInOrder
<1>5. Kept(versions, versions') /\ DOMAIN versions' = DOMAIN versions
  BY <1>1, <1>4 DEF Kept
<1>6. /\ DOMAIN snapshots = 1..Len(snapshots) /\ Len(snapshots) \in Nat
      /\ DOMAIN snapshots' = 1..Len(snapshots) + 1 /\ Len(snapshots') = Len(snapshots) + 1
      /\ \A i \in 1..Len(snapshots) : snapshots'[i] = snapshots[i]
      /\ snapshots'[Len(snapshots) + 1] = row
  BY <1>1, <1>4, Appended
<1>7. \A i \in 1..Len(snapshots) + 1 : i \in 1..Len(snapshots) \/ i = Len(snapshots) + 1
  BY <1>6
<1>8. /\ Kept(snapshots, snapshots')
      /\ \A i \in DOMAIN snapshots' :
           i \in DOMAIN snapshots
             \/ (IsContent(snapshots'[i].content) /\ snapshots'[i].at = now)
  BY <1>3, <1>6, <1>7 DEF Kept
<1>9. IsCall(call)' /\ call' # NoCall
  <2>1. Len(snapshots) + 1 \in DOMAIN snapshots'
    BY <1>6
  <2>2. /\ call'.stage = "ready"
        /\ call'.snapshot \in DOMAIN snapshots' /\ call'.since \in DOMAIN versions'
    BY <1>1, <1>2, <1>5, <2>1 DEF IsCall
  <2>3. QED
    BY <2>2 DEF IsCall, NoCall
<1>10. RowsTyped'
  BY <1>1, <1>5, <1>8, <1>9, RowsGrow DEF TeamTypeInv
<1>11. QED
  BY <1>1, <1>10, TakeSnapshotStep, NotifierTyped DEF TeamTypeInv

(* The standup is a row that refers to rows.                               *)
LEMMA InsertStandupTyped == TeamTypeInv /\ InsertStandup => TeamTypeInv'
<1> SUFFICES ASSUME TeamTypeInv, InsertStandup
             PROVE  TeamTypeInv'
  OBVIOUS
<1> DEFINE row == [snapshot |-> call.snapshot, since |-> call.since]
<1>1. /\ call.stage = "ready" /\ call' = NoCall
      /\ standups' = Append(standups, row)
      /\ UNCHANGED <<now, status, roster, question, option, form, request>>
      /\ UNCHANGED <<snapshots, versions>>
  BY DEF InsertStandup, tables
<1>2. call # NoCall /\ IsCall(call)
  BY <1>1 DEF TeamTypeInv, RowsTyped, NoCall
<1>3. row \in Standup
  BY <1>1, <1>2 DEF IsCall, Standup
<1> HIDE DEF row
<1>4. standups' \in Seq(Standup')
  <2>1. Standup' = Standup
    BY <1>1 DEF Standup
  <2>2. Append(standups, row) \in Seq(Standup)
    BY <1>3 DEF TeamTypeInv, RowsTyped
  <2>3. QED
    BY <1>1, <2>1, <2>2
<1>5. \A i \in DOMAIN snapshots : TeamSnapshot(snapshots[i])'
  BY <1>1 DEF TeamTypeInv, RowsTyped, TeamSnapshot
<1>6. RowsTyped'
  BY <1>1, <1>4, <1>5 DEF TeamTypeInv, RowsTyped
<1>7. QED
  BY <1>1, <1>6, InsertStandupStep, NotifierTyped DEF TeamTypeInv

(* Every step leaves the team typed.                                       *)
LEMMA TeamTypeInvStep == TeamTypeInv /\ [Next]_vars => TeamTypeInv'
<1> SUFFICES ASSUME TeamTypeInv, [Next]_vars
             PROVE  TeamTypeInv'
  OBVIOUS
<1>1. ASSUME UNCHANGED <<roster, question, option, snapshots, standups, call, versions>>,
             now' \in 0..MaxSeconds, now <= now', status' \in Statuses,
             FormsAreShown', RequestsAreDrafts'
      PROVE  TeamTypeInv'
  <2>1. TablesTyped'
    BY <1>1, TablesStay DEF TeamTypeInv
  <2>2. RowsTyped'
    BY <1>1, RowsStay, Bounds DEF TeamTypeInv
  <2>3. IInv'
    BY <1>1, QuietStep DEF TeamTypeInv
  <2>4. QED
    BY <1>1, <2>1, <2>2, <2>3 DEF TeamTypeInv
<1>2. now \in 0..MaxSeconds /\ now <= now /\ status \in Statuses
  BY Bounds DEF TeamTypeInv, TablesTyped
<1>3. CASE UNCHANGED vars
  <2>1. FormsAreShown' /\ RequestsAreDrafts'
    BY <1>3, FormsStay DEF TeamTypeInv, vars, tables
  <2>2. QED
    BY <1>1, <1>2, <1>3, <2>1 DEF vars, tables
<1>4. CASE Tick
  <2>1. FormsAreShown' /\ RequestsAreDrafts'
    BY <1>4, FormsStay DEF TeamTypeInv, Tick, tables
  <2>2. now' \in 0..MaxSeconds /\ now <= now'
    BY <1>2, <1>4, Bounds DEF Tick
  <2>3. QED
    BY <1>1, <1>2, <1>4, <2>1, <2>2 DEF Tick, tables
<1>5. ASSUME NEW c \in Clients, SubmitFails(c)
      PROVE  TeamTypeInv'
  <2>1. FormsAreShown' /\ RequestsAreDrafts'
    BY <1>5, RequestEnds DEF TeamTypeInv, SubmitFails, tables
  <2>2. QED
    BY <1>1, <1>2, <1>5, <2>1 DEF SubmitFails, tables
<1>6. ASSUME NEW value, SetStatus(value)
      PROVE  TeamTypeInv'
  <2>1. FormsAreShown' /\ RequestsAreDrafts'
    BY <1>6, FormsStay DEF TeamTypeInv, SetStatus
  <2>2. QED
    BY <1>1, <1>2, <1>6, <2>1 DEF SetStatus
<1>7. CASE CreateFails
  <2>1. IInv'
    BY <1>7, NextIInv DEF TeamTypeInv, Next
  <2>2. RowsTyped'
    BY <1>7, CallGoesOn DEF TeamTypeInv, CreateFails
  <2>3. QED
    BY <1>7, <2>1, <2>2, NotifierTyped DEF CreateFails, tables
<1>8. QED
  BY <1>3, <1>4, <1>5, <1>6, <1>7, LoadTyped, SendTyped, CheckTeamTyped, SubmitTyped,
     MatchTyped, FindSnapshotTyped, KeepSnapshotTyped, TakeSnapshotTyped, InsertStandupTyped
     DEF Next

(* The types of the team's rows, forms, requests and of createStandup.     *)
THEOREM TeamTypeCorrect == Spec => []TypeOK
BY InitTeamTypeInv, TeamTypeInvStep, TypesAreTeamTypes, PTL DEF Spec

-----------------------------------------------------------------------------
(* Edits are stored as asked                                               *)

(* The enabled options of a question, and what an item asks for: those it  *)
(* keeps, and a new one if it comes with one.                              *)
OptionsOf(os, q) == {o \in DOMAIN os : os[o].question = q /\ os[o].enabled}

KeepsOptions(item) ==
  \A o \in item.options : o \in DOMAIN option /\ option[o].question = item.id

AreAsAsked(options, item) ==
  /\ item.options \subseteq options
  /\ (options \ item.options) \intersect DOMAIN option = {}
  /\ Cardinality(options \ item.options) = IF item.added THEN 1 ELSE 0

(* The options of a question after submit are what its item asks for.      *)
LEMMA OptionsAsAsked ==
  ASSUME question \in Seq(Question), option \in Seq(QuestionOption(question)),
         NEW x, NEW dto, IsDraft(dto, x), NEW items, AreRows(items, dto),
         NEW i \in DOMAIN items, KeepsOptions(items[i])
  PROVE  AreAsAsked(OptionsOf(StoredOptions(items), items[i].id), items[i])
<1> DEFINE os == StoredOptions(items)
           q == items[i].id
           stored == {o \in DOMAIN os : os[o].question = q /\ os[o].enabled}
           fresh == stored \ items[i].options
           new == NewOptions(items)
           added == {j \in DOMAIN items : items[j].added}
           M == Len(option)
<1>1. /\ M \in Nat /\ DOMAIN option = 1..M
      /\ Len(new) \in Nat /\ DOMAIN new = 1..Len(new) /\ Len(new) = Cardinality(added)
  <2>1. M \in Nat /\ DOMAIN option = 1..M
    OBVIOUS
  <2>2. /\ DOMAIN new = 1..Cardinality(added) /\ Len(new) = Cardinality(added)
        /\ Cardinality(added) \in Nat
    BY NewOptionsAre
  <2>3. QED
    BY <2>1, <2>2
<1>2. /\ DOMAIN os = 1..M + Len(new)
      /\ \A o \in DOMAIN option :
           /\ os[o].question = option[o].question
           /\ \A j \in DOMAIN items : items[j].id = option[o].question =>
                (os[o].enabled <=> o \in items[j].options)
      /\ \A k \in DOMAIN new : os[M + k] = new[k]
  BY StoredOptionsAre
<1>3. AreNewOptions(new, items, added)
  BY NewOptionsAre
<1>4. /\ \A j \in added :
           /\ Place(added, j) \in 1..Cardinality(added)
           /\ new[Place(added, j)] = [question |-> items[j].id, enabled |-> TRUE]
      /\ \A k \in 1..Cardinality(added) :
           \E j \in added :
             Place(added, j) = k /\ new[k] = [question |-> items[j].id, enabled |-> TRUE]
  <2> HIDE DEF new, added
  <2>1. QED
    BY <1>3 DEF AreNewOptions
<1>5. \A j \in DOMAIN items : items[j].id = q => j = i
  BY DEF AreRows
<1>6. i \in added <=> items[i].added
  OBVIOUS
<1> HIDE DEF os, new, added, M
<1>7. \A o \in DOMAIN option : o \in stored <=> o \in items[i].options
  <2> SUFFICES ASSUME NEW o \in DOMAIN option
               PROVE  o \in stored <=> o \in items[i].options
    OBVIOUS
  <2>1. o \in DOMAIN os /\ os[o].question = option[o].question
    BY <1>1, <1>2
  <2>2. option[o].question = q => (os[o].enabled <=> o \in items[i].options)
    BY <1>2
  <2>3. o \in items[i].options => option[o].question = q
    BY DEF KeepsOptions
  <2> HIDE DEF q
  <2>4. QED
    BY <2>1, <2>2, <2>3
<1>8. \A o \in stored : o \in DOMAIN option \/ (items[i].added /\ o = M + Place(added, i))
  <2> SUFFICES ASSUME NEW o \in stored, o \notin DOMAIN option
               PROVE  items[i].added /\ o = M + Place(added, i)
    OBVIOUS
  <2>1. o \in 1..M + Len(new) /\ o \notin 1..M /\ os[o].question = q
    BY <1>1, <1>2
  <2>2. o - M \in 1..Len(new) /\ o = M + (o - M)
    BY <1>1, <2>1
  <2>3. PICK j \in added :
          /\ Place(added, j) = o - M
          /\ new[o - M] = [question |-> items[j].id, enabled |-> TRUE]
    BY <1>1, <1>4, <2>2
  <2>4. os[o] = new[o - M]
    BY <1>1, <1>2, <2>2
  <2>5. items[j].id = q /\ j \in DOMAIN items
    BY <2>1, <2>3, <2>4 DEF added
  <2>6. QED
    BY <1>5, <1>6, <2>2, <2>3, <2>5
<1>9. ASSUME items[i].added
      PROVE  M + Place(added, i) \in stored /\ M + Place(added, i) \notin DOMAIN option
  <2>1. Place(added, i) \in 1..Len(new) /\ new[Place(added, i)] = [question |-> q, enabled |-> TRUE]
    BY <1>1, <1>4, <1>6, <1>9
  <2>2. /\ M + Place(added, i) \in 1..M + Len(new) /\ M + Place(added, i) \notin 1..M
    BY <1>1, <2>1
  <2>3. os[M + Place(added, i)] = [question |-> q, enabled |-> TRUE]
    BY <1>1, <1>2, <2>1
  <2>4. QED
    BY <1>1, <1>2, <2>2, <2>3
<1>10. items[i].options \subseteq stored /\ fresh \intersect DOMAIN option = {}
  BY <1>7 DEF KeepsOptions
<1> HIDE DEF stored
<1>11. fresh = IF items[i].added THEN {M + Place(added, i)} ELSE {}
  <2>1. \A o \in fresh : items[i].added /\ o = M + Place(added, i)
    BY <1>7, <1>8
  <2>2. items[i].added => M + Place(added, i) \in fresh
    BY <1>9 DEF KeepsOptions
  <2> HIDE DEF fresh
  <2>3. QED
    BY <2>1, <2>2
<1>12. Cardinality(fresh) = IF items[i].added THEN 1 ELSE 0
  BY <1>11, FS_EmptySet, FS_Singleton
<1>13. QED
  BY <1>10, <1>12 DEF stored, os, AreAsAsked, OptionsOf

(* What submit stores of a form that shows the team is what it asks for.   *)
LEMMA SubmitAsAsked ==
  ASSUME TeamTypeInv, NEW c \in Clients, Submit(c), request[c].seen = Current
  PROVE  IsAsAsked(Current', request[c].dto)
<1> DEFINE dto == request[c].dto
           items == Assigned(dto)
           places == DOMAIN dto.questions
           ids == DOMAIN Current'.questions
           row == [i \in places |-> items[i].id]
<1>1. /\ IsShown(Current) /\ IsDraft(dto, Current) /\ AreRows(items, dto)
      /\ roster' = dto.users /\ roster' \in SUBSET Users
      /\ question' = StoredQuestions(items) /\ option' = StoredOptions(items)
      /\ question' \in Seq(Question) /\ option' \in Seq(QuestionOption(question'))
      /\ Len(question') <= MaxQuestions /\ Len(option') <= MaxOptions
  BY SubmitStores, Bounds DEF Ids
<1>2. question \in Seq(Question) /\ option \in Seq(QuestionOption(question))
  BY DEF TeamTypeInv, TablesTyped
<1> HIDE DEF dto, items
<1>3. IsContentOf(Current', roster', question', option')
  <2>1. IsContentOf(Content(roster', question', option'), roster', question', option')
    BY <1>1, ContentTyped
  <2>2. QED
    BY <2>1 DEF Current
<1>4. /\ DOMAIN Current.questions = {q \in DOMAIN question : question[q].enabled}
      /\ \A q \in DOMAIN Current.questions :
           Current.questions[q].options
             = {o \in DOMAIN option : option[o].question = q /\ option[o].enabled}
  <2>1. IsContentOf(Current, roster, question, option)
    BY CurrentShown DEF TeamTypeInv
  <2>2. DOMAIN Current.questions = {q \in DOMAIN question : question[q].enabled}
    BY <2>1, Zenon DEF IsContentOf
  <2>3. ASSUME NEW q \in DOMAIN question, question[q].enabled
        PROVE  Current.questions[q].options
                 = {o \in DOMAIN option : option[o].question = q /\ option[o].enabled}
    <3>1. Current.questions[q] =
            [text |-> question[q].text, index |-> question[q].index,
             options |-> {o \in DOMAIN option : option[o].question = q /\ option[o].enabled}]
      BY <2>1, <2>3, Zenon DEF IsContentOf
    <3>2. QED
      BY <3>1
  <2>4. QED
    BY <2>2, <2>3
<1>5. /\ ids = {q \in DOMAIN question' : question'[q].enabled}
      /\ \A q \in ids :
           /\ Current'.questions[q].text = question'[q].text
           /\ Current'.questions[q].index = question'[q].index
           /\ Current'.questions[q].options
                = {o \in DOMAIN option' : option'[o].question = q /\ option'[o].enabled}
  <2>1. ids = {q \in DOMAIN question' : question'[q].enabled}
    BY <1>3, Zenon DEF IsContentOf
  <2>2. ASSUME NEW q \in DOMAIN question', question'[q].enabled
        PROVE  Current'.questions[q] =
                 [text |-> question'[q].text, index |-> question'[q].index,
                  options |-> {o \in DOMAIN option' :
                                 option'[o].question = q /\ option'[o].enabled}]
    BY <1>3, <2>2, Zenon DEF IsContentOf
  <2>3. ASSUME NEW q \in ids
        PROVE  /\ Current'.questions[q].text = question'[q].text
               /\ Current'.questions[q].index = question'[q].index
               /\ Current'.questions[q].options
                    = {o \in DOMAIN option' : option'[o].question = q /\ option'[o].enabled}
    <3>1. q \in DOMAIN question' /\ question'[q].enabled
      BY <2>1, <2>3
    <3>2. Current'.questions[q] =
            [text |-> question'[q].text, index |-> question'[q].index,
             options |-> {o \in DOMAIN option' : option'[o].question = q /\ option'[o].enabled}]
      BY <2>2, <3>1, Zenon
    <3>3. QED
      BY <3>2
  <2>4. QED
    BY <2>1, <2>3
<1>6. /\ \A i \in DOMAIN items :
           /\ items[i].id \in DOMAIN question'
           /\ question'[items[i].id].text = dto.questions[i].text
           /\ question'[items[i].id].index = dto.questions[i].index
           /\ question'[items[i].id].enabled <=>
                (items[i].id \in DOMAIN question => question[items[i].id].enabled)
      /\ \A q \in DOMAIN question' :
           question'[q].enabled => q \in {items[i].id : i \in DOMAIN items}
  BY <1>1, <1>2, StoredQuestionsAre
<1>7. /\ DOMAIN items = places
      /\ \A i, j \in places : items[i].id = items[j].id => i = j
      /\ \A i \in places :
           /\ items[i].options = dto.questions[i].options
           /\ items[i].added = dto.questions[i].added
           /\ dto.questions[i].id # 0 =>
                items[i].id = dto.questions[i].id /\ items[i].id \in DOMAIN question
           /\ dto.questions[i].id = 0 => items[i].id \notin DOMAIN question
  <2>1. ASSUME NEW i \in DOMAIN items, dto.questions[i].id = 0
        PROVE  items[i].id \notin DOMAIN question
    <3>1. /\ items[i].id \in Len(question) + 1..Len(question) + NewRows(items)
          /\ NewRows(items) \in Nat
      BY <1>1, <2>1 DEF AreRows
    <3>2. Len(question) \in Nat /\ DOMAIN question = 1..Len(question)
      BY <1>2
    <3>3. QED
      BY <3>1, <3>2
  <2>2. QED
    BY <1>1, <2>1 DEF AreRows
<1>8. \A i \in places :
        /\ dto.questions[i].id # 0 => dto.questions[i].id \in DOMAIN Current.questions
        /\ dto.questions[i].options \subseteq
             IF dto.questions[i].id = 0 THEN {} ELSE Current.questions[dto.questions[i].id].options
  BY <1>1 DEF IsDraft, AreItems
<1>9. \A i \in places : items[i].id \in ids
  <2> SUFFICES ASSUME NEW i \in places
               PROVE  items[i].id \in DOMAIN question' /\ question'[items[i].id].enabled
    BY <1>5
  <2>1. items[i].id \in DOMAIN question => question[items[i].id].enabled
    BY <1>4, <1>7, <1>8
  <2>2. QED
    BY <1>6, <1>7, <2>1
<1>10. \A i \in places : KeepsOptions(items[i])
  <2>1. \A i \in places : \A o \in items[i].options :
          o \in DOMAIN option /\ option[o].question = items[i].id
    BY <1>4, <1>7, <1>8
  <2>2. QED
    BY <2>1 DEF KeepsOptions
<1> HIDE DEF ids, places
<1>11. row \in [places -> ids] /\ \A i \in places : row[i] = items[i].id
  BY <1>9
<1> HIDE DEF row
<1>12. ASSUME NEW q \in ids
       PROVE  Cardinality({i \in places : row[i] = q}) = 1
  <2>1. PICK i \in places : q = items[i].id
    BY <1>5, <1>6, <1>7, <1>12
  <2>2. {j \in places : row[j] = q} = {i}
    BY <1>7, <1>11, <2>1
  <2>3. QED
    BY <2>2, FS_Singleton
<1>13. ASSUME NEW i \in places
       PROVE  LET asked == dto.questions[i]
                  stored == Current'.questions[row[i]]
                  fresh == stored.options \ asked.options
              IN
                /\ asked.id # 0 => row[i] = asked.id
                /\ asked.id = 0 => row[i] \notin DOMAIN question
                /\ stored.text = asked.text /\ stored.index = asked.index
                /\ asked.options \subseteq stored.options
                /\ fresh \intersect DOMAIN option = {}
                /\ Cardinality(fresh) = IF asked.added THEN 1 ELSE 0
  <2> DEFINE q == items[i].id
             os == StoredOptions(items)
             stored == {o \in DOMAIN os : os[o].question = q /\ os[o].enabled}
  <2>1. /\ items[i].options \subseteq stored
        /\ (stored \ items[i].options) \intersect DOMAIN option = {}
        /\ Cardinality(stored \ items[i].options) = IF items[i].added THEN 1 ELSE 0
    <3>1. AreAsAsked(OptionsOf(os, q), items[i])
      BY <1>1, <1>2, <1>7, <1>10, OptionsAsAsked
    <3>2. QED
      BY <3>1 DEF AreAsAsked, OptionsOf
  <2>2. Current'.questions[q].options = stored
    BY <1>1, <1>5, <1>9
  <2>3. Current'.questions[q].text = dto.questions[i].text
        /\ Current'.questions[q].index = dto.questions[i].index
    BY <1>5, <1>6, <1>7, <1>9
  <2>4. row[i] = q
    BY <1>11
  <2> HIDE DEF stored, q
  <2>5. QED
    BY <1>7, <2>1, <2>2, <2>3, <2>4 DEF q
<1>14. Current'.users = dto.users
  BY <1>1, <1>3 DEF IsContentOf
<1>15. QED
  BY <1>11, <1>12, <1>13, <1>14 DEF IsAsAsked, ids, places, dto

(* Only submit adds a version, and it ends the request it stores.          *)
LEMMA FreshEditStep ==
  ASSUME TeamTypeInv, [Next]_vars, NEW c \in Clients,
         Len(versions') > Len(versions), request[c] # NoRequest, request'[c] = NoRequest,
         request[c].seen = Current
  PROVE  IsAsAsked(Current', request[c].dto)
<1>1. Len(versions) \in Nat
  BY DEF TeamTypeInv, IInv, VersionIsCurrent
<1>2. versions' # versions
  BY <1>1
<1>3. PICK d \in Clients : Submit(d)
  BY <1>2 DEF Next, vars, Tick, Load, CheckTeam, SubmitFails, Send, SetStatus, Match, FindSnapshot,
              KeepSnapshot, TakeSnapshot, InsertStandup, CreateFails
<1>4. d = c
  <2>1. PICK S : request \in [Clients -> S]
    BY DEF TeamTypeInv, RequestsAreDrafts
  <2>2. request' = [request EXCEPT ![d] = NoRequest]
    BY <1>3 DEF Submit
  <2>3. QED
    BY <2>1, <2>2
<1>5. QED
  BY <1>3, <1>4, SubmitAsAsked

(* An edit of a form that shows the team is stored as it was asked for.    *)
THEOREM FreshEditIsStoredHolds == Spec => FreshEditIsStored
<1>1. TeamTypeInv /\ [Next]_vars =>
        [\A c \in Clients :
           (/\ Len(versions') > Len(versions)
            /\ request[c] # NoRequest /\ request'[c] = NoRequest
            /\ request[c].seen = Current)
           => IsAsAsked(Current', request[c].dto)]_vars
  BY FreshEditStep
<1>2. QED
  BY <1>1, InitTeamTypeInv, TeamTypeInvStep, PTL DEF Spec, FreshEditIsStored

-----------------------------------------------------------------------------
(* The composition                                                         *)

(* The parts' invariants.                                                  *)
AllInv == TeamTypeInv /\ TypeInv /\ ScheduleInv /\ StandupsInv

(* Every part starts in one of its initial states, whichever part runs.    *)
LEMMA InitAllInv == AllInit => AllInv
<1> SUFFICES ASSUME AllInit
             PROVE  AllInv
  OBVIOUS
<1>1. Init /\ PageInit /\ ScheduleInit /\ StandupsInit
  BY DEF AllInit, NoPages, NoSchedule, NoStandups
<1>2. QED
  BY <1>1, InitTeamTypeInv, InitTypeInv, InitScheduleInv, InitStandupsInv DEF AllInv

(* A step is one of one part.                                              *)
LEMMA AllInvStep == AllInv /\ [AllNext]_allVars => AllInv'
<1> SUFFICES ASSUME AllInv, [AllNext]_allVars
             PROVE  AllInv'
  OBVIOUS
<1>1. /\ [Next]_vars /\ [PageNext]_pageVars
      /\ [ScheduleNext]_scheduleVars /\ [StandupsNext]_standupsVars
  BY DEF AllNext, allVars
<1>2. TypeInv'
  <2>1. CASE PageNext
    BY <2>1, TypeInvStep DEF AllInv
  <2>2. CASE UNCHANGED pageVars
    BY <2>2 DEF AllInv, TypeInv, RowsOK, PageTyped, ReadTyped, TeamIds, OnForm, pageVars
  <2>3. QED
    BY <1>1, <2>1, <2>2
<1>3. QED
  BY <1>1, <1>2, TeamTypeInvStep, ScheduleInvStep, StandupsInvStep DEF AllInv

(* The types of all parts.                                                 *)
THEOREM AllTypeCorrect == AllSpec => []AllTypeOK
<1>1. AllInv => AllTypeOK
  BY TypesAreTeamTypes, TypesArePageTypes DEF AllInv, ScheduleInv, StandupsInv, AllTypeOK
<1>2. QED
  BY <1>1, InitAllInv, AllInvStep, PTL DEF AllSpec

=============================================================================
