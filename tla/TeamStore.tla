------------------------------ MODULE TeamStore ------------------------------
(***************************************************************************)
(* One team as the API edits it and the notifier uses it: the rows of the  *)
(* team, its users, questions and options, the snapshots taken of them     *)
(* (TeamSnapshot) and the standups that refer to a snapshot.               *)
(*                                                                         *)
(*   API       TeamController.get fills a form, .edit checks the team and  *)
(*             then runs TeamRepository.submit, .status sets the status.   *)
(*   notifier  findByStart matches the team, createStandup compares what   *)
(*             it has read with the last snapshot, adds a snapshot if they *)
(*             differ, and adds the standup: four awaits, no transaction.  *)
(*                                                                         *)
(* submit is one SERIALIZABLE transaction and the API's pool has a single  *)
(* connection, so it is one step here.  Names, schedule, time zone and     *)
(* report channel are plain columns that submit overwrites; they are left  *)
(* out, as is whatever no one compares: the text and order of options.     *)
(***************************************************************************)
EXTENDS Integers, Sequences, FiniteSets

CONSTANTS
  Users, Texts,
  Clients,       \* browsers with the team's form
  MaxQuestions,  \* bound: question rows, of which a team has one at least
  MaxOptions,    \* bound: option rows
  MaxSeconds,    \* bound: seconds that pass
  MaxVersions,   \* bound: the team as created and the edits stored
  MaxSnapshots,  \* bound: snapshots there may be for the notifier to add one
  MaxStandups    \* bound: standups created

ASSUME TeamAssumption ==
  /\ IsFiniteSet(Users)
  /\ {MaxQuestions, MaxOptions, MaxSeconds, MaxVersions,
       MaxSnapshots, MaxStandups} \subseteq Nat
  /\ MaxQuestions > 0

VARIABLES
  now,        \* seconds: the precision of created_at
  status,     \* team.status
  roster,     \* team_users
  question,   \* Question rows, in the order of their ids
  option,     \* QuestionOption rows, in the order of their ids
  snapshots,  \* TeamSnapshot rows
  standups,   \* Standup rows
  form,       \* client -> what TeamController.get answered
  request,    \* client -> the edit under way
  call,       \* the createStandup call of the notifier
  versions    \* the team's contents so far; no part of the code

tables == <<status, roster, question, option>>
vars == <<now, tables, snapshots, standups, form, request, call, versions>>

Activated == 1
Statuses == {1, 2, 3}

(* What a snapshot keeps of a team: its users, its enabled questions, and  *)
(* the enabled options of those.                                           *)
Content(us, qs, os) ==
  [users |-> us,
   questions |->
     [q \in {i \in DOMAIN qs : qs[i].enabled} |->
        [text |-> qs[q].text, index |-> qs[q].index,
         options |-> {o \in DOMAIN os : os[o].question = q /\ os[o].enabled}]]]

Current == Content(roster, question, option)

(* The rows.  An option belongs to a question, a snapshot of a question to *)
(* the question that it is a snapshot of, as the key of its row here.      *)
Ids == 1..MaxQuestions
Question == [text : Texts, index : Nat, enabled : BOOLEAN]
QuestionOption(qs) == [question : DOMAIN qs, enabled : BOOLEAN]
QuestionOptionSnapshot == 1..MaxOptions
QuestionSnapshot ==
  [text : Texts, index : Nat, options : SUBSET QuestionOptionSnapshot]

IsContent(x) ==
  /\ x.users \in SUBSET Users
  /\ DOMAIN x.questions \in SUBSET Ids
  /\ x.questions \in [DOMAIN x.questions -> QuestionSnapshot]

TeamSnapshot(x) == IsContent(x.content) /\ x.at \in 0..now
Standup == [snapshot : DOMAIN snapshots, since : DOMAIN versions]

(* No form: no team is without users.                                      *)
NoForm == [users |-> {}, questions |-> <<>>]
NoRequest == [stage |-> "none"]
NoCall == [stage |-> "idle"]

(* A question of a TeamDTO: id 0 for a new one, the options it keeps, and  *)
(* whether it comes with a new option.                                     *)
DTOQuestions ==
  [id : 0..MaxQuestions, index : Nat, text : Texts,
   options : SUBSET (1..MaxOptions), added : BOOLEAN]

IsRequest(x) ==
  /\ x.stage \in {"sent", "checked"}
  /\ IsContent(x.seen)
  /\ x.dto \in [users : (SUBSET Users) \ {{}}, questions : Seq(DTOQuestions) \ {<<>>}]

IsCall(x) ==
  /\ x.stage \in {"matched", "compared", "ready"}
  /\ x.since \in DOMAIN versions
  /\ x.stage \in {"matched", "compared"} => IsContent(x.team)
  /\ x.stage = "compared" => x.last \in {0} \union DOMAIN snapshots
  /\ x.stage = "ready" => x.snapshot \in DOMAIN snapshots

TypeOK ==
  /\ now \in 0..MaxSeconds
  /\ status \in Statuses
  /\ roster \in (SUBSET Users) \ {{}}
  /\ question \in Seq(Question)
  /\ option \in Seq(QuestionOption(question))
  /\ Len(question) \in Ids /\ Len(option) <= MaxOptions
  /\ \A i \in DOMAIN snapshots : TeamSnapshot(snapshots[i])
  /\ standups \in Seq(Standup)
  /\ \A c \in Clients :
       IsContent(form[c]) /\ (request[c] = NoRequest \/ IsRequest(request[c]))
  /\ call = NoCall \/ IsCall(call)
  /\ \A v \in DOMAIN versions : IsContent(versions[v])

(* TeamController.create: an activated team with its users and questions,  *)
(* of which there is no snapshot yet.                                      *)
Init ==
  /\ now = 0
  /\ status = Activated
  /\ roster \in (SUBSET Users) \ {{}}
  /\ \E t \in Texts : question = <<[text |-> t, index |-> 0, enabled |-> TRUE]>>
  /\ option = <<>>
  /\ snapshots = <<>>
  /\ standups = <<>>
  /\ form = [c \in Clients |-> NoForm]
  /\ request = [c \in Clients |-> NoRequest]
  /\ call = NoCall
  /\ versions = <<Current>>

Tick ==
  /\ now < MaxSeconds
  /\ now' = now + 1
  /\ UNCHANGED <<tables, snapshots, standups, form, request, call, versions>>

-----------------------------------------------------------------------------
(* Snapshots.                                                              *)

(* findSnapshot: ORDER BY created_at DESC, in whole seconds; which of two  *)
(* snapshots of one second comes first is not said.  0: there is none.     *)
Last ==
  IF snapshots = <<>> THEN {0}
  ELSE {i \in DOMAIN snapshots :
          \A j \in DOMAIN snapshots : snapshots[j].at <= snapshots[i].at}

(* Mutant: equals() compares only how many questions there are.            *)
EqualsByCount(i, content) ==
  {i # 0 /\ Cardinality(DOMAIN snapshots[i].content.questions)
              = Cardinality(DOMAIN content.questions)}

(* equals() compares JSON texts.  The questions are sorted for it, but the *)
(* users come in whatever order the rows were read.                        *)
Equals(i, content) ==
  IF i = 0 \/ snapshots[i].content # content THEN {FALSE}
  ELSE IF Cardinality(content.users) > 1 THEN BOOLEAN ELSE {TRUE}

Taken(content) == Append(snapshots, [content |-> content, at |-> now])

-----------------------------------------------------------------------------
(* The API.                                                                *)

(* findActiveById joins the enabled questions: without one there is no     *)
(* team to be found.                                                       *)
Found == Current.questions # <<>>

(* TeamController.get: only what is enabled is serialised.                 *)
Load(c) ==
  /\ form[c] = NoForm /\ request[c] = NoRequest
  /\ Found
  /\ form' = [form EXCEPT ![c] = Current]
  /\ UNCHANGED <<now, tables, snapshots, standups, request, call, versions>>

(* The questions of a form, in the order it shows them.                    *)
ShownItems(f) ==
  LET place(q) == Cardinality({p \in DOMAIN f.questions :
                                 f.questions[p].index <= f.questions[q].index})
  IN [i \in 1..Cardinality(DOMAIN f.questions) |->
        LET q == CHOOSE p \in DOMAIN f.questions : place(p) = i IN
        [id |-> q, index |-> i - 1, text |-> f.questions[q].text,
         options |-> f.questions[q].options, added |-> FALSE]]

NewItem(t, added) ==
  [id |-> 0, index |-> 0, text |-> t, options |-> {}, added |-> added]

(* The form without its i-th question, and with two that changed places.   *)
Without(s, i) == SubSeq(s, 1, i - 1) \o SubSeq(s, i + 1, Len(s))
Swapped(s, i, j) == [s EXCEPT ![i] = s[j], ![j] = s[i]]

(* What a user may make of the questions in one edit: bound to one change. *)
Rearranged(s) ==
  {s}
  \union {[s EXCEPT ![i].text = t] : i \in DOMAIN s, t \in Texts}
  \union {[s EXCEPT ![i].added = TRUE] : i \in DOMAIN s}
  \union {[s EXCEPT ![i].options = @ \ {o}] : i \in DOMAIN s, o \in 1..MaxOptions}
  \union {Append(s, NewItem(t, added)) : t \in Texts, added \in BOOLEAN}
  \union {Swapped(s, i, j) : i, j \in DOMAIN s}
  \union IF Len(s) > 1 THEN {Without(s, i) : i \in DOMAIN s} ELSE {}

(* submit() of the form gives every question its place as index.           *)
Drafts(f) ==
  LET placed(s) == [i \in DOMAIN s |-> [s[i] EXCEPT !.index = i - 1]]
      shown == ShownItems(f)
  IN {[users |-> f.users, questions |-> placed(s)] : s \in Rearranged(shown)}
       \union {[users |-> us, questions |-> shown] : us \in (SUBSET Users) \ {{}}}

updateTeam(c, dto) ==
  request' = [request EXCEPT ![c] = [stage |-> "sent", seen |-> form[c], dto |-> dto]]

(* The form sends what it shows, changed.                                  *)
Send(c, dto) ==
  /\ form[c] # NoForm
  /\ updateTeam(c, dto)
  /\ form' = [form EXCEPT ![c] = NoForm]
  /\ UNCHANGED <<now, tables, snapshots, standups, call, versions>>

At(c, stage) == request[c].stage = stage

(* TeamController.edit awaits findActiveById ...                           *)
CheckTeam(c) ==
  /\ At(c, "sent")
  /\ request' = [request EXCEPT ![c] =
       IF Found /\ status = Activated THEN [@ EXCEPT !.stage = "checked"]
       ELSE NoRequest]
  /\ UNCHANGED <<now, tables, snapshots, standups, form, call, versions>>

(* The place of i among the numbers of S.                                  *)
Place(S, i) == Cardinality({j \in S : j <= i})

(* The ids the questions of a DTO end up with.                             *)
Assigned(dto) ==
  LET new == {i \in DOMAIN dto.questions : dto.questions[i].id = 0} IN
  [i \in DOMAIN dto.questions |->
     IF i \notin new THEN dto.questions[i]
     ELSE [dto.questions[i] EXCEPT !.id = Len(question) + Place(new, i)]]

(* The item of a question row, in a DTO with assigned ids.                 *)
Item(items, q) == {items[i] : i \in {j \in DOMAIN items : items[j].id = q}}

(* Rows that are not named are disabled.  Rows that are get their text and *)
(* index, and stay enabled or disabled as they are.                        *)
StoredQuestions(items) ==
  [q \in 1..(Len(question) + Cardinality({i \in DOMAIN items : items[i].id > Len(question)})) |->
     CASE Item(items, q) = {} -> [question[q] EXCEPT !.enabled = FALSE]
       [] Item(items, q) # {} ->
            LET item == CHOOSE i \in Item(items, q) : TRUE IN
            [text |-> item.text, index |-> item.index,
             enabled |-> IF q \in DOMAIN question THEN question[q].enabled ELSE TRUE]]

(* The options that come with questions, in the order of those.            *)
NewOptions(items) ==
  LET added == {i \in DOMAIN items : items[i].added}
      nth(k) == CHOOSE i \in added : Place(added, i) = k
  IN [k \in 1..Cardinality(added) |-> [question |-> items[nth(k)].id, enabled |-> TRUE]]

(* Mutant: options that are not named are not disabled.                    *)
StoredOptionsKept(items) == option \o NewOptions(items)

(* An option is enabled just when its question is sent with it; options of *)
(* questions that are not sent stay as they are.                           *)
StoredOptions(items) ==
  [o \in DOMAIN option |->
     LET item == Item(items, option[o].question) IN
     IF item = {} THEN option[o]
     ELSE [option[o] EXCEPT !.enabled = \E i \in item : o \in i.options]]
  \o NewOptions(items)

(* ... and then TeamRepository.submit, which adds a snapshot unless the    *)
(* last one says the same.                                                 *)
Submit(c) ==
  /\ At(c, "checked")
  /\ Len(versions) < MaxVersions
  /\ LET dto == request[c].dto
         items == Assigned(dto)
         content == Content(dto.users, StoredQuestions(items), StoredOptions(items))
     IN
       /\ Len(StoredQuestions(items)) <= MaxQuestions
       /\ Len(StoredOptions(items)) <= MaxOptions
       /\ roster' = dto.users
       /\ question' = StoredQuestions(items)
       /\ option' = StoredOptions(items)
       /\ versions' = Append(versions, content)
       /\ \E i \in Last : \E same \in Equals(i, content) :
            snapshots' = IF same THEN snapshots ELSE Taken(content)
  /\ request' = [request EXCEPT ![c] = NoRequest]
  /\ UNCHANGED <<now, status, standups, form, call>>

(* The transaction is rolled back.  A serialization failure comes to the   *)
(* same: the decorator's first retry only commits, which for a failed      *)
(* transaction is a rollback, and submit is not run again.                 *)
SubmitFails(c) ==
  /\ At(c, "checked")
  /\ request' = [request EXCEPT ![c] = NoRequest]
  /\ UNCHANGED <<now, tables, snapshots, standups, form, call, versions>>

(* Mutant: the status is not looked up in teamStatuses.                    *)
SetAnyStatus(value) ==
  /\ value # status
  /\ status' = value
  /\ UNCHANGED <<now, roster, question, option, snapshots, standups, form,
                 request, call, versions>>

(* TeamController.status                                                   *)
SetStatus(value) ==
  /\ value \in Statuses
  /\ value # status
  /\ status' = value
  /\ UNCHANGED <<now, roster, question, option, snapshots, standups, form,
                 request, call, versions>>

-----------------------------------------------------------------------------
(* The notifier.                                                           *)

(* findByStart answers with the team.                                      *)
Match ==
  /\ call = NoCall
  /\ Len(standups) < MaxStandups
  /\ status = Activated
  /\ call' = [stage |-> "matched", team |-> Current, since |-> Len(versions)]
  /\ UNCHANGED <<now, tables, snapshots, standups, form, request, versions>>

FindSnapshot ==
  /\ call.stage = "matched"
  /\ \E i \in Last :
       call' = [stage |-> "compared", team |-> call.team, since |-> call.since,
                last |-> i]
  /\ UNCHANGED <<now, tables, snapshots, standups, form, request, versions>>

Ready(i) == call' = [stage |-> "ready", since |-> call.since, snapshot |-> i]

(* Mutant: any snapshot that is found is used.                             *)
KeepAnySnapshot ==
  /\ call.stage = "compared"
  /\ call.last # 0
  /\ Ready(call.last)
  /\ UNCHANGED <<now, tables, snapshots, standups, form, request, versions>>

(* The last snapshot found is the one to use.                              *)
KeepSnapshot ==
  /\ call.stage = "compared"
  /\ TRUE \in Equals(call.last, call.team)
  /\ Ready(call.last)
  /\ UNCHANGED <<now, tables, snapshots, standups, form, request, versions>>

(* A snapshot of what findByStart has read.                                *)
TakeSnapshot ==
  /\ call.stage = "compared"
  /\ FALSE \in Equals(call.last, call.team)
  /\ Len(snapshots) < MaxSnapshots
  /\ snapshots' = Taken(call.team)
  /\ Ready(Len(snapshots) + 1)
  /\ UNCHANGED <<now, tables, standups, form, request, versions>>

InsertStandup ==
  /\ call.stage = "ready"
  /\ standups' = Append(standups, [snapshot |-> call.snapshot, since |-> call.since])
  /\ call' = NoCall
  /\ UNCHANGED <<now, tables, snapshots, form, request, versions>>

(* A statement is rejected, or the process ends.                           *)
CreateFails ==
  /\ call # NoCall
  /\ call' = NoCall
  /\ UNCHANGED <<now, tables, snapshots, standups, form, request, versions>>

-----------------------------------------------------------------------------

Next ==
  \/ Tick
  \/ \E c \in Clients :
       \/ Load(c) \/ CheckTeam(c) \/ Submit(c) \/ SubmitFails(c)
       \/ form[c] # NoForm /\ \E dto \in Drafts(form[c]) : Send(c, dto)
  \/ \E value \in 0..3 : SetStatus(value)
  \/ Match \/ FindSnapshot \/ KeepSnapshot \/ TakeSnapshot \/ InsertStandup
  \/ CreateFails

Spec == Init /\ [][Next]_vars

-----------------------------------------------------------------------------

(* A standup asks its users, questions and options just as they were when  *)
(* its team was matched, whatever was edited since, whichever snapshot of  *)
(* one second came first and however the users were ordered.               *)
StandupAsksTheTeam ==
  \A i \in DOMAIN standups :
    snapshots[standups[i].snapshot].content = versions[standups[i].since]

(* Once a team was edited there is a snapshot of what it is now, even when *)
(* the notifier has added one of an earlier content after the edit.        *)
EditedTeamHasSnapshot ==
  Len(versions) > 1 => \E i \in DOMAIN snapshots : snapshots[i].content = Current

(* The content is what the form asked for: its users, its questions in its *)
(* order and with its texts, the rows it named kept, the options it kept   *)
(* and a fresh one where it added one, and nothing else.                   *)
IsAsAsked(content, dto) ==
  LET rows == DOMAIN content.questions
      places == DOMAIN dto.questions
  IN
    /\ content.users = dto.users
    /\ \E row \in [places -> rows] :
         /\ \A q \in rows : Cardinality({i \in places : row[i] = q}) = 1
         /\ \A i \in places :
              LET asked == dto.questions[i]
                  stored == content.questions[row[i]]
                  fresh == stored.options \ asked.options
              IN
                /\ asked.id # 0 => row[i] = asked.id
                /\ asked.id = 0 => row[i] \notin DOMAIN question
                /\ stored.text = asked.text /\ stored.index = asked.index
                /\ asked.options \subseteq stored.options
                /\ fresh \intersect DOMAIN option = {}
                /\ Cardinality(fresh) = IF asked.added THEN 1 ELSE 0

(* An edit of a form that shows the team as it is, is stored as it was     *)
(* asked for: enabled rows, order, texts, options and users.               *)
FreshEditIsStored ==
  [][\A c \in Clients :
       (/\ Len(versions') > Len(versions)
        /\ request[c] # NoRequest /\ request'[c] = NoRequest
        /\ request[c].seen = Current)
       => IsAsAsked(Current', request[c].dto)]_vars

(* An activated team has something to ask: Team.questions is               *)
(* @ArrayMinSize(1), and so is TeamDTO.questions.  The code does not keep  *)
(* to it.                                                                  *)
ActiveTeamAsks == status = Activated => Found

=============================================================================
