---------------------------- MODULE ChannelSync ----------------------------
(***************************************************************************)
(* The Channel rows and the two that keep them: the worker, which applies  *)
(* the channel events of the queue slack_events on entities it keeps in    *)
(* memory, and a synchronisation, which stores the users of Slack, then    *)
(* reads its channels page by page and upserts them past those entities.   *)
(* (src/src/slack/slack-event-listener.ts, src/src/command/WorkerCommand.ts,*)
(* src/src/slack/sync-slack.service.ts, repository/channel.repository.ts)  *)
(*                                                                         *)
(* Slack, Bull and mikro-orm are external.  Slack tells of the channels    *)
(* the bot is a member of; Bull hands out jobs in their order; mikro-orm   *)
(* returns an entity it has in memory without a query, flushes one after   *)
(* another, and writes the fields that differ from what it takes for the   *)
(* row.                                                                    *)
(***************************************************************************)
EXTENDS Naturals, Sequences

CONSTANTS
  Channels,   \* channels of the workspace
  Pages,      \* how conversations.list divides them: a sequence of sets, at least one
  MaxEvents,  \* events of Slack (a bound)
  MaxSyncs,   \* synchronisations, one at a time (a bound)
  ChFaults    \* the kinds of failure that may happen (a bound)

(* "enqueue": the job is not added, "slack": a call of Slack, "store": a    *)
(* flush fails, "upsert": a page is not stored, "crash": of the worker.    *)
ChFaultKinds == {"enqueue", "slack", "store", "upsert", "crash"}

ASSUME ChannelSyncAssumption ==
  /\ Pages \in Seq(SUBSET Channels) /\ Pages # <<>>
  /\ MaxEvents \in Nat /\ MaxSyncs \in Nat
  /\ ChFaults \subseteq ChFaultKinds

(* The two columns that change; None: there is no row, or no entity.       *)
Column == [isArchived : BOOLEAN, isEnabled : BOOLEAN]
None == [isArchived |-> FALSE, isEnabled |-> FALSE, absent |-> TRUE]

VARIABLES
  slack,    \* what Slack knows: is the channel archived, the bot a member
  row,      \* Channel rows
  events,   \* what Slack has told, in order, and how far each event is
  mem,      \* entities in the worker's memory
  orig,     \* what mikro-orm takes for their rows
  fresh,    \* events whose new Channel waits for the next flush
  finding,  \* events whose query for the channel is under way, in order
  flushes,  \* events whose flush is asked for, in order
  writing,  \* <<entities>> of the flush under way, <<>> when there is none
  page,     \* the page a synchronisation is at, 0 when there is none
  fetched,  \* <<channels>> of the page once it was fetched
  strangers,\* channels of a creator who has no User row
  syncs,    \* synchronisations so far
  locked,   \* rows that an abandoned transaction has locked
  astray    \* channels whose row may differ from Slack, see RowAgrees

workerVars == <<mem, orig, fresh, finding, flushes, writing>>
syncVars == <<page, fetched, strangers, syncs, locked>>
chVars == <<slack, row, events, workerVars, syncVars, astray>>

ChannelKinds == {"archive", "unarchive", "left", "joined", "member"}
Working == {"asking", "saving", "finding", "flush"}
Over == {"done", "failed"}

Entities == [Channels -> Column \cup {None}]

ChTypeOK ==
  /\ slack \in [Channels -> [archived : BOOLEAN, member : BOOLEAN]]
  /\ row \in Entities
  /\ \A n \in DOMAIN events :
       events[n] \in [stage : Over] \cup
         [channel : Channels, kind : ChannelKinds, stage : Working \cup {"queued"}]
  /\ mem \in Entities /\ orig \in Entities
  /\ \A c \in Channels : mem[c] = None <=> orig[c] = None
  /\ \A n \in fresh : events[n].stage = "flush"
  /\ \A i \in DOMAIN finding : events[finding[i]].stage = "finding"
  /\ \A i \in DOMAIN flushes : events[flushes[i]].stage \in {"saving", "flush"}
  /\ writing # <<>> => flushes # <<>>
  /\ page \in 0 .. Len(Pages) /\ syncs \in 0 .. MaxSyncs
  /\ fetched # <<>> => page # 0
  /\ strangers \subseteq Channels /\ locked \subseteq Channels /\ astray \subseteq Channels
  /\ \A c \in strangers : row[c] = None

InSlack(c) == [isArchived |-> slack[c].archived, isEnabled |-> slack[c].member]

ChInit ==
  /\ slack \in [Channels -> [archived : BOOLEAN, member : BOOLEAN]]
  /\ row \in {r \in Entities : \A c \in Channels : r[c] \in {None, InSlack(c)}}
  /\ strangers \in SUBSET {c \in Channels : row[c] = None}
  /\ events = <<>>
  /\ mem = [c \in Channels |-> None] /\ orig = mem
  /\ fresh = {} /\ finding = <<>> /\ flushes = <<>> /\ writing = <<>>
  /\ page = 0 /\ fetched = <<>> /\ syncs = 0
  /\ locked = {} /\ astray = {}

Of(c, stages) ==
  {n \in DOMAIN events : events[n].stage \in stages /\ events[n].channel = c}

(* An event goes on; of one that is over only that is kept.                *)
Move(n, s) ==
  events' = [events EXCEPT ![n] = IF s \in Over THEN [stage |-> s] ELSE [@ EXCEPT !.stage = s]]

-----------------------------------------------------------------------------
(* Slack and the endpoint                                                  *)

(* Slack tells of a channel while the bot is in it, and when it comes in.  *)
(* "member": some user joins or leaves; both are handled the same way.     *)
Change(c, kind) ==
  CASE kind = "archive" ->
         slack[c].member /\ ~slack[c].archived
         /\ slack' = [slack EXCEPT ![c].archived = TRUE]
    [] kind = "unarchive" ->
         slack[c].member /\ slack[c].archived
         /\ slack' = [slack EXCEPT ![c].archived = FALSE]
    [] kind = "left" ->
         slack[c].member
         /\ slack' = [slack EXCEPT ![c].member = FALSE]
    [] kind = "joined" ->
         ~slack[c].member /\ ~slack[c].archived
         /\ slack' = [slack EXCEPT ![c].member = TRUE]
    [] kind = "member" ->
         slack[c].member /\ ~slack[c].archived /\ UNCHANGED slack

(* The endpoint adds a job, or only logs that it could not.                *)
Tell(c, kind) ==
  /\ Len(events) < MaxEvents
  /\ Change(c, kind)
  /\ \/ /\ events' = Append(events, [channel |-> c, kind |-> kind, stage |-> "queued"])
        /\ UNCHANGED astray
     \/ /\ "enqueue" \in ChFaults
        /\ events' = Append(events, [stage |-> "failed"])
        /\ astray' = astray \cup {c}
  /\ UNCHANGED <<row, workerVars, syncVars>>

-----------------------------------------------------------------------------
(* The worker                                                              *)

(* Mutant: a job waits until those before it have ended well.              *)
TakeAfterDone(n) ==
  /\ events[n].stage = "queued"
  /\ \A m \in 1 .. n - 1 : events[m].stage = "done"
  /\ \/ /\ events[n].kind = "member"
        /\ Move(n, "asking") /\ UNCHANGED finding
     \/ /\ events[n].kind # "member"
        /\ Move(n, "finding") /\ finding' = Append(finding, n)
  /\ UNCHANGED <<slack, row, mem, orig, fresh, flushes, writing, syncVars, astray>>

(* The processor does not wait for its handler: the next job is taken at   *)
(* once.  member_joined_channel and member_left_channel ask Slack for the  *)
(* workspace first.                                                        *)
Take(n) ==
  /\ events[n].stage = "queued"
  /\ \A m \in 1 .. n - 1 : events[m].stage # "queued"
  /\ \/ /\ events[n].kind = "member"
        /\ Move(n, "asking") /\ UNCHANGED finding
     \/ /\ events[n].kind # "member"
        /\ Move(n, "finding") /\ finding' = Append(finding, n)
  /\ astray' = IF Of(events[n].channel, Working) = {} THEN astray
               ELSE astray \cup {events[n].channel}
  /\ UNCHANGED <<slack, row, mem, orig, fresh, flushes, writing, syncVars>>

(* updateWorkspace: team.info, then persistAndFlush.                       *)
Asked(n) ==
  /\ events[n].stage = "asking"
  /\ \/ /\ Move(n, "saving") /\ flushes' = Append(flushes, n)
        /\ UNCHANGED astray
     \/ /\ "slack" \in ChFaults
        /\ Move(n, "failed") /\ UNCHANGED flushes
        /\ astray' = astray \cup {events[n].channel}
  /\ UNCHANGED <<slack, row, mem, orig, fresh, finding, writing, syncVars>>

(* Mutant: member_left_channel does what its name says.                    *)
AssignedLeft(ch, kind) ==
  CASE kind = "archive"   -> [ch EXCEPT !.isArchived = TRUE]
    [] kind = "unarchive" -> [ch EXCEPT !.isArchived = FALSE]
    [] kind \in {"left", "member"} -> [ch EXCEPT !.isEnabled = FALSE]
    [] kind = "joined"    -> [isArchived |-> FALSE, isEnabled |-> TRUE]

(* What the handler of an event assigns to the channel.                    *)
Assigned(ch, kind) ==
  CASE kind = "archive"   -> [ch EXCEPT !.isArchived = TRUE]
    [] kind = "unarchive" -> [ch EXCEPT !.isArchived = FALSE]
    [] kind = "left"      -> [ch EXCEPT !.isEnabled = FALSE]
    [] kind \in {"joined", "member"} -> [isArchived |-> FALSE, isEnabled |-> TRUE]

(* findOne: the entity in memory, or else the row.                         *)
Found(c) == IF mem[c] # None THEN mem[c] ELSE row[c]

Update ==
  \E n \in {Head(finding)} :
    LET c == events[n].channel IN
    /\ Found(c) # None
    /\ mem' = [mem EXCEPT ![c] = Assigned(Found(c), events[n].kind)]
    /\ orig' = IF mem[c] = None THEN [orig EXCEPT ![c] = row[c]] ELSE orig
    /\ Move(n, "flush")
    /\ flushes' = Append(flushes, n)
    /\ finding' = Tail(finding)
    /\ UNCHANGED <<slack, row, fresh, writing, syncVars, astray>>

(* A channel that has no row: findOrCreateAndUpdate reads accessToken of   *)
(* the workspace a new Channel does not have; joinSlackChannel persists it *)
(* without its creator, so that the next flush violates a NOT NULL.        *)
Create ==
  \E n \in {Head(finding)} :
    LET c == events[n].channel IN
    /\ Found(c) = None
    /\ \/ /\ events[n].kind \in {"joined", "member"}
          /\ Move(n, "flush")
          /\ fresh' = fresh \cup {n} /\ flushes' = Append(flushes, n)
       \/ /\ events[n].kind \notin {"joined", "member"}
          /\ Move(n, "failed")
          /\ UNCHANGED <<fresh, flushes>>
    /\ finding' = Tail(finding)
    /\ UNCHANGED <<slack, row, mem, orig, writing, syncVars, astray>>

(* A flush takes all entities that differ from their rows.                 *)
Dirty == {c \in Channels : mem[c] # orig[c]}

FlushStarts ==
  /\ flushes # <<>> /\ writing = <<>> /\ fresh = {}
  /\ writing' = <<[c \in Dirty |-> mem[c]]>>
  /\ UNCHANGED <<slack, row, events, mem, orig, fresh, finding, flushes, syncVars, astray>>

(* ch with the columns in which entity differs from original.              *)
Written(ch, entity, original) ==
  [f \in DOMAIN ch |-> IF entity[f] # original[f] THEN entity[f] ELSE ch[f]]

Stored(w) ==
  [c \in Channels |-> IF c \in DOMAIN w THEN Written(row[c], w[c], orig[c]) ELSE row[c]]

(* The rows are written, as soon as nobody else has locked them.  What is  *)
(* taken for them is then the entity of before or of now: it may have been *)
(* assigned to meanwhile.                                                  *)
FlushEnds ==
  /\ writing # <<>>
  /\ DOMAIN writing[1] \cap locked = {}
  /\ row' = Stored(writing[1])
  /\ \E now \in BOOLEAN :
       orig' = [c \in Channels |->
                  IF c \notin DOMAIN writing[1] THEN orig[c]
                  ELSE IF now THEN mem[c] ELSE writing[1][c]]
  /\ writing' = <<>> /\ flushes' = Tail(flushes)
  /\ \E n \in {Head(flushes)} :
       \/ /\ events[n].stage = "saving"
          /\ Move(n, "finding") /\ finding' = Append(finding, n)
       \/ /\ events[n].stage = "flush"
          /\ Move(n, "done") /\ UNCHANGED finding
  /\ UNCHANGED <<slack, mem, fresh, syncVars, astray>>

(* A flush that fails writes nothing, whoever's entity it failed for; the  *)
(* job's catch logs it.                                                    *)
FlushFails ==
  /\ flushes # <<>> /\ writing = <<>>
  /\ fresh # {} \/ "store" \in ChFaults
  /\ fresh' = {} /\ flushes' = Tail(flushes)
  /\ Move(Head(flushes), "failed")
  /\ astray' = astray \cup {events[Head(flushes)].channel}
  /\ UNCHANGED <<slack, row, mem, orig, finding, writing, syncVars>>

(* The worker ends and starts anew.  Jobs it had taken are complete for    *)
(* Bull; the flush under way may have been carried out.                    *)
Crash ==
  /\ "crash" \in ChFaults
  /\ \E landed \in BOOLEAN :
       row' = IF landed /\ writing # <<>> /\ DOMAIN writing[1] \cap locked = {}
                THEN Stored(writing[1]) ELSE row
  /\ \E n \in DOMAIN events : events[n].stage \in Working
  /\ events' = [n \in DOMAIN events |->
                  IF events[n].stage \in Working THEN [stage |-> "failed"]
                  ELSE events[n]]
  /\ astray' = astray \cup {c \in Channels : Of(c, Working) # {}}
  /\ mem' = [c \in Channels |-> None] /\ orig' = mem'
  /\ fresh' = {} /\ finding' = <<>> /\ flushes' = <<>> /\ writing' = <<>>
  /\ UNCHANGED <<slack, syncVars>>

-----------------------------------------------------------------------------
(* A synchronisation, in the API server or by the command slack:sync       *)

(* updateWorkspace, then updateUsers, page by page: bots and deleted users *)
(* are left out, and so are the pages from one that users.list answers     *)
(* with an error, which is only logged.  Any other failure is thrown.      *)
UsersSynced ==
  /\ page = 0 /\ syncs < MaxSyncs
  /\ syncs' = syncs + 1
  /\ strangers' \in SUBSET strangers
  /\ page' \in IF "slack" \in ChFaults THEN {0, 1} ELSE {1}
  /\ UNCHANGED <<slack, row, events, workerVars, fetched, locked, astray>>

(* conversations.list: of the channels on the page, those the bot is in.   *)
Fetch ==
  /\ page # 0 /\ fetched = <<>>
  /\ fetched' = <<[c \in {d \in Pages[page] : slack[d].member} |->
                     [isArchived |-> slack[c].archived, isEnabled |-> TRUE]]>>
  /\ UNCHANGED <<slack, row, events, workerVars, page, strangers, syncs, locked, astray>>

(* The upserts of the page and their commit.  A row is astray if it now is *)
(* not what Slack says, or may not stay so: because an event of it is not  *)
(* yet applied, or because the worker takes it for another.                *)
Upsert ==
  /\ fetched # <<>> /\ DOMAIN fetched[1] \cap (strangers \cup locked) = {}
  /\ LET got == fetched[1]
         changed == {c \in DOMAIN got : row[c] # got[c]}
         sure == {c \in DOMAIN got :
                    /\ got[c] = InSlack(c) /\ mem[c] = None
                    /\ Of(c, Working \cup {"queued"}) = {}}
     IN /\ row' = [c \in Channels |-> IF c \in DOMAIN got THEN got[c] ELSE row[c]]
        /\ astray' = (astray \ sure) \cup (changed \ sure)
  /\ page' = IF page = Len(Pages) THEN 0 ELSE page + 1
  /\ fetched' = <<>>
  /\ UNCHANGED <<slack, events, workerVars, strangers, syncs, locked>>

(* An upsert fails, as it does for a channel whose creator is no User: the *)
(* synchronisation ends with its transaction open, and the rows upserted   *)
(* before in that transaction stay locked.                                 *)
UpsertFails ==
  /\ fetched # <<>>
  /\ DOMAIN fetched[1] \cap strangers # {} \/ "upsert" \in ChFaults
  /\ \E before \in SUBSET DOMAIN fetched[1] :
       /\ before \cap strangers = {}
       /\ locked' = locked \cup {c \in before : row[c] # None}
  /\ page' = 0 /\ fetched' = <<>>
  /\ UNCHANGED <<slack, row, events, workerVars, strangers, syncs, astray>>

-----------------------------------------------------------------------------

Worker ==
  \/ \E n \in DOMAIN events : Take(n) \/ Asked(n)
  \/ finding # <<>> /\ (Update \/ Create)
  \/ FlushStarts \/ FlushEnds \/ FlushFails

ChNext ==
  \/ \E c \in Channels, kind \in ChannelKinds : Tell(c, kind)
  \/ Worker \/ Crash
  \/ UsersSynced \/ Fetch \/ Upsert \/ UpsertFails

ChSpec == ChInit /\ [][ChNext]_chVars

(* The worker runs: Bull hands out jobs, Slack and Postgres answer.        *)
ChFairness == WF_chVars(Worker)

-----------------------------------------------------------------------------

(* When no event of a channel is under way its row says what Slack says,   *)
(* unless it went astray in one of these ways only: an event was lost or   *)
(* failed; two events of the channel were handled at once; or a            *)
(* synchronisation wrote it past the worker or from a page that was old.   *)
RowAgrees ==
  \A c \in Channels \ astray :
    row[c] # None /\ Of(c, Working \cup {"queued"}) = {} => row[c] = InSlack(c)

(* Every event that is queued is handled, unless a synchronisation failed  *)
(* and left rows locked: again and again there is none under way.          *)
EventsHandled ==
  []<>(locked # {} \/ \A n \in DOMAIN events : events[n].stage \in Over)

=============================================================================
