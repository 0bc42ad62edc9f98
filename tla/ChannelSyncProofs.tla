------------------------- MODULE ChannelSyncProofs -------------------------
(***************************************************************************)
(* Proofs about the Channel rows: a row says what Slack says, unless it    *)
(* went astray in one of the ways that RowAgrees names.                    *)
(***************************************************************************)
EXTENDS ChannelSync, TLAPS

-----------------------------------------------------------------------------
(* Queues of events                                                        *)

(* What is queued is an event at one of the stages, each queued once.      *)
IsQueue(q, ev, stages) ==
  /\ q \in Seq(Nat)
  /\ \A i \in DOMAIN q : q[i] \in DOMAIN ev /\ ev[q[i]].stage \in stages
  /\ \A i, j \in DOMAIN q : q[i] = q[j] => i = j

(* The first is handled; the others are as they were.                      *)
LEMMA QueuePops ==
  ASSUME NEW q, NEW ev, NEW ev2, NEW stages, IsQueue(q, ev, stages), q # <<>>,
         DOMAIN ev2 = DOMAIN ev, \A m \in DOMAIN ev : m # Head(q) => ev2[m] = ev[m]
  PROVE  /\ IsQueue(Tail(q), ev2, stages)
         /\ Head(q) \in DOMAIN ev /\ ev[Head(q)].stage \in stages
<1>1. /\ q \in Seq(Nat) /\ Len(q) \in Nat /\ Len(q) # 0 /\ DOMAIN q = 1 .. Len(q)
      /\ Head(q) = q[1]
  BY DEF IsQueue
<1>2. /\ Tail(q) \in Seq(Nat) /\ DOMAIN Tail(q) = 1 .. Len(q) - 1
      /\ \A i \in 1 .. Len(q) - 1 : Tail(q)[i] = q[i + 1]
  BY <1>1
<1>3. \A i \in 1 .. Len(q) - 1 : q[i + 1] # q[1] /\ i + 1 \in DOMAIN q
  BY <1>1 DEF IsQueue
<1>4. \A i \in DOMAIN Tail(q) : Tail(q)[i] \in DOMAIN ev2 /\ ev2[Tail(q)[i]].stage \in stages
  BY <1>1, <1>2, <1>3 DEF IsQueue
<1>5. \A i, j \in DOMAIN Tail(q) : Tail(q)[i] = Tail(q)[j] => i = j
  <2> SUFFICES ASSUME NEW i \in 1 .. Len(q) - 1, NEW j \in 1 .. Len(q) - 1, q[i + 1] = q[j + 1]
               PROVE  i = j
    BY <1>2
  <2>1. i + 1 = j + 1
    BY <1>3 DEF IsQueue
  <2>2. QED
    BY <1>1, <2>1
<1>6. QED
  BY <1>1, <1>2, <1>4, <1>5 DEF IsQueue

(* An event is queued as it comes to such a stage.                         *)
LEMMA QueuePushes ==
  ASSUME NEW q, NEW ev, NEW ev2, NEW stages, IsQueue(q, ev, stages), DOMAIN ev2 = DOMAIN ev,
         NEW n \in DOMAIN ev, n \in Nat, ev[n].stage \notin stages, ev2[n].stage \in stages,
         \A m \in DOMAIN ev : m # n => ev2[m] = ev[m]
  PROVE  IsQueue(Append(q, n), ev2, stages)
<1>1. /\ q \in Seq(Nat) /\ Len(q) \in Nat /\ DOMAIN q = 1 .. Len(q)
      /\ Append(q, n) \in Seq(Nat) /\ DOMAIN Append(q, n) = 1 .. Len(q) + 1
      /\ \A i \in 1 .. Len(q) : Append(q, n)[i] = q[i]
      /\ Append(q, n)[Len(q) + 1] = n
  BY DEF IsQueue
<1>2. \A i \in DOMAIN q : q[i] # n
  BY DEF IsQueue
<1>3. \A i \in 1 .. Len(q) + 1 : i = Len(q) + 1 \/ i \in DOMAIN q
  BY <1>1
<1>4. QED
  BY <1>1, <1>2, <1>3 DEF IsQueue

(* It stays one as long as its events stay at these stages.                *)
LEMMA QueueStays ==
  ASSUME NEW q, NEW ev, NEW ev2, NEW stages, IsQueue(q, ev, stages),
         DOMAIN ev \subseteq DOMAIN ev2,
         \A m \in DOMAIN ev : ev[m].stage \in stages => ev2[m].stage \in stages
  PROVE  IsQueue(q, ev2, stages)
BY DEF IsQueue

-----------------------------------------------------------------------------
(* Types                                                                   *)

OverEvent == [stage : Over]
LiveEvent == [channel : Channels, kind : ChannelKinds, stage : Working \cup {"queued"}]
EventType == OverEvent \cup LiveEvent

(* Slack, the rows and the entities: an entity has a row.                  *)
RowsTyped ==
  /\ slack \in [Channels -> [archived : BOOLEAN, member : BOOLEAN]]
  /\ row \in Entities /\ mem \in Entities /\ orig \in Entities
  /\ \A c \in Channels : (mem[c] = None <=> orig[c] = None) /\ (row[c] = None => mem[c] = None)

(* The events, and those of them that wait for a query or a flush.         *)
JobsTyped ==
  /\ events \in Seq(EventType)
  /\ fresh \subseteq DOMAIN events /\ \A n \in fresh : events[n].stage = "flush"
  /\ IsQueue(finding, events, {"finding"}) /\ IsQueue(flushes, events, {"saving", "flush"})
  /\ writing # <<>> => flushes # <<>> /\ Head(flushes) \notin fresh

(* The flush under way, of entities in memory.                             *)
WritingTyped ==
  writing # <<>> =>
    /\ DOMAIN writing[1] \subseteq Channels
    /\ \A c \in DOMAIN writing[1] : mem[c] # None /\ writing[1][c] \in Column

(* The synchronisation.                                                    *)
PagesTyped ==
  /\ page \in 0 .. Len(Pages) /\ syncs \in 0 .. MaxSyncs
  /\ fetched # <<>> =>
       /\ page # 0 /\ DOMAIN fetched[1] \subseteq Channels
       /\ \A c \in DOMAIN fetched[1] : fetched[1][c] \in Column
  /\ strangers \subseteq Channels /\ locked \subseteq Channels /\ astray \subseteq Channels
  /\ \A c \in strangers : row[c] = None

ChTyped == RowsTyped /\ JobsTyped /\ WritingTyped /\ PagesTyped

(* None is told from every column.                                         *)
LEMMA NoneIsNoColumn ==
  /\ None \notin Column
  /\ \A e \in Entities, c \in Channels : e[c] # None => e[c] \in Column
<1>1. None \notin Column
  <2>1. \A x \in Column : DOMAIN x = {"isArchived", "isEnabled"}
    BY DEF Column
  <2>2. "absent" \in DOMAIN None
    BY DEF None
  <2>3. QED
    BY <2>1, <2>2
<1>2. QED
  BY <1>1 DEF Entities

(* A column's fields.                                                      *)
Fields == {"isArchived", "isEnabled"}

(* A column is what its fields say.                                        *)
LEMMA ColumnFields ==
  /\ \A x \in Column : DOMAIN x = Fields /\ \A f \in Fields : x[f] \in BOOLEAN
  /\ \A x, y \in Column : (\A f \in Fields : x[f] = y[f]) => x = y
  /\ \A x : DOMAIN x = Fields /\ x = [f \in Fields |-> x[f]] /\ (\A f \in Fields : x[f] \in BOOLEAN)
       => x \in Column
<1>1. \A x \in Column : DOMAIN x = Fields /\ \A f \in Fields : x[f] \in BOOLEAN
  BY DEF Column, Fields
<1>2. \A x, y \in Column : (\A f \in Fields : x[f] = y[f]) => x = y
  BY DEF Column, Fields
<1>3. \A x : DOMAIN x = Fields /\ x = [f \in Fields |-> x[f]] /\ (\A f \in Fields : x[f] \in BOOLEAN)
        => x \in Column
  BY DEF Column, Fields
<1>4. QED
  BY <1>1, <1>2, <1>3

(* What a flush writes of an entity it knows the row of, or may not.       *)
LEMMA WrittenIsColumn ==
  ASSUME NEW ch \in Column, NEW entity \in Column, NEW original \in Column
  PROVE  /\ Written(ch, entity, original) \in Column
         /\ original = ch => Written(ch, entity, original) = entity
<1> DEFINE w == Written(ch, entity, original)
<1>1. DOMAIN w = Fields /\ w = [f \in Fields |-> w[f]]
      /\ \A f \in Fields : w[f] = IF entity[f] # original[f] THEN entity[f] ELSE ch[f]
  BY ColumnFields DEF Written
<1>2. w \in Column
  BY <1>1, ColumnFields
<1>3. original = ch => w = entity
  BY <1>1, <1>2, ColumnFields
<1>4. QED
  BY <1>2, <1>3

(* What a handler assigns.                                                 *)
Affects == [isArchived |-> {"archive", "unarchive", "joined", "member"},
            isEnabled |-> {"left", "joined", "member"}]
SetTo(kind) == [isArchived |-> kind = "archive", isEnabled |-> kind # "left"]

(* A handler assigns just the columns its event affects.                   *)
LEMMA AssignedFields ==
  ASSUME NEW ch \in Column, NEW kind \in ChannelKinds
  PROVE  /\ Assigned(ch, kind) \in Column
         /\ \A f \in Fields : Assigned(ch, kind)[f] =
              IF kind \in Affects[f] THEN SetTo(kind)[f] ELSE ch[f]
<1>1. /\ ch = [f \in Fields |-> ch[f]] /\ DOMAIN ch = Fields
      /\ ch["isArchived"] \in BOOLEAN /\ ch["isEnabled"] \in BOOLEAN
      /\ \A b \in BOOLEAN :
           /\ [ch EXCEPT !["isArchived"] = b] \in Column
           /\ [ch EXCEPT !["isArchived"] = b]["isArchived"] = b
           /\ [ch EXCEPT !["isArchived"] = b]["isEnabled"] = ch["isEnabled"]
           /\ [ch EXCEPT !["isEnabled"] = b] \in Column
           /\ [ch EXCEPT !["isEnabled"] = b]["isEnabled"] = b
           /\ [ch EXCEPT !["isEnabled"] = b]["isArchived"] = ch["isArchived"]
  BY DEF Column, Fields
<1>2. /\ \A f \in Fields : f = "isArchived" \/ f = "isEnabled"
      /\ Affects["isArchived"] = {"archive", "unarchive", "joined", "member"}
      /\ Affects["isEnabled"] = {"left", "joined", "member"}
      /\ SetTo(kind)["isArchived"] = (kind = "archive")
      /\ SetTo(kind)["isEnabled"] = (kind # "left")
  BY DEF Fields, Affects, SetTo
<1>3. CASE kind = "archive"
  <2>1. Assigned(ch, kind) = [ch EXCEPT !["isArchived"] = TRUE]
    BY <1>3 DEF Assigned
  <2>2. QED
    BY <1>1, <1>2, <1>3, <2>1
<1>4. CASE kind = "unarchive"
  <2>1. Assigned(ch, kind) = [ch EXCEPT !["isArchived"] = FALSE]
    BY <1>4 DEF Assigned
  <2>2. (kind = "archive") = FALSE
    BY <1>4
  <2>3. /\ kind \in Affects["isArchived"] /\ kind \notin Affects["isEnabled"]
        /\ Assigned(ch, kind)["isArchived"] = SetTo(kind)["isArchived"]
        /\ Assigned(ch, kind)["isEnabled"] = ch["isEnabled"]
        /\ Assigned(ch, kind) \in Column
    BY <1>1, <1>2, <1>4, <2>1, <2>2
  <2>4. QED
    BY <2>3 DEF Fields
<1>5. CASE kind = "left"
  <2>1. Assigned(ch, kind) = [ch EXCEPT !["isEnabled"] = FALSE]
    BY <1>5 DEF Assigned
  <2>2. QED
    BY <1>1, <1>2, <1>5, <2>1
<1>6. CASE kind \in {"joined", "member"}
  <2>1. Assigned(ch, kind) = [isArchived |-> FALSE, isEnabled |-> TRUE]
    BY <1>6 DEF Assigned
  <2>2. Assigned(ch, kind) \in Column
    BY <2>1 DEF Column
  <2>3. (kind = "archive") = FALSE /\ (kind # "left") = TRUE
    BY <1>6
  <2>4. /\ kind \in Affects["isArchived"] /\ kind \in Affects["isEnabled"]
        /\ SetTo(kind)["isArchived"] = FALSE /\ SetTo(kind)["isEnabled"] = TRUE
    BY <1>2, <1>6, <2>3
  <2>5. /\ Assigned(ch, kind)["isArchived"] = SetTo(kind)["isArchived"]
        /\ Assigned(ch, kind)["isEnabled"] = SetTo(kind)["isEnabled"]
    <3>1. /\ [isArchived |-> FALSE, isEnabled |-> TRUE]["isArchived"] = FALSE
          /\ [isArchived |-> FALSE, isEnabled |-> TRUE]["isEnabled"] = TRUE
      OBVIOUS
    <3>2. QED
      BY <2>1, <2>4, <3>1, Zenon
  <2>6. QED
    BY <2>2, <2>4, <2>5 DEF Fields
<1>7. QED
  BY <1>3, <1>4, <1>5, <1>6 DEF ChannelKinds

-----------------------------------------------------------------------------
(* Events go on                                                            *)

MovedTo(n, s) ==
  /\ events' \in Seq(EventType) /\ DOMAIN events' = DOMAIN events
  /\ \A m \in DOMAIN events : m # n => events'[m] = events[m]
  /\ events'[n].stage = s
  /\ s \notin Over => events'[n].channel = events[n].channel /\ events'[n].kind = events[n].kind

(* A move of an event is that, and leaves all others.                      *)
LEMMA MoveStep ==
  ASSUME events \in Seq(EventType), NEW n \in DOMAIN events, events[n].stage \notin Over,
         NEW s \in Working \cup Over, Move(n, s)
  PROVE  MovedTo(n, s) /\ events[n] \in LiveEvent /\ n \in Nat
<1>1. /\ events[n] \in EventType /\ events \in [1 .. Len(events) -> EventType]
      /\ Len(events) \in Nat /\ DOMAIN events = 1 .. Len(events)
  OBVIOUS
<1>2. events[n] \in LiveEvent
  BY <1>1 DEF EventType, OverEvent
<1>3. Over \cap Working = {}
  BY DEF Over, Working
<1>4. PICK e : /\ e = IF s \in Over THEN [stage |-> s] ELSE [events[n] EXCEPT !.stage = s]
               /\ events' = [events EXCEPT ![n] = e]
  BY DEF Move
<1>5. e \in EventType /\ e.stage = s
      /\ (s \notin Over => e.channel = events[n].channel /\ e.kind = events[n].kind)
  <2>1. CASE s \in Over
    BY <1>4, <2>1 DEF EventType, OverEvent
  <2>2. CASE s \notin Over
    BY <1>2, <1>4, <2>2 DEF EventType, LiveEvent
  <2>3. QED
    BY <2>1, <2>2
<1>6. events' \in [1 .. Len(events) -> EventType]
  BY <1>1, <1>4, <1>5
<1>7. events' \in Seq(EventType) /\ DOMAIN events' = DOMAIN events
  BY <1>1, <1>6
<1>8. QED
  BY <1>1, <1>2, <1>4, <1>5, <1>7 DEF MovedTo

-----------------------------------------------------------------------------
(* The invariant                                                           *)

(* Events not yet applied.                                                 *)
Waiting == {"queued", "asking", "saving", "finding"}

(* Jobs are taken in the order of their events.                            *)
InOrder ==
  \A m, n \in DOMAIN events :
    events[m].stage \in Working /\ events[n].stage = "queued" => m < n

(* Of a channel that is not astray one event is handled at a time;         *)
OneWorks(c) ==
  \A m, n \in Of(c, Working) : m = n

(* the last event not yet applied brings each column to what Slack says,   *)
(* and what the worker would find says it, if there is no such event;      *)
Followed(c) ==
  \A f \in Fields :
    /\ \A n \in Of(c, Waiting) :
         events[n].kind \in Affects[f]
         /\ (\A m \in Of(c, Waiting) : m > n => events[m].kind \notin Affects[f])
         => SetTo(events[n].kind)[f] = InSlack(c)[f]
    /\ Found(c) # None /\ (\A m \in Of(c, Waiting) : events[m].kind \notin Affects[f])
         => Found(c)[f] = InSlack(c)[f]

(* the row is what mikro-orm takes for it, and what the entity is unless   *)
(* its flush is to come;                                                   *)
Backed(c) ==
  /\ mem[c] # None => orig[c] = row[c]
  /\ mem[c] # None /\ Of(c, {"flush"}) = {} => mem[c] = row[c]
  /\ Of(c, {"flush"}) # {} /\ row[c] # None => mem[c] # None

(* and a flush writes the entity as it is.                                 *)
Writes(c) ==
  writing # <<>> =>
    /\ c \in DOMAIN writing[1] => writing[1][c] = mem[c] /\ Of(c, {"flush"}) # {}
    /\ c \notin DOMAIN writing[1] /\ mem[c] # None /\ Head(flushes) \in Of(c, {"flush"})
         => mem[c] = orig[c]

Agrees(c) == OneWorks(c) /\ Followed(c) /\ Backed(c) /\ Writes(c)

ChInv == ChTyped /\ InOrder /\ \A c \in Channels \ astray : Agrees(c)

(* Every event that is not over can be taken, or is taken.                 *)
Live == Working \cup {"queued"}

SameEvents(c) ==
  /\ \A n \in DOMAIN events' :
       events'[n].stage \in Live /\ events'[n].channel = c
         => n \in DOMAIN events /\ events[n] = events'[n]
  /\ \A n \in DOMAIN events :
       events[n].stage \in Live /\ events[n].channel = c
         => n \in DOMAIN events' /\ events'[n] = events[n]

(* A channel that nothing happens to agrees as before.                     *)
LEMMA AgreesStays ==
  ASSUME NEW c \in Channels, Agrees(c), SameEvents(c),
         slack'[c] = slack[c], row'[c] = row[c], mem'[c] = mem[c], orig'[c] = orig[c],
         writing' # <<>> => writing' = writing /\ Head(flushes') = Head(flushes)
  PROVE  Agrees(c)'
<1>1. \A n : n \in Of(c, Working)' <=> n \in Of(c, Working)
  BY DEF SameEvents, Of, Live
<1>2. \A n : n \in Of(c, Waiting)' <=> n \in Of(c, Waiting)
  BY DEF SameEvents, Of, Live, Waiting, Working
<1>3. \A n : n \in Of(c, {"flush"})' <=> n \in Of(c, {"flush"})
  BY DEF SameEvents, Of, Live, Working
<1>4. \A n \in Of(c, Waiting) : events'[n].kind = events[n].kind
  BY DEF SameEvents, Of, Live, Waiting, Working
<1>5. Found(c)' = Found(c) /\ InSlack(c)' = InSlack(c)
  BY DEF Found, InSlack
<1>6. OneWorks(c)'
  BY <1>1 DEF Agrees, OneWorks
<1>7. Followed(c)'
  BY <1>2, <1>4, <1>5 DEF Agrees, Followed
<1>8. Backed(c)'
  BY <1>3 DEF Agrees, Backed
<1>9. Writes(c)'
  BY <1>3 DEF Agrees, Writes
<1>10. QED
  BY <1>6, <1>7, <1>8, <1>9 DEF Agrees

(* The move of an event is nothing to the other channels,                  *)
LEMMA OthersMove ==
  ASSUME NEW n \in DOMAIN events, NEW s \in Working \cup Over, MovedTo(n, s),
         NEW c \in Channels, events[n].channel # c
  PROVE  SameEvents(c)
<1>1. Over \cap Live = {}
  BY DEF Over, Live, Working
<1>2. QED
  BY <1>1 DEF MovedTo, SameEvents

(* keeps the order,                                                        *)
LEMMA OrderStays ==
  ASSUME InOrder, events \in Seq(EventType), NEW n \in DOMAIN events, n \in Nat,
         NEW s \in Working \cup Over, MovedTo(n, s),
         \/ events[n].stage \in Working
         \/ \A m \in 1 .. n - 1 : events[m].stage # "queued"
  PROVE  InOrder'
<1>1. s # "queued"
  BY DEF Working, Over
<1>2. DOMAIN events \subseteq Nat \ {0}
  OBVIOUS
<1>3. SUFFICES ASSUME NEW k \in DOMAIN events, NEW m \in DOMAIN events,
                      events'[k].stage \in Working, events'[m].stage = "queued"
               PROVE  k < m
  BY DEF InOrder, MovedTo
<1>4. m # n /\ events[m].stage = "queued"
  BY <1>1, <1>3 DEF MovedTo
<1>5. CASE k = n /\ events[n].stage \notin Working
  <2>1. m \notin 1 .. n - 1
    BY <1>4, <1>5
  <2>2. QED
    BY <1>2, <1>4, <1>5, <2>1
<1>6. CASE k # n \/ events[n].stage \in Working
  BY <1>3, <1>4, <1>6 DEF InOrder, MovedTo
<1>7. QED
  BY <1>5, <1>6

(* and leaves one event of its channel at work.                            *)
LEMMA OneMoves ==
  ASSUME NEW n \in DOMAIN events, NEW s \in Working \cup Over, MovedTo(n, s),
         NEW c \in Channels, events[n].channel = c, OneWorks(c),
         events[n].stage \in Working \/ Of(c, Working) = {}
  PROVE  OneWorks(c)'
<1>1. SUFFICES ASSUME NEW m \in Of(c, Working)'
               PROVE  m = n
  BY <1>1 DEF OneWorks
<1>2. m \in DOMAIN events' /\ events'[m].stage \in Working /\ events'[m].channel = c
  BY DEF Of
<1>3. SUFFICES ASSUME m # n PROVE FALSE
  OBVIOUS
<1>4. m \in Of(c, Working)
  BY <1>2, <1>3 DEF MovedTo, Of
<1>5. CASE events[n].stage \in Working
  <2>1. n \in Of(c, Working)
    BY <1>5 DEF Of
  <2>2. QED
    BY <1>3, <1>4, <2>1 DEF OneWorks
<1>6. QED
  BY <1>4, <1>5

(* What the row comes to is the same, as long as the same events are to be *)
(* applied.                                                                *)
LEMMA FollowedStays ==
  ASSUME NEW c \in Channels, Followed(c), slack'[c] = slack[c], Found(c)' = Found(c),
         \A m : m \in Of(c, Waiting)' <=> m \in Of(c, Waiting),
         \A m \in Of(c, Waiting) : events'[m].kind = events[m].kind
  PROVE  Followed(c)'
BY DEF Followed, InSlack

(* An event is applied before the others of its channel: the columns it    *)
(* does not affect stay, and no event before it affects those it does.     *)
LEMMA FollowedLeaves ==
  ASSUME NEW c \in Channels, InOrder, OneWorks(c), Followed(c), events \in Seq(EventType),
         NEW n \in Of(c, Waiting), events[n].stage \in Working,
         NEW s \in Working \cup Over, s \notin Waiting, MovedTo(n, s),
         slack'[c] = slack[c],
         \/ Found(c)' = None
         \/ /\ Found(c) # None
            /\ \A f \in Fields : Found(c)'[f] =
                 IF events[n].kind \in Affects[f] THEN SetTo(events[n].kind)[f] ELSE Found(c)[f]
  PROVE  Followed(c)'
<1>1. n \in DOMAIN events /\ DOMAIN events \subseteq Nat
  BY DEF Of
<1>2. /\ \A m : m \in Of(c, Waiting)' <=> m \in Of(c, Waiting) /\ m # n
      /\ \A m \in Of(c, Waiting) : m # n => events'[m].kind = events[m].kind
  BY <1>1 DEF MovedTo, Of
<1>3. \A m \in Of(c, Waiting) : m # n => m > n
  <2> SUFFICES ASSUME NEW m \in Of(c, Waiting), m # n PROVE m > n
    OBVIOUS
  <2>1. m \in DOMAIN events /\ events[m].channel = c /\ events[m].stage \in Waiting
    BY DEF Of
  <2>2. m \notin Of(c, Working) \/ m = n
    BY <1>1 DEF OneWorks, Of
  <2>3. events[m].stage = "queued"
    BY <2>1, <2>2 DEF Of, Waiting, Working
  <2>4. QED
    BY <1>1, <2>1, <2>3 DEF InOrder
<1>4. InSlack(c)' = InSlack(c)
  BY DEF InSlack
<1>5. ASSUME NEW f \in Fields, NEW m \in Of(c, Waiting)', events'[m].kind \in Affects[f],
             \A k \in Of(c, Waiting)' : k > m => events'[k].kind \notin Affects[f]
      PROVE  SetTo(events'[m].kind)[f] = InSlack(c)'[f]
  <2>1. m \in Of(c, Waiting) /\ m # n /\ m > n /\ events'[m].kind = events[m].kind /\ m \in Nat
    BY <1>1, <1>2, <1>3, <1>5 DEF Of
  <2>2. \A k \in Of(c, Waiting) : k > m => events[k].kind \notin Affects[f]
    <3> SUFFICES ASSUME NEW k \in Of(c, Waiting), k > m PROVE events[k].kind \notin Affects[f]
      OBVIOUS
    <3>1. k # n
      BY <1>1, <2>1
    <3>2. QED
      BY <1>2, <1>5, <3>1
  <2>3. QED
    BY <1>4, <1>5, <2>1, <2>2 DEF Followed
<1>6. ASSUME NEW f \in Fields, Found(c)' # None,
             \A k \in Of(c, Waiting)' : events'[k].kind \notin Affects[f]
      PROVE  Found(c)'[f] = InSlack(c)'[f]
  <2>1. \A k \in Of(c, Waiting) : k # n => events[k].kind \notin Affects[f]
    BY <1>2, <1>6
  <2>2. CASE events[n].kind \in Affects[f]
    <3>1. \A k \in Of(c, Waiting) : k > n => events[k].kind \notin Affects[f]
      BY <1>1, <2>1
    <3>2. SetTo(events[n].kind)[f] = InSlack(c)[f]
      BY <2>2, <3>1 DEF Followed
    <3>3. Found(c)'[f] = SetTo(events[n].kind)[f]
      BY <1>6, <2>2
    <3>4. QED
      BY <1>4, <3>2, <3>3
  <2>3. CASE events[n].kind \notin Affects[f]
    <3>1. \A k \in Of(c, Waiting) : events[k].kind \notin Affects[f]
      BY <2>1, <2>3
    <3>2. Found(c)[f] = InSlack(c)[f]
      BY <1>6, <3>1 DEF Followed
    <3>3. Found(c)'[f] = Found(c)[f]
      BY <1>6, <2>3
    <3>4. QED
      BY <1>4, <3>2, <3>3
  <2>4. QED
    BY <2>2, <2>3
<1>7. QED
  BY <1>5, <1>6 DEF Followed

-----------------------------------------------------------------------------
(* The steps                                                               *)

(* At first no event was told and nothing is in memory.                    *)
LEMMA ChInitInv ==
  ASSUME ChInit
  PROVE  ChInv
<1>1. mem \in Entities /\ orig \in Entities /\ \A c \in Channels : mem[c] = None /\ orig[c] = None
  BY DEF ChInit, Entities
<1>2. RowsTyped
  BY <1>1 DEF ChInit, RowsTyped
<1>3. events \in Seq(EventType) /\ DOMAIN events = {}
  BY DEF ChInit
<1>4. IsQueue(<<>>, events, {"finding"}) /\ IsQueue(<<>>, events, {"saving", "flush"})
  BY DEF IsQueue
<1>5. JobsTyped /\ WritingTyped
  BY <1>3, <1>4 DEF ChInit, JobsTyped, WritingTyped
<1>6. PagesTyped
  <2>1. Len(Pages) \in Nat /\ MaxSyncs \in Nat
    BY ChannelSyncAssumption
  <2>2. QED
    BY <2>1 DEF ChInit, PagesTyped
<1>7. InOrder
  BY <1>3 DEF InOrder
<1>8. ASSUME NEW c \in Channels PROVE Agrees(c)
  <2>1. \A stages : Of(c, stages) = {}
    BY <1>3 DEF Of
  <2>2. Found(c) # None => Found(c) = InSlack(c)
    BY <1>1 DEF ChInit, Found
  <2>3. OneWorks(c) /\ Followed(c) /\ Backed(c) /\ Writes(c)
    BY <1>1, <2>1, <2>2 DEF ChInit, OneWorks, Followed, Backed, Writes
  <2>4. QED
    BY <2>3 DEF Agrees
<1>9. QED
  BY <1>2, <1>5, <1>6, <1>7, <1>8 DEF ChInv, ChTyped

(* Slack changes as its event says: the columns the event affects are then *)
(* what a handler sets them to, and the others are as before.              *)
LEMMA ChangeSays ==
  ASSUME RowsTyped, NEW c \in Channels, NEW kind \in ChannelKinds, Change(c, kind)
  PROVE  /\ slack' \in [Channels -> [archived : BOOLEAN, member : BOOLEAN]]
         /\ \A d \in Channels : d # c => slack'[d] = slack[d]
         /\ \A f \in Fields : InSlack(c)'[f] =
              IF kind \in Affects[f] THEN SetTo(kind)[f] ELSE InSlack(c)[f]
<1>1. /\ slack \in [Channels -> [archived : BOOLEAN, member : BOOLEAN]]
      /\ slack[c] \in [archived : BOOLEAN, member : BOOLEAN]
  BY DEF RowsTyped
<1>2. \A b \in BOOLEAN :
        /\ [slack[c] EXCEPT !.archived = b] \in [archived : BOOLEAN, member : BOOLEAN]
        /\ [slack[c] EXCEPT !.archived = b].archived = b
        /\ [slack[c] EXCEPT !.archived = b].member = slack[c].member
        /\ [slack[c] EXCEPT !.member = b] \in [archived : BOOLEAN, member : BOOLEAN]
        /\ [slack[c] EXCEPT !.member = b].member = b
        /\ [slack[c] EXCEPT !.member = b].archived = slack[c].archived
  BY <1>1
<1> DEFINE Now == /\ slack' \in [Channels -> [archived : BOOLEAN, member : BOOLEAN]]
                  /\ \A d \in Channels : d # c => slack'[d] = slack[d]
<1>3. /\ InSlack(c)["isArchived"] = slack[c].archived /\ InSlack(c)["isEnabled"] = slack[c].member
      /\ InSlack(c)'["isArchived"] = slack'[c].archived /\ InSlack(c)'["isEnabled"] = slack'[c].member
  BY DEF InSlack
<1>4. /\ \A f \in Fields : f = "isArchived" \/ f = "isEnabled"
      /\ Affects["isArchived"] = {"archive", "unarchive", "joined", "member"}
      /\ Affects["isEnabled"] = {"left", "joined", "member"}
      /\ SetTo(kind)["isArchived"] = (kind = "archive")
      /\ SetTo(kind)["isEnabled"] = (kind # "left")
  BY DEF Fields, Affects, SetTo
<1>5. CASE kind = "archive"
  <2>1. slack' = [slack EXCEPT ![c] = [slack[c] EXCEPT !.archived = TRUE]]
    BY <1>5 DEF Change
  <2>2. slack'[c].archived = TRUE /\ slack'[c].member = slack[c].member
    BY <1>1, <1>2, <2>1
  <2>3. Now
    BY <1>1, <1>2, <2>1
  <2>4. kind \in Affects["isArchived"] /\ kind \notin Affects["isEnabled"]
    BY <1>4, <1>5
  <2>5. (kind = "archive") = TRUE
    BY <1>5
  <2>6. InSlack(c)'["isArchived"] = SetTo(kind)["isArchived"]
    BY <1>3, <1>4, <2>2, <2>5, Zenon
  <2>7. InSlack(c)'["isEnabled"] = InSlack(c)["isEnabled"]
    BY <1>3, <2>2
  <2>8. QED
    BY <2>3, <2>4, <2>6, <2>7 DEF Fields
<1>6. CASE kind = "unarchive"
  <2>1. slack' = [slack EXCEPT ![c] = [slack[c] EXCEPT !.archived = FALSE]]
    BY <1>6 DEF Change
  <2>2. slack'[c].archived = FALSE /\ slack'[c].member = slack[c].member
    BY <1>1, <1>2, <2>1
  <2>3. Now
    BY <1>1, <1>2, <2>1
  <2>4. kind \in Affects["isArchived"] /\ kind \notin Affects["isEnabled"]
    BY <1>4, <1>6
  <2>5. (kind = "archive") = FALSE
    BY <1>6
  <2>6. InSlack(c)'["isArchived"] = SetTo(kind)["isArchived"]
    BY <1>3, <1>4, <2>2, <2>5, Zenon
  <2>7. InSlack(c)'["isEnabled"] = InSlack(c)["isEnabled"]
    BY <1>3, <2>2
  <2>8. QED
    BY <2>3, <2>4, <2>6, <2>7 DEF Fields
<1>7. CASE kind = "left"
  <2>1. slack' = [slack EXCEPT ![c] = [slack[c] EXCEPT !.member = FALSE]]
    BY <1>7 DEF Change
  <2>2. slack'[c].member = FALSE /\ slack'[c].archived = slack[c].archived
    BY <1>1, <1>2, <2>1
  <2>3. Now
    BY <1>1, <1>2, <2>1
  <2>4. kind \in Affects["isEnabled"] /\ kind \notin Affects["isArchived"]
    BY <1>4, <1>7
  <2>5. (kind # "left") = FALSE
    BY <1>7
  <2>6. InSlack(c)'["isEnabled"] = SetTo(kind)["isEnabled"]
    BY <1>3, <1>4, <2>2, <2>5, Zenon
  <2>7. InSlack(c)'["isArchived"] = InSlack(c)["isArchived"]
    BY <1>3, <2>2
  <2>8. QED
    BY <2>3, <2>4, <2>6, <2>7 DEF Fields
<1>8. CASE kind = "joined"
  <2>1. slack' = [slack EXCEPT ![c] = [slack[c] EXCEPT !.member = TRUE]]
    BY <1>8 DEF Change
  <2>2. slack'[c].member = TRUE /\ slack'[c].archived = slack[c].archived
    BY <1>1, <1>2, <2>1
  <2>3. Now
    BY <1>1, <1>2, <2>1
  <2>4. kind \in Affects["isArchived"] /\ kind \in Affects["isEnabled"]
    BY <1>4, <1>8
  <2>5. (kind = "archive") = FALSE /\ (kind # "left") = TRUE /\ slack[c].archived = FALSE
    BY <1>1, <1>8 DEF Change
  <2>6. InSlack(c)'["isArchived"] = SetTo(kind)["isArchived"]
    BY <1>3, <1>4, <2>2, <2>5, Zenon
  <2>7. InSlack(c)'["isEnabled"] = SetTo(kind)["isEnabled"]
    BY <1>3, <1>4, <2>2, <2>5, Zenon
  <2>8. QED
    BY <2>3, <2>4, <2>6, <2>7 DEF Fields
<1>9. CASE kind = "member"
  <2>1. slack' = slack /\ slack[c].archived = FALSE /\ slack[c].member = TRUE
    BY <1>1, <1>9 DEF Change
  <2>2. Now
    BY <1>1, <2>1
  <2>3. kind \in Affects["isArchived"] /\ kind \in Affects["isEnabled"]
    BY <1>4, <1>9
  <2>4. (kind = "archive") = FALSE /\ (kind # "left") = TRUE
    BY <1>9
  <2>5. InSlack(c)'["isArchived"] = SetTo(kind)["isArchived"]
    BY <1>3, <1>4, <2>1, <2>4, Zenon
  <2>6. InSlack(c)'["isEnabled"] = SetTo(kind)["isEnabled"]
    BY <1>3, <1>4, <2>1, <2>4, Zenon
  <2>7. QED
    BY <2>2, <2>3, <2>5, <2>6 DEF Fields
<1>10. QED
  BY <1>5, <1>6, <1>7, <1>8, <1>9 DEF ChannelKinds

(* Slack tells of a change, or the job is lost.                            *)
LEMMA TellStep ==
  ASSUME ChInv, NEW c \in Channels, NEW kind \in ChannelKinds, Tell(c, kind)
  PROVE  ChInv'
<1> DEFINE new == Len(events) + 1
<1>1. /\ events \in Seq(EventType) /\ Len(events) \in Nat /\ DOMAIN events = 1 .. Len(events)
      /\ Change(c, kind) /\ UNCHANGED <<row, mem, orig, fresh, finding, flushes, writing>>
      /\ UNCHANGED <<page, fetched, strangers, syncs, locked>>
      /\ RowsTyped /\ JobsTyped /\ WritingTyped /\ PagesTyped
  BY DEF ChInv, ChTyped, JobsTyped, Tell, workerVars, syncVars
<1>2. PICK e \in EventType :
        /\ events' = Append(events, e)
        /\ \/ e = [channel |-> c, kind |-> kind, stage |-> "queued"] /\ astray' = astray
           \/ e.stage = "failed" /\ astray' = astray \cup {c}
  <2>1. [channel |-> c, kind |-> kind, stage |-> "queued"] \in EventType
    BY DEF EventType, LiveEvent
  <2>2. [stage |-> "failed"] \in EventType
    BY DEF EventType, OverEvent, Over
  <2>3. QED
    BY <2>1, <2>2 DEF Tell
<1>3. /\ events' \in Seq(EventType) /\ DOMAIN events' = 1 .. new /\ events'[new] = e
      /\ \A m \in DOMAIN events : events'[m] = events[m] /\ m \in DOMAIN events' /\ m < new
      /\ \A m \in DOMAIN events' : m \in DOMAIN events \/ m = new
      /\ new \notin DOMAIN events
  BY <1>1, <1>2
<1>4. e.stage \notin Working /\ (e.stage = "failed" => e.stage \notin Live)
  BY <1>2 DEF Working, Live
<1>5. RowsTyped'
  BY <1>1, ChangeSays DEF RowsTyped
<1>6. JobsTyped'
  <2>1. IsQueue(finding, events', {"finding"}) /\ IsQueue(flushes, events', {"saving", "flush"})
    BY <1>1, <1>3, QueueStays DEF JobsTyped
  <2>2. QED
    BY <1>1, <1>3, <2>1 DEF JobsTyped
<1>7. WritingTyped' /\ PagesTyped'
  BY <1>1, <1>2 DEF WritingTyped, PagesTyped
<1>8. InOrder'
  <2> SUFFICES ASSUME NEW m \in DOMAIN events', NEW n \in DOMAIN events',
                      events'[m].stage \in Working, events'[n].stage = "queued"
               PROVE  m < n
    BY DEF InOrder
  <2>1. m \in DOMAIN events /\ events[m].stage \in Working
    BY <1>3, <1>4
  <2>2. CASE n = new
    BY <1>3, <2>1, <2>2
  <2>3. CASE n \in DOMAIN events
    BY <1>3, <2>1, <2>3 DEF ChInv, InOrder
  <2>4. QED
    BY <1>3, <2>2, <2>3
<1>9. ASSUME NEW d \in Channels \ astray' PROVE Agrees(d)'
  <2>1. d \in Channels \ astray /\ Agrees(d)
    BY <1>2 DEF ChInv
  <2>2. CASE d # c
    <3>1. SameEvents(d)
      BY <1>2, <1>3, <1>4, <2>2 DEF SameEvents
    <3>2. slack'[d] = slack[d]
      BY <1>1, <2>2, ChangeSays
    <3>3. QED
      BY <1>1, <2>1, <3>1, <3>2, AgreesStays
  <2>3. CASE d = c
    <3>1. e = [channel |-> c, kind |-> kind, stage |-> "queued"]
      BY <1>2, <2>3
    <3>2. /\ \A m : m \in Of(c, Waiting)' <=> m \in Of(c, Waiting) \/ m = new
          /\ \A m \in Of(c, Waiting) : events'[m].kind = events[m].kind /\ m < new /\ m # new
          /\ events'[new].kind = kind
      BY <1>3, <3>1 DEF Of, Waiting
    <3>3. /\ \A m : m \in Of(c, Working)' <=> m \in Of(c, Working)
          /\ \A m : m \in Of(c, {"flush"})' <=> m \in Of(c, {"flush"})
      BY <1>3, <3>1 DEF Of, Working
    <3>4. Found(c)' = Found(c)
      BY <1>1 DEF Found
    <3>5. \A f \in Fields : InSlack(c)'[f] =
            IF kind \in Affects[f] THEN SetTo(kind)[f] ELSE InSlack(c)[f]
      BY <1>1, ChangeSays
    <3>6. ASSUME NEW f \in Fields, NEW m \in Of(c, Waiting)', events'[m].kind \in Affects[f],
                 \A k \in Of(c, Waiting)' : k > m => events'[k].kind \notin Affects[f]
          PROVE  SetTo(events'[m].kind)[f] = InSlack(c)'[f]
      <4>1. CASE m = new
        BY <3>2, <3>5, <3>6, <4>1
      <4>2. CASE m # new
        <5>1. m \in Of(c, Waiting) /\ m \in Nat
          BY <1>1, <3>2, <4>2 DEF Of
        <5>2. new > m /\ new \in Of(c, Waiting)'
          BY <1>1, <3>2, <5>1
        <5>3. kind \notin Affects[f]
          BY <3>2, <3>6, <5>2
        <5>4. \A k \in Of(c, Waiting) : k > m => events[k].kind \notin Affects[f]
          BY <3>2, <3>6
        <5>5. SetTo(events[m].kind)[f] = InSlack(c)[f]
          BY <2>1, <2>3, <3>2, <3>6, <5>1, <5>4 DEF Agrees, Followed
        <5>6. QED
          BY <3>2, <3>5, <5>1, <5>3, <5>5
      <4>3. QED
        BY <4>1, <4>2
    <3>7. ASSUME NEW f \in Fields, Found(c)' # None,
                 \A k \in Of(c, Waiting)' : events'[k].kind \notin Affects[f]
          PROVE  Found(c)'[f] = InSlack(c)'[f]
      <4>1. kind \notin Affects[f] /\ \A k \in Of(c, Waiting) : events[k].kind \notin Affects[f]
        BY <3>2, <3>7
      <4>2. Found(c)[f] = InSlack(c)[f]
        BY <2>1, <2>3, <3>4, <3>7, <4>1 DEF Agrees, Followed
      <4>3. QED
        BY <3>4, <3>5, <4>1, <4>2
    <3>8. Followed(c)'
      BY <3>6, <3>7 DEF Followed
    <3>9. OneWorks(c)' /\ Backed(c)' /\ Writes(c)'
      BY <1>1, <2>1, <2>3, <3>3 DEF Agrees, OneWorks, Backed, Writes
    <3>10. QED
      BY <2>3, <3>8, <3>9 DEF Agrees
  <2>4. QED
    BY <2>2, <2>3
<1>10. QED
  BY <1>5, <1>6, <1>7, <1>8, <1>9 DEF ChInv, ChTyped

(* The fresh entities are of events at their flush; they stay so as long   *)
(* as these do.                                                            *)
LEMMA FreshStays ==
  ASSUME JobsTyped, NEW n \in DOMAIN events, NEW s \in Working \cup Over, MovedTo(n, s),
         events[n].stage # "flush" \/ n \notin fresh
  PROVE  /\ fresh \subseteq DOMAIN events' /\ n \notin fresh
         /\ \A m \in fresh : events'[m].stage = "flush"
BY DEF JobsTyped, MovedTo

(* A job is taken.                                                         *)
LEMMA TakeStep ==
  ASSUME ChInv, NEW n \in DOMAIN events, Take(n)
  PROVE  ChInv'
<1> DEFINE c == events[n].channel
<1>1. /\ events \in Seq(EventType) /\ events[n].stage = "queued"
      /\ \A m \in 1 .. n - 1 : events[m].stage # "queued"
      /\ UNCHANGED <<slack, row, mem, orig, fresh, flushes, writing>>
      /\ UNCHANGED <<page, fetched, strangers, syncs, locked>>
      /\ RowsTyped /\ JobsTyped /\ WritingTyped /\ PagesTyped /\ InOrder
  BY DEF ChInv, ChTyped, JobsTyped, Take, syncVars
<1>2. PICK s \in {"asking", "finding"} :
        /\ Move(n, s)
        /\ s = "asking" => UNCHANGED finding
        /\ s = "finding" => finding' = Append(finding, n)
  BY DEF Take
<1>3. s \in Working \cup Over /\ s \in Working /\ s \in Waiting /\ s # "flush"
  BY DEF Working, Waiting
<1>4. MovedTo(n, s) /\ events[n] \in LiveEvent /\ n \in Nat
  <2>1. "queued" \notin Over
    BY DEF Over
  <2>2. QED
    BY <1>1, <1>2, <1>3, <2>1, MoveStep
<1>5. c \in Channels
  BY <1>4 DEF LiveEvent
<1>6. astray' = IF Of(c, Working) = {} THEN astray ELSE astray \cup {c}
  BY DEF Take
<1>7. RowsTyped'
  BY <1>1 DEF RowsTyped
<1>8. JobsTyped'
  <2>1. IsQueue(flushes, events', {"saving", "flush"})
    BY <1>1, <1>4, QueueStays DEF JobsTyped, MovedTo
  <2>2. IsQueue(finding', events', {"finding"})
    <3>1. CASE s = "asking"
      <4>1. \A m \in DOMAIN events : events[m].stage \in {"finding"} => events'[m].stage \in {"finding"}
        BY <1>1, <1>4 DEF MovedTo
      <4>2. QED
        BY <1>1, <1>2, <1>4, <3>1, <4>1, QueueStays DEF JobsTyped, MovedTo
    <3>2. CASE s = "finding"
      <4>1. events[n].stage \notin {"finding"} /\ events'[n].stage \in {"finding"}
        BY <1>1, <1>4, <3>2 DEF MovedTo
      <4>2. /\ DOMAIN events' = DOMAIN events /\ n \in Nat /\ IsQueue(finding, events, {"finding"})
            /\ \A m \in DOMAIN events : m # n => events'[m] = events[m]
        BY <1>1, <1>4 DEF MovedTo, JobsTyped
      <4>3. IsQueue(Append(finding, n), events', {"finding"})
        BY <4>1, <4>2, QueuePushes
      <4>4. QED
        BY <1>2, <3>2, <4>3
    <3>3. QED
      BY <3>1, <3>2
  <2>3. QED
    BY <1>1, <1>3, <1>4, <2>1, <2>2, FreshStays DEF JobsTyped, MovedTo
<1>9. WritingTyped' /\ PagesTyped'
  BY <1>1, <1>5, <1>6 DEF WritingTyped, PagesTyped
<1>10. InOrder'
  BY <1>1, <1>3, <1>4, OrderStays
<1>11. ASSUME NEW d \in Channels \ astray' PROVE Agrees(d)'
  <2>1. d \in Channels \ astray /\ Agrees(d)
    BY <1>6 DEF ChInv
  <2>2. CASE d # c
    <3>1. SameEvents(d)
      BY <1>3, <1>4, <2>2, OthersMove
    <3>2. QED
      BY <1>1, <2>1, <3>1, AgreesStays
  <2>3. CASE d = c
    <3>1. Of(d, Working) = {}
      BY <1>6, <2>3
    <3>2. OneWorks(d)'
      BY <1>3, <1>4, <1>5, <2>1, <2>3, <3>1, OneMoves DEF Agrees
    <3>3. /\ \A m : m \in Of(d, Waiting)' <=> m \in Of(d, Waiting)
          /\ \A m \in Of(d, Waiting) : events'[m].kind = events[m].kind
      BY <1>1, <1>3, <1>4 DEF Of, MovedTo, Waiting, Working, Over
    <3>4. Followed(d)'
      BY <1>1, <1>5, <2>1, <2>3, <3>3, FollowedStays DEF Agrees, Found
    <3>5. \A m : m \in Of(d, {"flush"})' <=> m \in Of(d, {"flush"})
      BY <1>1, <1>3, <1>4 DEF Of, MovedTo
    <3>6. Backed(d)' /\ Writes(d)'
      BY <1>1, <2>1, <2>3, <3>5 DEF Agrees, Backed, Writes
    <3>7. QED
      BY <2>3, <3>2, <3>4, <3>6 DEF Agrees
  <2>4. QED
    BY <2>2, <2>3
<1>12. QED
  BY <1>7, <1>8, <1>9, <1>10, <1>11 DEF ChInv, ChTyped

(* Slack has told of the workspace, or it fails.                           *)
LEMMA AskedStep ==
  ASSUME ChInv, NEW n \in DOMAIN events, Asked(n)
  PROVE  ChInv'
<1> DEFINE c == events[n].channel
<1>1. /\ events \in Seq(EventType) /\ events[n].stage = "asking"
      /\ UNCHANGED <<slack, row, mem, orig, fresh, finding, writing>>
      /\ UNCHANGED <<page, fetched, strangers, syncs, locked>>
      /\ RowsTyped /\ JobsTyped /\ WritingTyped /\ PagesTyped /\ InOrder
  BY DEF ChInv, ChTyped, JobsTyped, Asked, syncVars
<1>2. PICK s \in {"saving", "failed"} :
        /\ Move(n, s)
        /\ s = "saving" => flushes' = Append(flushes, n) /\ astray' = astray
        /\ s = "failed" => UNCHANGED flushes /\ astray' = astray \cup {c}
  BY DEF Asked
<1>3. s \in Working \cup Over /\ s # "flush" /\ "asking" \in Working /\ "asking" \notin Over
  BY DEF Working, Over
<1>4. MovedTo(n, s) /\ events[n] \in LiveEvent /\ n \in Nat
  BY <1>1, <1>2, <1>3, MoveStep
<1>5. c \in Channels
  BY <1>4 DEF LiveEvent
<1>6. RowsTyped'
  BY <1>1 DEF RowsTyped
<1>7. JobsTyped' /\ (writing' # <<>> => Head(flushes') = Head(flushes))
  <2>1. \A m \in DOMAIN events : events[m].stage \in {"finding"} => events'[m].stage \in {"finding"}
    BY <1>1, <1>4 DEF MovedTo
  <2>2. IsQueue(finding, events', {"finding"})
    BY <1>1, <1>4, <2>1, QueueStays DEF JobsTyped, MovedTo
  <2>3. CASE s = "saving"
    <3>1. IsQueue(flushes', events', {"saving", "flush"})
      <4>1. /\ events[n].stage \notin {"saving", "flush"}
            /\ events'[n].stage \in {"saving", "flush"}
        BY <1>1, <1>4, <2>3 DEF MovedTo
      <4>2. /\ DOMAIN events' = DOMAIN events /\ n \in Nat
            /\ IsQueue(flushes, events, {"saving", "flush"})
            /\ \A m \in DOMAIN events : m # n => events'[m] = events[m]
        BY <1>1, <1>4 DEF MovedTo, JobsTyped
      <4>3. IsQueue(Append(flushes, n), events', {"saving", "flush"})
        BY <4>1, <4>2, QueuePushes
      <4>4. QED
        BY <1>2, <2>3, <4>3
    <3>2. flushes \in Seq(Nat) /\ flushes' = Append(flushes, n)
      BY <1>1, <1>2, <2>3 DEF JobsTyped, IsQueue
    <3>3. flushes # <<>> => flushes' # <<>> /\ Head(flushes') = Head(flushes)
      BY <1>4, <3>2
    <3>4. QED
      BY <1>1, <1>3, <1>4, <2>2, <3>1, <3>3, FreshStays DEF JobsTyped, MovedTo
  <2>4. CASE s = "failed"
    <3>1. \A m \in DOMAIN events : events[m].stage \in {"saving", "flush"}
            => events'[m].stage \in {"saving", "flush"}
      BY <1>1, <1>4 DEF MovedTo
    <3>2. IsQueue(flushes, events', {"saving", "flush"})
      BY <1>1, <1>4, <3>1, QueueStays DEF JobsTyped, MovedTo
    <3>3. QED
      BY <1>1, <1>2, <1>3, <1>4, <2>2, <2>4, <3>2, FreshStays DEF JobsTyped, MovedTo
  <2>5. QED
    BY <2>3, <2>4
<1>8. WritingTyped' /\ PagesTyped'
  BY <1>1, <1>2, <1>5 DEF WritingTyped, PagesTyped
<1>9. InOrder'
  BY <1>1, <1>3, <1>4, OrderStays
<1>10. ASSUME NEW d \in Channels \ astray' PROVE Agrees(d)'
  <2>1. d \in Channels \ astray /\ Agrees(d)
    BY <1>2 DEF ChInv
  <2>2. CASE d # c
    <3>1. SameEvents(d)
      BY <1>3, <1>4, <2>2, OthersMove
    <3>2. QED
      BY <1>1, <1>7, <2>1, <3>1, AgreesStays
  <2>3. CASE d = c
    <3>1. s = "saving"
      BY <1>2, <2>3
    <3>2. OneWorks(d)'
      BY <1>1, <1>3, <1>4, <1>5, <2>1, <2>3, OneMoves DEF Agrees
    <3>3. /\ \A m : m \in Of(d, Waiting)' <=> m \in Of(d, Waiting)
          /\ \A m \in Of(d, Waiting) : events'[m].kind = events[m].kind
      BY <1>1, <1>4, <3>1 DEF Of, MovedTo, Waiting, Over
    <3>4. Followed(d)'
      BY <1>1, <1>5, <2>1, <2>3, <3>3, FollowedStays DEF Agrees, Found
    <3>5. \A m : m \in Of(d, {"flush"})' <=> m \in Of(d, {"flush"})
      BY <1>1, <1>3, <1>4 DEF Of, MovedTo
    <3>6. Backed(d)' /\ Writes(d)'
      BY <1>1, <1>7, <2>1, <2>3, <3>5 DEF Agrees, Backed, Writes
    <3>7. QED
      BY <2>3, <3>2, <3>4, <3>6 DEF Agrees
  <2>4. QED
    BY <2>2, <2>3
<1>11. QED
  BY <1>6, <1>7, <1>8, <1>9, <1>10 DEF ChInv, ChTyped

(* The first in a queue is an event of a channel.                          *)
LEMMA HeadIs ==
  ASSUME JobsTyped, NEW q, NEW stages \in SUBSET Working, IsQueue(q, events, stages), q # <<>>
  PROVE  /\ Head(q) \in DOMAIN events /\ Head(q) \in Nat
         /\ events[Head(q)].stage \in stages /\ events[Head(q)] \in LiveEvent
<1>1. Head(q) \in DOMAIN events /\ events[Head(q)].stage \in stages
  BY QueuePops
<1>2. events[Head(q)] \in EventType /\ Head(q) \in Nat
  BY <1>1 DEF JobsTyped
<1>3. Over \cap Working = {}
  BY DEF Over, Working
<1>4. QED
  BY <1>1, <1>2, <1>3 DEF EventType, OverEvent

(* A handler assigns to the channel it found.                              *)
LEMMA UpdateStep ==
  ASSUME ChInv, finding # <<>>, Update
  PROVE  ChInv'
<1>1. /\ events \in Seq(EventType)
      /\ RowsTyped /\ JobsTyped /\ WritingTyped /\ PagesTyped /\ InOrder
  BY DEF ChInv, ChTyped, JobsTyped
<1>2. PICK n : n = Head(finding)
  OBVIOUS
<1>3. /\ n \in DOMAIN events /\ n \in Nat /\ events[n].stage = "finding" /\ events[n] \in LiveEvent
  BY <1>1, <1>2, HeadIs DEF JobsTyped, Working
<1>4. PICK c \in Channels : c = events[n].channel
  BY <1>3 DEF LiveEvent
<1>5. /\ Found(c) # None
      /\ mem' = [mem EXCEPT ![c] = Assigned(Found(c), events[n].kind)]
      /\ orig' = IF mem[c] = None THEN [orig EXCEPT ![c] = row[c]] ELSE orig
      /\ Move(n, "flush") /\ flushes' = Append(flushes, n) /\ finding' = Tail(finding)
      /\ UNCHANGED <<slack, row, fresh, writing, astray>>
      /\ UNCHANGED <<page, fetched, strangers, syncs, locked>>
  BY <1>2, <1>4 DEF Update, syncVars
<1>6. /\ "flush" \in Working \cup Over /\ "flush" \in Working /\ "flush" \notin Waiting /\ "flush" \notin Over
      /\ "finding" \in Working /\ "finding" \in Waiting /\ "finding" \notin Over
  BY DEF Working, Over, Waiting
<1>7. MovedTo(n, "flush")
  BY <1>1, <1>3, <1>5, <1>6, MoveStep
<1>8. /\ row[c] # None /\ row[c] \in Column /\ Found(c) \in Column
      /\ mem \in Entities /\ orig \in Entities
  BY <1>1, <1>5, NoneIsNoColumn DEF RowsTyped, Found
<1>9. /\ Assigned(Found(c), events[n].kind) \in Column
      /\ \A f \in Fields : Assigned(Found(c), events[n].kind)[f] =
           IF events[n].kind \in Affects[f] THEN SetTo(events[n].kind)[f] ELSE Found(c)[f]
  <2>1. events[n].kind \in ChannelKinds
    BY <1>3 DEF LiveEvent
  <2>2. QED
    BY <1>8, <2>1, AssignedFields
<1>10. /\ mem' \in Entities /\ mem'[c] = Assigned(Found(c), events[n].kind)
       /\ mem'[c] \in Column /\ mem'[c] # None
       /\ \A d \in Channels : d # c => mem'[d] = mem[d]
  BY <1>5, <1>8, <1>9, NoneIsNoColumn DEF Entities
<1>11. /\ orig' \in Entities /\ orig'[c] = (IF mem[c] = None THEN row[c] ELSE orig[c])
       /\ orig'[c] # None
       /\ \A d \in Channels : d # c => orig'[d] = orig[d]
  BY <1>1, <1>5, <1>8 DEF Entities, RowsTyped
<1>12. RowsTyped'
  BY <1>1, <1>5, <1>8, <1>10, <1>11 DEF RowsTyped
<1>13. flushes \in Seq(Nat) /\ (flushes # <<>> => flushes' # <<>> /\ Head(flushes') = Head(flushes))
  <2>1. flushes \in Seq(Nat)
    BY <1>1 DEF JobsTyped, IsQueue
  <2>2. QED
    BY <1>3, <1>5, <2>1
<1>14. JobsTyped'
  <2>1. /\ DOMAIN events' = DOMAIN events
        /\ \A m \in DOMAIN events : m # n => events'[m] = events[m]
        /\ events[n].stage \notin {"saving", "flush"} /\ events'[n].stage \in {"saving", "flush"}
    BY <1>3, <1>7 DEF MovedTo
  <2>2. IsQueue(finding, events, {"finding"}) /\ IsQueue(flushes, events, {"saving", "flush"})
    BY <1>1 DEF JobsTyped
  <2>3. IsQueue(Tail(finding), events', {"finding"})
    BY <1>2, <2>1, <2>2, QueuePops
  <2>4. IsQueue(Append(flushes, n), events', {"saving", "flush"})
    BY <1>3, <2>1, <2>2, QueuePushes
  <2>5. QED
    BY <1>1, <1>3, <1>5, <1>6, <1>7, <1>13, <2>3, <2>4, FreshStays DEF JobsTyped, MovedTo
<1>15. WritingTyped'
  BY <1>1, <1>5, <1>10 DEF WritingTyped
<1>16. PagesTyped'
  BY <1>1, <1>5 DEF PagesTyped
<1>17. InOrder'
  BY <1>1, <1>3, <1>6, <1>7, OrderStays
<1>18. ASSUME NEW d \in Channels \ astray' PROVE Agrees(d)'
  <2>1. d \in Channels \ astray /\ Agrees(d)
    BY <1>5 DEF ChInv
  <2>2. CASE d # c
    <3>1. SameEvents(d)
      BY <1>3, <1>4, <1>6, <1>7, <2>2, OthersMove
    <3>2. writing' # <<>> => writing' = writing /\ Head(flushes') = Head(flushes)
      BY <1>1, <1>5, <1>13 DEF JobsTyped
    <3>3. QED
      BY <1>5, <1>10, <1>11, <2>1, <2>2, <3>1, <3>2, AgreesStays
  <2>3. CASE d = c
    <3>1. n \in Of(c, Waiting) /\ n \in Of(c, Working)
      BY <1>3, <1>4, <1>6 DEF Of
    <3>2. OneWorks(c)'
      BY <1>3, <1>4, <1>6, <1>7, <2>1, <2>3, OneMoves DEF Agrees
    <3>3. Found(c)' = Assigned(Found(c), events[n].kind)
      BY <1>10 DEF Found
    <3>4. Followed(c)'
      BY <1>1, <1>3, <1>5, <1>6, <1>7, <1>9, <2>1, <2>3, <3>1, <3>3, FollowedLeaves DEF Agrees
    <3>5. Of(c, {"flush"}) = {} /\ n \in Of(c, {"flush"})'
      <4>1. ASSUME NEW m \in Of(c, {"flush"}) PROVE FALSE
        <5>1. m \in Of(c, Working) /\ events[m].stage = "flush"
          BY <1>6 DEF Of
        <5>2. m = n
          BY <2>1, <2>3, <3>1, <5>1 DEF Agrees, OneWorks
        <5>3. QED
          BY <1>3, <5>1, <5>2
      <4>2. n \in Of(c, {"flush"})'
        <5>1. n \in DOMAIN events' /\ events'[n].stage = "flush" /\ events'[n].channel = c
          BY <1>3, <1>4, <1>6, <1>7 DEF MovedTo
        <5>2. QED
          BY <5>1 DEF Of
      <4>3. QED
        BY <4>1, <4>2
    <3>6. Backed(c)'
      BY <1>5, <1>10, <1>11, <2>1, <2>3, <3>5 DEF Agrees, Backed
    <3>7. Writes(c)'
      <4>1. SUFFICES ASSUME writing # <<>>
                     PROVE  c \notin DOMAIN writing[1] /\ Head(flushes) \notin Of(c, {"flush"})'
        BY <1>1, <1>5, <1>13 DEF Writes, JobsTyped
      <4>2. c \notin DOMAIN writing[1]
        BY <2>1, <2>3, <3>5, <4>1 DEF Agrees, Writes
      <4>3. Head(flushes) \in DOMAIN events /\ events[Head(flushes)].stage \in {"saving", "flush"}
        BY <1>1, <4>1, HeadIs DEF JobsTyped, Working
      <4>4. PICK h : h = Head(flushes)
        OBVIOUS
      <4>5. h # n /\ events'[h] = events[h] /\ h \notin Of(c, {"flush"})
        BY <1>3, <1>7, <3>5, <4>3, <4>4 DEF MovedTo
      <4>6. h \notin Of(c, {"flush"})'
        BY <1>7, <4>5 DEF Of, MovedTo
      <4>7. QED
        BY <4>2, <4>4, <4>6
    <3>8. QED
      BY <2>3, <3>2, <3>4, <3>6, <3>7 DEF Agrees
  <2>4. QED
    BY <2>2, <2>3
<1>19. QED
  BY <1>12, <1>14, <1>15, <1>16, <1>17, <1>18 DEF ChInv, ChTyped

(* A handler finds no channel: it adds one, or fails.                      *)
LEMMA CreateStep ==
  ASSUME ChInv, finding # <<>>, Create
  PROVE  ChInv'
<1>1. /\ events \in Seq(EventType)
      /\ RowsTyped /\ JobsTyped /\ WritingTyped /\ PagesTyped /\ InOrder
  BY DEF ChInv, ChTyped, JobsTyped
<1>2. PICK n : n = Head(finding)
  OBVIOUS
<1>3. /\ n \in DOMAIN events /\ n \in Nat /\ events[n].stage = "finding" /\ events[n] \in LiveEvent
  BY <1>1, <1>2, HeadIs DEF JobsTyped, Working
<1>4. PICK c \in Channels : c = events[n].channel
  BY <1>3 DEF LiveEvent
<1>5. /\ Found(c) = None /\ finding' = Tail(finding)
      /\ UNCHANGED <<slack, row, mem, orig, writing, astray>>
      /\ UNCHANGED <<page, fetched, strangers, syncs, locked>>
  BY <1>2, <1>4 DEF Create, syncVars
<1>6. PICK s \in {"flush", "failed"} :
        /\ Move(n, s)
        /\ s = "flush" => fresh' = fresh \cup {n} /\ flushes' = Append(flushes, n)
        /\ s = "failed" => UNCHANGED <<fresh, flushes>>
  BY <1>2 DEF Create
<1>7. /\ s \in Working \cup Over /\ s \notin Waiting /\ (s = "flush" => s \notin Over)
      /\ "finding" \in Working /\ "finding" \in Waiting /\ "finding" \notin Over
      /\ "flush" \in Working
  BY DEF Working, Over, Waiting
<1>8. MovedTo(n, s)
  BY <1>1, <1>3, <1>6, <1>7, MoveStep
<1>9. /\ DOMAIN events' = DOMAIN events /\ events'[n].stage = s
      /\ \A m \in DOMAIN events : m # n => events'[m] = events[m]
  BY <1>8 DEF MovedTo
<1>10. row[c] = None /\ mem[c] = None
  BY <1>1, <1>5 DEF Found, RowsTyped
<1>11. RowsTyped'
  BY <1>1, <1>5 DEF RowsTyped
<1>12. JobsTyped' /\ (writing' # <<>> => Head(flushes') = Head(flushes))
  <2>1. IsQueue(finding, events, {"finding"}) /\ IsQueue(flushes, events, {"saving", "flush"})
    BY <1>1 DEF JobsTyped
  <2>2. IsQueue(finding', events', {"finding"})
    BY <1>2, <1>5, <1>9, <2>1, QueuePops
  <2>3. CASE s = "flush"
    <3>1. events[n].stage \notin {"saving", "flush"} /\ events'[n].stage \in {"saving", "flush"}
      BY <1>3, <1>9, <2>3
    <3>2. IsQueue(Append(flushes, n), events', {"saving", "flush"})
      BY <1>3, <1>9, <2>1, <3>1, QueuePushes
    <3>3. flushes \in Seq(Nat) /\ flushes' = Append(flushes, n)
      BY <1>6, <2>1, <2>3 DEF IsQueue
    <3>4. flushes # <<>> => flushes' # <<>> /\ Head(flushes') = Head(flushes)
      BY <1>3, <3>3
    <3>5. flushes # <<>> => Head(flushes) # n
      BY <1>1, <1>3, <2>1, HeadIs DEF Working
    <3>6. fresh' = fresh \cup {n} /\ fresh' \subseteq DOMAIN events'
          /\ \A m \in fresh' : events'[m].stage = "flush"
      BY <1>1, <1>3, <1>6, <1>7, <1>8, <1>9, <2>3, FreshStays DEF JobsTyped
    <3>7. QED
      BY <1>1, <1>5, <1>8, <2>2, <3>2, <3>3, <3>4, <3>5, <3>6 DEF JobsTyped, MovedTo
  <2>4. CASE s = "failed"
    <3>1. \A m \in DOMAIN events : events[m].stage \in {"saving", "flush"}
            => events'[m].stage \in {"saving", "flush"}
      BY <1>3, <1>9
    <3>2. IsQueue(flushes, events', {"saving", "flush"})
      BY <1>9, <2>1, <3>1, QueueStays
    <3>3. QED
      BY <1>1, <1>3, <1>5, <1>6, <1>7, <1>8, <2>2, <2>4, <3>2, FreshStays DEF JobsTyped, MovedTo
  <2>5. QED
    BY <2>3, <2>4
<1>13. WritingTyped' /\ PagesTyped'
  BY <1>1, <1>5 DEF WritingTyped, PagesTyped
<1>14. InOrder'
  BY <1>1, <1>3, <1>7, <1>8, OrderStays
<1>15. ASSUME NEW d \in Channels \ astray' PROVE Agrees(d)'
  <2>1. d \in Channels \ astray /\ Agrees(d)
    BY <1>5 DEF ChInv
  <2>2. CASE d # c
    <3>1. SameEvents(d)
      BY <1>3, <1>4, <1>7, <1>8, <2>2, OthersMove
    <3>2. QED
      BY <1>5, <1>12, <2>1, <3>1, AgreesStays
  <2>3. CASE d = c
    <3>1. n \in Of(c, Waiting) /\ n \in Of(c, Working)
      BY <1>3, <1>4, <1>7 DEF Of
    <3>2. OneWorks(c)'
      BY <1>3, <1>4, <1>7, <1>8, <2>1, <2>3, OneMoves DEF Agrees
    <3>3. Found(c)' = None
      BY <1>5, <1>10 DEF Found
    <3>4. Followed(c)'
      BY <1>1, <1>3, <1>5, <1>7, <1>8, <2>1, <2>3, <3>1, <3>3, FollowedLeaves DEF Agrees
    <3>5. Backed(c)'
      BY <1>5, <1>10 DEF Backed
    <3>6. Writes(c)'
      <4>1. SUFFICES ASSUME writing # <<>> PROVE c \notin DOMAIN writing[1]
        BY <1>5, <1>10 DEF Writes
      <4>2. QED
        BY <1>1, <1>10, <4>1 DEF WritingTyped
    <3>7. QED
      BY <2>3, <3>2, <3>4, <3>5, <3>6 DEF Agrees
  <2>4. QED
    BY <2>2, <2>3
<1>16. QED
  BY <1>11, <1>12, <1>13, <1>14, <1>15 DEF ChInv, ChTyped

(* A flush starts with the entities that differ.                           *)
LEMMA FlushStartsStep ==
  ASSUME ChInv, FlushStarts
  PROVE  ChInv'
<1>1. /\ flushes # <<>> /\ fresh = {} /\ writing = <<>>
      /\ UNCHANGED <<slack, row, events, mem, orig, fresh, finding, flushes, astray>>
      /\ UNCHANGED <<page, fetched, strangers, syncs, locked>>
      /\ RowsTyped /\ JobsTyped /\ WritingTyped /\ PagesTyped /\ InOrder
  BY DEF ChInv, ChTyped, FlushStarts, syncVars
<1>2. /\ writing' # <<>> /\ writing'[1] = [c \in Dirty |-> mem[c]] /\ DOMAIN writing'[1] = Dirty
      /\ \A c \in Dirty : writing'[1][c] = mem[c]
  BY DEF FlushStarts
<1>3. RowsTyped' /\ JobsTyped' /\ PagesTyped' /\ InOrder'
  BY <1>1 DEF RowsTyped, JobsTyped, PagesTyped, InOrder
<1>4. \A c \in Dirty : c \in Channels /\ mem[c] # None /\ mem[c] \in Column
  BY <1>1, NoneIsNoColumn DEF Dirty, RowsTyped
<1>5. WritingTyped'
  BY <1>1, <1>2, <1>4 DEF WritingTyped
<1>6. ASSUME NEW c \in Channels \ astray' PROVE Agrees(c)'
  <2>1. Agrees(c)
    BY <1>1 DEF ChInv
  <2>2. OneWorks(c)' /\ Followed(c)' /\ Backed(c)'
    BY <1>1, <2>1 DEF Agrees, OneWorks, Followed, Backed, Of, Found, InSlack
  <2>3. CASE c \in Dirty
    <3>1. mem[c] # orig[c] /\ mem[c] # None
      BY <1>4, <2>3 DEF Dirty
    <3>2. Of(c, {"flush"}) # {}
      BY <2>1, <3>1 DEF Agrees, Backed
    <3>3. Writes(c)'
      BY <1>1, <1>2, <2>3, <3>2 DEF Writes, Of
    <3>4. QED
      BY <2>2, <3>3 DEF Agrees
  <2>4. CASE c \notin Dirty
    <3>1. mem[c] = orig[c]
      BY <2>4 DEF Dirty
    <3>2. QED
      BY <1>1, <1>2, <2>2, <2>4, <3>1 DEF Agrees, Writes
  <2>5. QED
    BY <2>3, <2>4
<1>7. QED
  BY <1>3, <1>5, <1>6 DEF ChInv, ChTyped

(* What a flush leaves in the rows.                                        *)
LEMMA StoredIs ==
  ASSUME RowsTyped, WritingTyped, writing # <<>>
  PROVE  /\ Stored(writing[1]) \in Entities
         /\ \A c \in Channels : Stored(writing[1])[c] = None <=> row[c] = None
         /\ \A c \in Channels : c \notin DOMAIN writing[1] => Stored(writing[1])[c] = row[c]
         /\ \A c \in DOMAIN writing[1] : orig[c] = row[c] => Stored(writing[1])[c] = writing[1][c]
<1>1. \A c \in Channels :
        Stored(writing[1])[c] =
          IF c \in DOMAIN writing[1] THEN Written(row[c], writing[1][c], orig[c]) ELSE row[c]
  BY DEF Stored
<1>2. ASSUME NEW c \in DOMAIN writing[1]
      PROVE  /\ c \in Channels /\ row[c] # None
             /\ Written(row[c], writing[1][c], orig[c]) \in Column
             /\ orig[c] = row[c] => Written(row[c], writing[1][c], orig[c]) = writing[1][c]
  <2>1. c \in Channels /\ mem[c] # None /\ writing[1][c] \in Column
    BY DEF WritingTyped
  <2>2. row[c] # None /\ orig[c] # None
    BY <2>1 DEF RowsTyped
  <2>3. row[c] \in Column /\ orig[c] \in Column
    BY <2>1, <2>2, NoneIsNoColumn DEF RowsTyped
  <2>4. QED
    BY <2>1, <2>2, <2>3, WrittenIsColumn
<1>3. \A c \in Channels : Stored(writing[1])[c] \in Column \cup {None}
  BY <1>1, <1>2 DEF RowsTyped, Entities
<1>4. Stored(writing[1]) = [c \in Channels |-> Stored(writing[1])[c]]
  BY DEF Stored
<1>5. Stored(writing[1]) \in Entities
  BY <1>3, <1>4 DEF Entities
<1>6. QED
  BY <1>1, <1>2, <1>5, NoneIsNoColumn

(* A flush ends: its job is over, or goes on to look for its channel.      *)
LEMMA FlushEndsStep ==
  ASSUME ChInv, FlushEnds
  PROVE  ChInv'
<1>1. /\ events \in Seq(EventType) /\ writing # <<>> /\ writing' = <<>>
      /\ row' = Stored(writing[1]) /\ flushes' = Tail(flushes)
      /\ UNCHANGED <<slack, mem, fresh, astray>>
      /\ UNCHANGED <<page, fetched, strangers, syncs, locked>>
      /\ RowsTyped /\ JobsTyped /\ WritingTyped /\ PagesTyped /\ InOrder
  BY DEF ChInv, ChTyped, JobsTyped, FlushEnds, syncVars
<1>2. PICK now \in BOOLEAN :
        orig' = [c \in Channels |->
                   IF c \notin DOMAIN writing[1] THEN orig[c]
                   ELSE IF now THEN mem[c] ELSE writing[1][c]]
  BY DEF FlushEnds
<1>3. PICK n : n = Head(flushes)
  OBVIOUS
<1>4. /\ flushes # <<>> /\ n \in DOMAIN events /\ n \in Nat /\ n \notin fresh
      /\ events[n].stage \in {"saving", "flush"} /\ events[n] \in LiveEvent
  BY <1>1, <1>3, HeadIs DEF JobsTyped, Working
<1>5. PICK c \in Channels : c = events[n].channel
  BY <1>4 DEF LiveEvent
<1>6. PICK s \in {"finding", "done"} :
        /\ Move(n, s)
        /\ s = "finding" => events[n].stage = "saving" /\ finding' = Append(finding, n)
        /\ s = "done" => events[n].stage = "flush" /\ UNCHANGED finding
  BY <1>3 DEF FlushEnds
<1>7. /\ s \in Working \cup Over /\ events[n].stage \in Working /\ events[n].stage \notin Over
      /\ events[n].stage \in Live /\ s # "flush" /\ (s = "finding" => s \notin Over)
  BY <1>4 DEF Working, Over, Live
<1>8. MovedTo(n, s)
  BY <1>1, <1>4, <1>6, <1>7, MoveStep
<1>9. /\ DOMAIN events' = DOMAIN events /\ events'[n].stage = s /\ events' \in Seq(EventType)
      /\ \A m \in DOMAIN events : m # n => events'[m] = events[m]
      /\ s = "finding" => events'[n].channel = c /\ events'[n].kind = events[n].kind
  BY <1>5, <1>7, <1>8 DEF MovedTo
<1>10. /\ row' \in Entities /\ \A d \in Channels : row'[d] = None <=> row[d] = None
       /\ \A d \in Channels : d \notin DOMAIN writing[1] => row'[d] = row[d] /\ orig'[d] = orig[d]
  BY <1>1, <1>2, StoredIs
<1>11. /\ orig' \in Entities
       /\ \A d \in Channels : (mem[d] = None <=> orig'[d] = None)
  BY <1>1, <1>2, NoneIsNoColumn DEF RowsTyped, WritingTyped, Entities
<1>12. RowsTyped'
  BY <1>1, <1>10, <1>11 DEF RowsTyped
<1>13. JobsTyped'
  <2>1. IsQueue(finding, events, {"finding"}) /\ IsQueue(flushes, events, {"saving", "flush"})
    BY <1>1 DEF JobsTyped
  <2>2. IsQueue(flushes', events', {"saving", "flush"})
    BY <1>1, <1>3, <1>4, <1>9, <2>1, QueuePops
  <2>3. IsQueue(finding', events', {"finding"})
    <3>1. CASE s = "finding"
      <4>1. events[n].stage \notin {"finding"} /\ events'[n].stage \in {"finding"}
        BY <1>4, <1>9, <3>1
      <4>2. IsQueue(Append(finding, n), events', {"finding"})
        BY <1>4, <1>9, <2>1, <4>1, QueuePushes
      <4>3. QED
        BY <1>6, <3>1, <4>2
    <3>2. CASE s = "done"
      <4>1. \A m \in DOMAIN events : events[m].stage \in {"finding"} => events'[m].stage \in {"finding"}
        BY <1>4, <1>9
      <4>2. IsQueue(finding, events', {"finding"})
        BY <1>9, <2>1, <4>1, QueueStays
      <4>3. QED
        BY <1>6, <3>2, <4>2
    <3>3. QED
      BY <3>1, <3>2
  <2>4. fresh \subseteq DOMAIN events' /\ \A m \in fresh : events'[m].stage = "flush"
    BY <1>1, <1>4, <1>7, <1>8, FreshStays
  <2>5. QED
    BY <1>1, <1>9, <2>2, <2>3, <2>4 DEF JobsTyped
<1>14. WritingTyped' /\ PagesTyped'
  BY <1>1, <1>10 DEF WritingTyped, PagesTyped
<1>15. InOrder'
  BY <1>1, <1>4, <1>7, <1>8, OrderStays
<1>16. ASSUME NEW d \in Channels \ astray' PROVE Agrees(d)'
  <2>1. d \in Channels \ astray /\ Agrees(d)
    BY <1>1 DEF ChInv
  <2>2. d \in DOMAIN writing[1] => mem[d] # None /\ row'[d] = mem[d] /\ orig'[d] = mem[d]
    <3>1. SUFFICES ASSUME d \in DOMAIN writing[1]
                   PROVE  mem[d] # None /\ row'[d] = mem[d] /\ orig'[d] = mem[d]
      OBVIOUS
    <3>2. mem[d] # None /\ writing[1][d] = mem[d] /\ orig[d] = row[d]
      BY <1>1, <2>1, <3>1 DEF Agrees, Backed, Writes, WritingTyped
    <3>3. row'[d] = writing[1][d]
      BY <1>1, <3>1, <3>2, StoredIs
    <3>4. orig'[d] = mem[d]
      BY <1>2, <3>1, <3>2
    <3>5. QED
      BY <3>2, <3>3, <3>4
  <2>3. Found(d)' = Found(d) /\ Writes(d)' /\ (mem[d] # None => orig'[d] = row'[d])
    BY <1>1, <1>10, <2>1, <2>2 DEF Found, Writes, Agrees, Backed
  <2>4. CASE d # c
    <3>1. SameEvents(d)
      BY <1>4, <1>5, <1>7, <1>8, <2>4, OthersMove
    <3>2. /\ \A m : m \in Of(d, Working)' <=> m \in Of(d, Working)
          /\ \A m : m \in Of(d, Waiting)' <=> m \in Of(d, Waiting)
          /\ \A m : m \in Of(d, {"flush"})' <=> m \in Of(d, {"flush"})
          /\ \A m \in Of(d, Waiting) : events'[m].kind = events[m].kind
      BY <3>1 DEF SameEvents, Of, Live, Waiting, Working
    <3>3. OneWorks(d)'
      BY <2>1, <3>2 DEF Agrees, OneWorks
    <3>4. Followed(d)'
      BY <1>1, <2>1, <2>3, <3>2, FollowedStays DEF Agrees
    <3>5. Backed(d)'
      BY <1>1, <1>10, <2>1, <2>2, <2>3, <3>2 DEF Agrees, Backed
    <3>6. QED
      BY <2>3, <3>3, <3>4, <3>5 DEF Agrees
  <2>5. CASE d = c
    <3>1. OneWorks(d)'
      BY <1>4, <1>5, <1>7, <1>8, <2>1, <2>5, OneMoves DEF Agrees
    <3>2. /\ \A m : m \in Of(d, Waiting)' <=> m \in Of(d, Waiting)
          /\ \A m \in Of(d, Waiting) : events'[m].kind = events[m].kind
      BY <1>4, <1>5, <1>6, <1>9, <2>5 DEF Of, Waiting
    <3>3. Followed(d)'
      BY <1>1, <2>1, <2>3, <3>2, FollowedStays DEF Agrees
    <3>4. \A m : m \in Of(d, {"flush"})' <=> m \in Of(d, {"flush"}) /\ m # n
      BY <1>7, <1>9 DEF Of
    <3>5. mem[d] # None => mem[d] = row'[d] \/ Of(d, {"flush"})' # {}
      <4>1. CASE d \in DOMAIN writing[1]
        BY <2>2, <4>1
      <4>2. CASE d \notin DOMAIN writing[1] /\ events[n].stage = "flush"
        <5>1. Head(flushes) \in Of(d, {"flush"})
          BY <1>3, <1>4, <1>5, <2>5, <4>2 DEF Of
        <5>2. mem[d] # None => mem[d] = orig[d]
          BY <1>1, <2>1, <4>2, <5>1 DEF Agrees, Writes
        <5>3. QED
          BY <1>10, <2>1, <2>3, <4>2, <5>2
      <4>3. CASE d \notin DOMAIN writing[1] /\ events[n].stage # "flush"
        <5>1. n \notin Of(d, {"flush"})
          BY <4>3 DEF Of
        <5>2. QED
          BY <1>10, <2>1, <3>4, <4>3, <5>1 DEF Agrees, Backed
      <4>4. QED
        BY <4>1, <4>2, <4>3
    <3>6. Backed(d)'
      BY <1>1, <1>10, <2>1, <2>3, <3>4, <3>5 DEF Agrees, Backed
    <3>7. QED
      BY <2>3, <3>1, <3>3, <3>6 DEF Agrees
  <2>6. QED
    BY <2>4, <2>5
<1>17. QED
  BY <1>12, <1>13, <1>14, <1>15, <1>16 DEF ChInv, ChTyped

(* A flush fails: the channel of its job is astray.                        *)
LEMMA FlushFailsStep ==
  ASSUME ChInv, FlushFails
  PROVE  ChInv'
<1>1. /\ events \in Seq(EventType) /\ flushes # <<>> /\ writing = <<>> /\ writing' = <<>>
      /\ fresh' = {} /\ flushes' = Tail(flushes)
      /\ UNCHANGED <<slack, row, mem, orig, finding>>
      /\ UNCHANGED <<page, fetched, strangers, syncs, locked>>
      /\ RowsTyped /\ JobsTyped /\ WritingTyped /\ PagesTyped /\ InOrder
  BY DEF ChInv, ChTyped, JobsTyped, FlushFails, syncVars
<1>2. PICK n : n = Head(flushes)
  OBVIOUS
<1>3. /\ n \in DOMAIN events /\ n \in Nat
      /\ events[n].stage \in {"saving", "flush"} /\ events[n] \in LiveEvent
  BY <1>1, <1>2, HeadIs DEF JobsTyped, Working
<1>4. PICK c \in Channels : c = events[n].channel
  BY <1>3 DEF LiveEvent
<1>5. Move(n, "failed") /\ astray' = astray \cup {c}
  BY <1>2, <1>4 DEF FlushFails
<1>6. /\ "failed" \in Working \cup Over /\ events[n].stage \in Working
      /\ events[n].stage \notin Over
  BY <1>3 DEF Working, Over
<1>7. MovedTo(n, "failed")
  BY <1>1, <1>3, <1>5, <1>6, MoveStep
<1>8. /\ DOMAIN events' = DOMAIN events /\ events' \in Seq(EventType)
      /\ \A m \in DOMAIN events : m # n => events'[m] = events[m]
  BY <1>7 DEF MovedTo
<1>9. RowsTyped' /\ WritingTyped' /\ PagesTyped'
  BY <1>1, <1>5 DEF RowsTyped, WritingTyped, PagesTyped
<1>10. JobsTyped'
  <2>1. IsQueue(finding, events, {"finding"}) /\ IsQueue(flushes, events, {"saving", "flush"})
    BY <1>1 DEF JobsTyped
  <2>2. IsQueue(flushes', events', {"saving", "flush"})
    BY <1>1, <1>2, <1>8, <2>1, QueuePops
  <2>3. \A m \in DOMAIN events : events[m].stage \in {"finding"} => events'[m].stage \in {"finding"}
    BY <1>3, <1>8
  <2>4. IsQueue(finding, events', {"finding"})
    BY <1>8, <2>1, <2>3, QueueStays
  <2>5. QED
    BY <1>1, <1>8, <2>2, <2>4 DEF JobsTyped
<1>11. InOrder'
  BY <1>1, <1>3, <1>6, <1>7, OrderStays
<1>12. ASSUME NEW d \in Channels \ astray' PROVE Agrees(d)'
  <2>1. Agrees(d) /\ d # c
    BY <1>5 DEF ChInv
  <2>2. SameEvents(d)
    BY <1>3, <1>4, <1>6, <1>7, <2>1, OthersMove
  <2>3. QED
    BY <1>1, <2>1, <2>2, AgreesStays
<1>13. QED
  BY <1>9, <1>10, <1>11, <1>12 DEF ChInv, ChTyped

(* The worker ends: what it had not taken is left, and its channel's row   *)
(* is what the worker would have found.                                    *)
LEMMA CrashStep ==
  ASSUME ChInv, Crash
  PROVE  ChInv'
<1>1. /\ events \in Seq(EventType) /\ Len(events) \in Nat /\ DOMAIN events = 1 .. Len(events)
      /\ mem' = [c \in Channels |-> None] /\ orig' = mem'
      /\ fresh' = {} /\ finding' = <<>> /\ flushes' = <<>> /\ writing' = <<>>
      /\ UNCHANGED slack /\ UNCHANGED <<page, fetched, strangers, syncs, locked>>
      /\ RowsTyped /\ JobsTyped /\ WritingTyped /\ PagesTyped /\ InOrder
  BY DEF ChInv, ChTyped, JobsTyped, Crash, syncVars
<1>2. /\ DOMAIN events' = DOMAIN events
      /\ \A n \in DOMAIN events :
           events'[n] = IF events[n].stage \in Working THEN [stage |-> "failed"] ELSE events[n]
      /\ events' = [n \in DOMAIN events |-> events'[n]]
  BY DEF Crash
<1>3. row' = row \/ (writing # <<>> /\ row' = Stored(writing[1]))
  BY DEF Crash
<1>4. /\ row' \in Entities /\ \A c \in Channels : row'[c] = None <=> row[c] = None
      /\ \A c \in Channels : (writing # <<>> => c \notin DOMAIN writing[1]) => row'[c] = row[c]
  BY <1>1, <1>3, StoredIs DEF RowsTyped
<1>5. RowsTyped'
  <2>1. mem' \in Entities /\ \A c \in Channels : mem'[c] = None
    BY <1>1 DEF Entities
  <2>2. QED
    BY <1>1, <1>4, <2>1 DEF RowsTyped
<1>6. events' \in Seq(EventType)
  <2>1. [stage |-> "failed"] \in EventType
    BY DEF EventType, OverEvent, Over
  <2>2. \A n \in 1 .. Len(events) : events'[n] \in EventType
    BY <1>1, <1>2, <2>1
  <2>3. QED
    BY <1>1, <1>2, <2>2
<1>7. JobsTyped' /\ WritingTyped'
  <2>1. IsQueue(<<>>, events', {"finding"}) /\ IsQueue(<<>>, events', {"saving", "flush"})
    BY DEF IsQueue
  <2>2. QED
    BY <1>1, <1>6, <2>1 DEF JobsTyped, WritingTyped
<1>8. astray' = astray \cup {c \in Channels : Of(c, Working) # {}}
  BY DEF Crash
<1>9. PagesTyped'
  BY <1>1, <1>4, <1>8 DEF PagesTyped
<1>10. \A n \in DOMAIN events : events'[n].stage \notin Working
  <2>1. "failed" \notin Working
    BY DEF Working
  <2>2. QED
    BY <1>2, <2>1
<1>11. InOrder'
  BY <1>2, <1>10 DEF InOrder
<1>12. ASSUME NEW c \in Channels \ astray' PROVE Agrees(c)'
  <2>1. Agrees(c) /\ Of(c, Working) = {}
    BY <1>8 DEF ChInv
  <2>2. Of(c, {"flush"}) = {}
    BY <2>1 DEF Of, Working
  <2>3. row'[c] = row[c]
    BY <1>4, <2>1, <2>2 DEF Agrees, Writes
  <2>4. mem'[c] = None
    BY <1>1
  <2>5. Found(c)' = Found(c)
    <3>1. Found(c)' = row[c]
      BY <2>3, <2>4 DEF Found
    <3>2. Found(c) = row[c]
      BY <2>1, <2>2 DEF Agrees, Backed, Found
    <3>3. QED
      BY <3>1, <3>2
  <2>6. /\ \A m : m \notin Of(c, Working)' /\ m \notin Of(c, {"flush"})'
        /\ \A m : m \in Of(c, Waiting)' <=> m \in Of(c, Waiting)
        /\ \A m \in Of(c, Waiting) : events'[m].kind = events[m].kind
    <3>1. "failed" \notin Waiting /\ "flush" \in Working
      BY DEF Waiting, Working
    <3>2. \A m \in DOMAIN events : events[m].stage \in Working => events[m].channel # c
      BY <2>1 DEF Of
    <3>3. QED
      BY <1>2, <1>10, <3>1, <3>2 DEF Of
  <2>7. OneWorks(c)'
    BY <2>6 DEF OneWorks
  <2>8. Followed(c)'
    BY <1>1, <2>1, <2>5, <2>6, FollowedStays DEF Agrees
  <2>9. Backed(c)' /\ Writes(c)'
    BY <1>1, <2>4, <2>6 DEF Backed, Writes
  <2>10. QED
    BY <2>7, <2>8, <2>9 DEF Agrees
<1>13. QED
  BY <1>5, <1>7, <1>9, <1>11, <1>12 DEF ChInv, ChTyped

(* A synchronisation that does not write to the channels.                  *)
LEMMA SyncStep ==
  ASSUME ChInv, UsersSynced \/ Fetch \/ UpsertFails
  PROVE  ChInv'
<1>1. /\ UNCHANGED <<slack, row, events, mem, orig, fresh, finding, flushes, writing, astray>>
      /\ RowsTyped /\ JobsTyped /\ WritingTyped /\ PagesTyped /\ InOrder
  BY DEF ChInv, ChTyped, UsersSynced, Fetch, UpsertFails, workerVars
<1>2. RowsTyped' /\ JobsTyped' /\ WritingTyped' /\ InOrder'
  BY <1>1 DEF RowsTyped, JobsTyped, WritingTyped, InOrder
<1>3. Pages \in Seq(SUBSET Channels) /\ Len(Pages) \in Nat \ {0} /\ MaxSyncs \in Nat
  BY ChannelSyncAssumption
<1>4. PagesTyped'
  <2>1. CASE UsersSynced
    <3>1. page' \in {0, 1} /\ syncs' \in 0 .. MaxSyncs /\ page = 0 /\ fetched' = fetched
          /\ strangers' \subseteq strangers /\ locked' = locked
      BY <1>1, <1>3, <2>1 DEF UsersSynced, PagesTyped
    <3>2. QED
      BY <1>1, <1>3, <3>1 DEF PagesTyped
  <2>2. CASE Fetch
    <3>1. /\ page # 0 /\ fetched' # <<>>
          /\ fetched'[1] = [c \in {d \in Pages[page] : slack[d].member} |->
                             [isArchived |-> slack[c].archived, isEnabled |-> TRUE]]
          /\ UNCHANGED <<page, strangers, syncs, locked>>
      BY <2>2 DEF Fetch
    <3>2. page \in 1 .. Len(Pages)
      BY <1>1, <1>3, <3>1 DEF PagesTyped
    <3>3. Pages[page] \subseteq Channels
      BY <1>3, <3>2
    <3>4. /\ DOMAIN fetched'[1] \subseteq Channels
          /\ \A c \in DOMAIN fetched'[1] :
               fetched'[1][c] = [isArchived |-> slack[c].archived, isEnabled |-> TRUE]
      BY <3>1, <3>3
    <3>5. \A c \in Channels : slack[c].archived \in BOOLEAN
      BY <1>1 DEF RowsTyped
    <3>6. \A b \in BOOLEAN : [isArchived |-> b, isEnabled |-> TRUE] \in Column
      BY DEF Column
    <3>7. \A c \in DOMAIN fetched'[1] : fetched'[1][c] \in Column
      BY <3>4, <3>5, <3>6
    <3>8. QED
      BY <1>1, <3>1, <3>4, <3>7 DEF PagesTyped
  <2>3. CASE UpsertFails
    <3>1. /\ page' = 0 /\ fetched' = <<>> /\ fetched # <<>> /\ UNCHANGED <<strangers, syncs>>
          /\ \E before \in SUBSET DOMAIN fetched[1] :
               locked' = locked \cup {c \in before : row[c] # None}
      BY <2>3 DEF UpsertFails
    <3>2. locked' \subseteq Channels
      BY <1>1, <3>1 DEF PagesTyped
    <3>3. QED
      BY <1>1, <1>3, <3>1, <3>2 DEF PagesTyped
  <2>4. QED
    BY <2>1, <2>2, <2>3
<1>5. ASSUME NEW c \in Channels \ astray' PROVE Agrees(c)'
  BY <1>1, AgreesStays DEF SameEvents, ChInv
<1>6. QED
  BY <1>2, <1>4, <1>5 DEF ChInv, ChTyped

(* A page is written: what it changes is astray, or is as Slack says.      *)
LEMMA UpsertStep ==
  ASSUME ChInv, Upsert
  PROVE  ChInv'
<1>1. /\ UNCHANGED <<slack, events, mem, orig, fresh, finding, flushes, writing>>
      /\ UNCHANGED <<strangers, syncs, locked>>
      /\ fetched # <<>> /\ fetched' = <<>> /\ DOMAIN fetched[1] \cap strangers = {}
      /\ page' = IF page = Len(Pages) THEN 0 ELSE page + 1
      /\ RowsTyped /\ JobsTyped /\ WritingTyped /\ PagesTyped /\ InOrder
  BY DEF ChInv, ChTyped, Upsert, workerVars
<1> DEFINE got == fetched[1]
           changed == {c \in DOMAIN got : row[c] # got[c]}
           sure == {c \in DOMAIN got :
                      /\ got[c] = InSlack(c) /\ mem[c] = None
                      /\ Of(c, Working \cup {"queued"}) = {}}
<1>2. /\ row' = [c \in Channels |-> IF c \in DOMAIN got THEN got[c] ELSE row[c]]
      /\ astray' = (astray \ sure) \cup (changed \ sure)
  BY DEF Upsert
<1>3. DOMAIN got \subseteq Channels /\ \A c \in DOMAIN got : got[c] \in Column
  BY <1>1 DEF PagesTyped
<1>4. /\ row' \in Entities
      /\ \A c \in Channels : row'[c] = None => row[c] = None
      /\ \A c \in strangers : row'[c] = row[c]
  BY <1>1, <1>2, <1>3, NoneIsNoColumn DEF RowsTyped, PagesTyped, Entities
<1>5. RowsTyped'
  BY <1>1, <1>4 DEF RowsTyped
<1>6. JobsTyped' /\ WritingTyped' /\ InOrder'
  BY <1>1 DEF JobsTyped, WritingTyped, InOrder
<1>7. PagesTyped'
  <2>1. page' \in 0 .. Len(Pages)
    BY <1>1, ChannelSyncAssumption DEF PagesTyped
  <2>2. astray' \subseteq Channels
    BY <1>1, <1>2, <1>3 DEF PagesTyped
  <2>3. QED
    BY <1>1, <1>4, <2>1, <2>2 DEF PagesTyped
<1>8. ASSUME NEW c \in Channels \ astray' PROVE Agrees(c)'
  <2>1. CASE c \in sure
    <3>1. /\ row'[c] = InSlack(c)' /\ mem'[c] = None
          /\ Of(c, Working \cup {"queued"})' = {}
      BY <1>1, <1>2, <1>3, <2>1 DEF InSlack, Of
    <3>2. Of(c, Working)' = {} /\ Of(c, Waiting)' = {} /\ Of(c, {"flush"})' = {}
      BY <3>1 DEF Of, Waiting, Working
    <3>3. Found(c)' = InSlack(c)'
      BY <3>1 DEF Found
    <3>4. OneWorks(c)' /\ Followed(c)' /\ Backed(c)'
      BY <3>1, <3>2, <3>3 DEF OneWorks, Followed, Backed
    <3>5. Writes(c)'
      BY <1>6, <3>1 DEF Writes, WritingTyped
    <3>6. QED
      BY <3>4, <3>5 DEF Agrees
  <2>2. CASE c \notin sure
    <3>1. c \notin astray /\ c \notin changed
      BY <1>2, <2>2
    <3>2. row'[c] = row[c]
      BY <1>2, <3>1
    <3>3. Agrees(c)
      BY <3>1 DEF ChInv
    <3>4. QED
      BY <1>1, <3>2, <3>3, AgreesStays DEF SameEvents
  <2>3. QED
    BY <2>1, <2>2
<1>9. QED
  BY <1>5, <1>6, <1>7, <1>8 DEF ChInv, ChTyped

-----------------------------------------------------------------------------
(* The theorems                                                            *)

(* Every step preserves the invariant.                                     *)
LEMMA ChNextInv ==
  ASSUME ChInv, [ChNext]_chVars
  PROVE  ChInv'
<1>1. CASE \E c \in Channels, kind \in ChannelKinds : Tell(c, kind)
  BY <1>1, TellStep
<1>2. CASE Worker
  <2>1. CASE \E n \in DOMAIN events : Take(n)
    BY <2>1, TakeStep
  <2>2. CASE \E n \in DOMAIN events : Asked(n)
    BY <2>2, AskedStep
  <2>3. QED
    BY <1>2, <2>1, <2>2, UpdateStep, CreateStep, FlushStartsStep, FlushEndsStep, FlushFailsStep
    DEF Worker
<1>3. CASE UNCHANGED chVars
  <2>1. UNCHANGED <<slack, row, events, mem, orig, fresh, finding, flushes, writing>>
        /\ UNCHANGED <<page, fetched, strangers, syncs, locked, astray>>
    BY <1>3 DEF chVars, workerVars, syncVars
  <2>2. RowsTyped' /\ JobsTyped' /\ WritingTyped' /\ PagesTyped' /\ InOrder'
    BY <2>1 DEF ChInv, ChTyped, RowsTyped, JobsTyped, WritingTyped, PagesTyped, InOrder
  <2>3. ASSUME NEW c \in Channels \ astray' PROVE Agrees(c)'
    BY <2>1, AgreesStays DEF SameEvents, ChInv
  <2>4. QED
    BY <2>2, <2>3 DEF ChInv, ChTyped
<1>4. QED
  BY <1>1, <1>2, <1>3, CrashStep, SyncStep, UpsertStep DEF ChNext

(* The invariant holds at all times.                                       *)
LEMMA ChInvHolds == ChSpec => []ChInv
<1>1. ChInv /\ [ChNext]_chVars => ChInv'
  BY ChNextInv
<1>2. QED
  BY <1>1, ChInitInv, PTL DEF ChSpec

(* The invariant's types are those of the module.                          *)
LEMMA ChInvTyped == ASSUME ChInv PROVE ChTypeOK
<1>1. RowsTyped /\ JobsTyped /\ PagesTyped
  BY DEF ChInv, ChTyped
<1>2. \A n \in DOMAIN events :
        events[n] \in [stage : Over] \cup
          [channel : Channels, kind : ChannelKinds, stage : Working \cup {"queued"}]
  BY <1>1 DEF JobsTyped, EventType, OverEvent, LiveEvent
<1>3. QED
  BY <1>1, <1>2 DEF ChTypeOK, RowsTyped, JobsTyped, PagesTyped, IsQueue

(* Rows, entities, jobs and pages are of their types.                      *)
THEOREM ChTypeCorrect == ChSpec => []ChTypeOK
<1>1. ChInv => ChTypeOK
  BY ChInvTyped
<1>2. QED
  BY <1>1, ChInvHolds, PTL

(* When no event of a channel is under way its row says what Slack says,   *)
(* unless an event was lost or failed, two were handled at once, or a      *)
(* synchronisation wrote the row past the worker or from an old page.      *)
THEOREM RowAgreesHolds == ChSpec => []RowAgrees
<1>1. ChInv => RowAgrees
  <2> SUFFICES ASSUME ChInv, NEW c \in Channels \ astray, row[c] # None,
                      Of(c, Working \cup {"queued"}) = {}
               PROVE  row[c] = InSlack(c)
    BY DEF RowAgrees
  <2>1. Agrees(c) /\ RowsTyped
    BY DEF ChInv, ChTyped
  <2>2. Of(c, Waiting) = {} /\ Of(c, {"flush"}) = {}
    BY DEF Of, Waiting, Working
  <2>3. Found(c) = row[c]
    BY <2>1, <2>2 DEF Agrees, Backed, Found
  <2>4. \A f \in Fields : row[c][f] = InSlack(c)[f]
    BY <2>1, <2>2, <2>3 DEF Agrees, Followed
  <2>5. row[c] \in Column /\ InSlack(c) \in Column
    <3>1. row[c] \in Column
      BY <2>1, NoneIsNoColumn DEF RowsTyped
    <3>2. slack[c].archived \in BOOLEAN /\ slack[c].member \in BOOLEAN
      BY <2>1 DEF RowsTyped
    <3>3. \A a, b \in BOOLEAN : [isArchived |-> a, isEnabled |-> b] \in Column
      BY DEF Column
    <3>4. QED
      BY <3>1, <3>2, <3>3 DEF InSlack
  <2>6. QED
    BY <2>4, <2>5, ColumnFields
<1>2. QED
  BY <1>1, ChInvHolds, PTL

=============================================================================
