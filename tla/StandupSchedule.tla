-------------------------- MODULE StandupSchedule --------------------------
(***************************************************************************)
(* When a team starts: the days, start and time zone of its form, the mask *)
(* of its row, and the query of the notifier at every tick.                *)
(* (src/frontend/src/app/pages/team/team-form, src/src/entity/team.ts,      *)
(* entity/timezone.ts, services/utils.ts, repository/team.repository.ts)   *)
(*                                                                         *)
(* Postgres and its time zones are external: "at time zone name" follows   *)
(* the zone's clock, also when that is put forward or back, whereas        *)
(* timezone.utc_offset is a column that was filled once.  The clock of the *)
(* notifier's host shows UTC.                                              *)
(***************************************************************************)
EXTENDS Integers, FiniteSetsExt

CONSTANTS
  Day,        \* ticks of a day
  Offsets,    \* offsets of a time zone from UTC, in ticks
  FormDays,   \* days of the week that a form may choose from
  FirstTick,  \* the notifier starts, tick 0 being Monday 0:00 UTC
  MaxTick,    \* the notifier ends (a bound)
  MaxChanges  \* edits of the team and shifts of the clock (a bound)

ASSUME StandupScheduleAssumption ==
  /\ Day \in Nat \ {0} /\ Offsets \subseteq Int
  /\ FormDays \subseteq 1 .. 7
  /\ FirstTick \in Nat /\ MaxTick \in Nat /\ FirstTick <= MaxTick
  /\ MaxChanges \in Nat

VARIABLES
  tick,      \* minutes, or a coarser measure
  chosen,    \* the days the user last chose
  mask,      \* Team.scheduleBitmask
  start,     \* Team.start
  utcOffset, \* Timezone.utc_offset
  zone,      \* the offset that the zone's clock has
  changes,   \* so far
  since,     \* tick of the last change
  started    \* ticks at which findByStart returned the team

scheduleVars == <<tick, chosen, mask, start, utcOffset, zone, changes, since, started>>

weekDayBits == <<1, 2, 4, 8, 16, 32, 64>>

(* submit: the OR of the bits of the days that are ticked.  No two days    *)
(* share a bit, so that it is their sum.                                   *)
ScheduleBitmask(days) ==
  LET bit(d) == IF d \in days THEN weekDayBits[d] ELSE 0
  IN bit(1) + bit(2) + bit(3) + bit(4) + bit(5) + bit(6) + bit(7)

(* mask & bit, in the form as in bit(7) of Postgres.                       *)
HasBit(m, bit) == (m \div bit) % 2 = 1

ShownDays == {d \in 1 .. 7 : HasBit(mask, weekDayBits[d])}

IsoDow(n) == 1 + ((n \div Day) % 7)

ScheduleTypeOK ==
  /\ tick \in FirstTick .. MaxTick /\ since \in FirstTick .. tick
  /\ chosen \in (SUBSET FormDays) \ {{}}
  /\ mask \in 1 .. 127
  /\ start \in 0 .. Day - 1
  /\ utcOffset \in Offsets /\ zone \in Offsets
  /\ changes \in 0 .. MaxChanges
  /\ started \subseteq FirstTick .. tick - 1

ScheduleInit ==
  /\ tick = FirstTick /\ since = FirstTick
  /\ chosen \in (SUBSET FormDays) \ {{}}
  /\ mask = ScheduleBitmask(chosen)
  /\ start \in 0 .. Day - 1
  /\ utcOffset \in Offsets /\ zone \in Offsets
  /\ changes = 0 /\ started = {}

(* Mutant: the day of the week is that of UTC.                             *)
MatchesInUtc(n) ==
  /\ (start - utcOffset) % Day = n % Day
  /\ HasBit(mask, weekDayBits[IsoDow(n)])

(* findByStart: team.start::time - utc_offset wraps at midnight; the day   *)
(* of the week is that of the zone.                                        *)
Matches(n) ==
  /\ (start - utcOffset) % Day = n % Day
  /\ HasBit(mask, weekDayBits[IsoDow(n + zone)])

(* interval$: one query for each tick.                                     *)
Minute ==
  /\ tick < MaxTick
  /\ tick' = tick + 1
  /\ started' = IF Matches(tick) THEN started \cup {tick} ELSE started
  /\ UNCHANGED <<chosen, mask, start, utcOffset, zone, changes, since>>

Changed ==
  /\ changes < MaxChanges
  /\ changes' = changes + 1 /\ since' = tick

(* The form shows the days of the mask, one box is clicked, and the form   *)
(* is saved unless no day is left.                                         *)
EditDays(d) ==
  /\ Changed
  /\ LET shown == SymDiff(ShownDays, {d}) IN
     /\ shown # {}
     /\ mask' = ScheduleBitmask(shown)
  /\ chosen' = SymDiff(chosen, {d})
  /\ UNCHANGED <<tick, start, utcOffset, zone, started>>

(* Summer time begins or ends in the team's zone.                          *)
Shift(o) ==
  /\ Changed
  /\ o # zone /\ zone' = o
  /\ UNCHANGED <<tick, chosen, mask, start, utcOffset, started>>

ScheduleNext ==
  \/ Minute
  \/ \E d \in FormDays : EditDays(d)
  \/ \E o \in Offsets : Shift(o)

ScheduleSpec == ScheduleInit /\ [][ScheduleNext]_scheduleVars

(* On each day of the team's zone, from midnight to midnight there, the    *)
(* team starts once when the user chose that day of the week and else not  *)
(* at all; at the time the user chose as long as the zone has the offset   *)
(* of the column.  Days in which the clock shifts or the days are edited   *)
(* are left out: they may start a team twice, or not at all.               *)
StartsOnChosenDays ==
  \A d \in 0 .. MaxTick \div Day + 1 :
    LET ticks == d * Day - zone .. (d + 1) * Day - 1 - zone
        starts == started \cap ticks
    IN ticks \subseteq since .. tick - 1 =>
         /\ IF 1 + (d % 7) \in chosen THEN \E n \in ticks : starts = {n} ELSE starts = {}
         /\ zone = utcOffset => \A n \in starts : (n + zone) % Day = start

=============================================================================
