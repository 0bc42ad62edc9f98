------------------------------ MODULE MCTeams ------------------------------
(***************************************************************************)
(* Instances for TLC of what a team goes through: edits (TeamStore), the   *)
(* pages (TeamPages), the schedule, the page of its standups.  The parts   *)
(* share no state: a behaviour is one of one part, and the variables of    *)
(* the others keep values in which nothing happens.                        *)
(***************************************************************************)
EXTENDS TeamStore, TeamPages, StandupSchedule, StandupsPage, TLC

CONSTANTS u1, t1, t2, c1, c2, a, b

OneUser == {u1}
TwoTexts == {t1, t2}
TwoClients == {c1, c2}
ThreeOffsets == {-1, 0, 1}

TwoTeams == {a, b}
ThreeTicks == 1 .. 3

Interchangeable ==
  Permutations(TwoTexts) \union Permutations(TwoClients) \union Permutations(TwoTeams)

VARIABLE part

allVars == <<part, vars, pageVars, scheduleVars, standupsVars>>

NoPages == PageInit /\ url = "teams" /\ teams = <<>>
NoSchedule ==
  /\ ScheduleInit
  /\ chosen = {1} /\ start = 0 /\ utcOffset = 0 /\ zone = 0

NoStandups == StandupsInit /\ at.page = 0

AllInit ==
  /\ Init
  /\ \/ part = "edits" /\ NoPages /\ NoSchedule /\ NoStandups
     \/ part = "pages" /\ PageInit /\ NoSchedule /\ NoStandups
     \/ part = "schedule" /\ NoPages /\ ScheduleInit /\ NoStandups
     \/ part = "standups" /\ NoPages /\ NoSchedule /\ StandupsInit

AllNext ==
  \/ part = "edits" /\ Next /\ UNCHANGED <<part, pageVars, scheduleVars, standupsVars>>
  \/ part = "pages" /\ PageNext /\ UNCHANGED <<part, vars, scheduleVars, standupsVars>>
  \/ part = "schedule" /\ ScheduleNext /\ UNCHANGED <<part, vars, pageVars, standupsVars>>
  \/ part = "standups" /\ StandupsNext /\ UNCHANGED <<part, vars, pageVars, scheduleVars>>

AllSpec == AllInit /\ [][AllNext]_allVars

(* The types of all parts.                                                 *)
AllTypeOK == TypeOK /\ PageTypeOK /\ ScheduleTypeOK /\ StandupsTypeOK

=============================================================================
