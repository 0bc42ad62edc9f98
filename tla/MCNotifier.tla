----------------------------- MODULE MCNotifier -----------------------------
(***************************************************************************)
(* Instances of the notifier for TLC.                                      *)
(***************************************************************************)
EXTENDS StandupNotifier

CONSTANTS tA, tB, u1, u2, a1

(* Two teams that share a user and start in the same minute.               *)
TeamsRoster == [t \in {tA, tB} |-> IF t = tA THEN <<u1, u2>> ELSE <<u2>>]
TeamsStarts == {<<tA, 1>>, <<tB, 1>>}

(* The same team on two occasions, the second may meet the end of the      *)
(* first.                                                                  *)
TwiceRoster == [t \in {tA} |-> <<u1>>]
TwiceStarts == {<<tA, 1>>, <<tA, 2>>}

AllFaults == FaultKinds
StartFaults == {"create", "greet", "save"}
=============================================================================
