------------------------------ MODULE MCSystem ------------------------------
(***************************************************************************)
(* Instances of notifier and interaction path together.                    *)
(***************************************************************************)
EXTENDS StandupSystem

CONSTANTS tA, u1, u2

SoloRoster == [t \in {tA} |-> <<u1>>]
PairRoster == [t \in {tA} |-> <<u1, u2>>]
OneStart == {<<tA, 1>>}

SomeFaults == {"greet", "save", "post", "crash"}
SomeWorkerFaults == {"store", "redraw", "crash"}
NoFaults == {}
=============================================================================
