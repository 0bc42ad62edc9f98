------------------------------ MODULE MCWorker ------------------------------
(***************************************************************************)
(* Instances of the interaction path for TLC.                              *)
(***************************************************************************)
EXTENDS StandupWorker

CONSTANTS tA, u1, u2

SoloRoster == [t \in {tA} |-> <<u1>>]
PairRoster == [t \in {tA} |-> <<u1, u2>>]
OneStart == {<<tA, 1>>}

AllFaults == WorkerFaultKinds
NoFaults == {}
=============================================================================
