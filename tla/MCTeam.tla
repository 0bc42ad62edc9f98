------------------------------- MODULE MCTeam -------------------------------
(* Instances of TeamStore for TLC.                                         *)
EXTENDS TeamStore, TLC

CONSTANTS u1, u2, t1, t2, c1, c2

OneUser == {u1}
TwoUsers == {u1, u2}
OneText == {t1}
TwoTexts == {t1, t2}
OneClient == {c1}
TwoClients == {c1, c2}

(* Users, texts and browsers have no order in TeamStore.                   *)
Interchangeable ==
  Permutations(TwoUsers) \union Permutations(TwoTexts) \union Permutations(TwoClients)

=============================================================================
