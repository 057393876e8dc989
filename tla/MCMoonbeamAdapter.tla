-------------------------- MODULE MCMoonbeamAdapter -------------------------
(* Instances of MoonbeamAdapter for TLC: the account of each send.         *)
EXTENDS MoonbeamAdapter, TLC

CONSTANTS s1, s2, x1, a1, n1, n2, w1

OneAccount == [c \in Txs |-> a1]
Symmetry == Permutations(Sends) \cup Permutations(Networks)
=============================================================================
