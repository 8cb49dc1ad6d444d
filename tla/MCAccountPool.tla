----------------------------- MODULE MCAccountPool -----------------------------
(* Instances of AccountPool for TLC.                                           *)
EXTENDS AccountPool, TLC
Symmetry == Permutations(Account) \cup Permutations(Cred) \cup Permutations(Request)
=============================================================================
