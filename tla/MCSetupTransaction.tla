--------------------------- MODULE MCSetupTransaction ---------------------------
(* Instances of SetupTransaction for TLC.                                      *)
EXTENDS SetupTransaction, TLC
Symmetry == Permutations(File)
=============================================================================
