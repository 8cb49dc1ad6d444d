----------------------------- MODULE MCHarnessTask -----------------------------
(* Instances of HarnessTask for TLC: the shared session s1 lives in workspace  *)
(* w1.                                                                         *)
EXTENDS HarnessTask, TLC
CONSTANTS w1
MCHomeOf == [s \in Shared |-> w1]
Symmetry == Permutations(Task)
=============================================================================
