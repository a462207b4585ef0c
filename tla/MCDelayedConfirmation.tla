-------------------------- MODULE MCDelayedConfirmation --------------------------
(* Instances of DelayedConfirmation for TLC. *)
EXTENDS DelayedConfirmation, TLC

CONSTANTS t1, t2, c1, c2

CycleSymmetry == Permutations(Cycle)
=============================================================================
