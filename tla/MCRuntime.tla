------------------------------ MODULE MCRuntime ------------------------------
(* Constants for TLC. *)
EXTENDS Runtime, TLC

MCSymmetry == Permutations(Tasks)
=============================================================================
