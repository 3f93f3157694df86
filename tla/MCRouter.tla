------------------------------- MODULE MCRouter -------------------------------
(* Router on small instances. *)
EXTENDS Router, TLC

MCSymmetry == Permutations(Items)
=============================================================================
