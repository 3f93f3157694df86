------------------------------ MODULE MCBroker ------------------------------
(* Constants for TLC: chat c1 with two tokens (a token and its successor), a *)
(* second chat with one, and two or three handler tasks.                     *)
EXTENDS Broker, TLC

CONSTANTS c1, c2, a1, a2, b1, r1, r2, r3

MCTokenChat == (a1 :> c1) @@ (a2 :> c1) @@ (b1 :> c2)

MCSymmetry == Permutations(Requests)
=============================================================================
