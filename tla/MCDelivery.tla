----------------------------- MODULE MCDelivery -----------------------------
(* Constants for TLC.  A message holds two units and an answer has up to     *)
(* three, so it needs two messages; a preview is cut after two units, or     *)
(* after three, when it needs two messages too.                              *)
EXTENDS Delivery, TLC

CONSTANTS a, b

Ux(streaming, rich, fallback, keep, speak) ==
    [streaming |-> streaming, rich |-> rich, fallback |-> fallback, keep |-> keep, speak |-> speak]

MCSettings ==
    {Ux(TRUE, TRUE, TRUE, 2, FALSE), Ux(TRUE, FALSE, FALSE, 3, TRUE),
     Ux(TRUE, TRUE, FALSE, 1, TRUE), Ux(FALSE, TRUE, FALSE, 2, TRUE)}

MCMentions == {<<>>, <<a, a, b>>}
=============================================================================
