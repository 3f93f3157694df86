---------------------------- MODULE MCPtySession ----------------------------
(* Constants for TLC: two calls, which may overlap; a prompt does not fit    *)
(* into the terminal at once, and the output of a turn may pass its limit.   *)
EXTENDS PtySession

CONSTANTS c1, c2

MCCalls == {c1, c2}
=============================================================================
