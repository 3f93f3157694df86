--------------------------- MODULE MCLifecycleLock ---------------------------
(* Constants for TLC. *)
EXTENDS LifecycleLock, TLC

=============================================================================
