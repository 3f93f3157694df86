----------------------------- MODULE MCSubprocess -----------------------------
(* Constants for TLC: a pipe is full after one chunk, the input needs two,   *)
(* and the command can write two chunks more than a turn may keep.            *)
EXTENDS Subprocess, TLC

=============================================================================
