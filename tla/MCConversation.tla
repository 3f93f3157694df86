--------------------------- MODULE MCConversation ---------------------------
(* Constants for TLC. *)
EXTENDS Conversation

MCKinds == AllKinds
=============================================================================
