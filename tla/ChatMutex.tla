------------------------------ MODULE ChatMutex ------------------------------
(***************************************************************************)
(* What with_chat_lifecycle_lock (src/runtime.rs) promises its callers: at *)
(* most one lifecycle operation per chat runs at any time, operations of   *)
(* different chats never wait for each other, and an operation that asked  *)
(* gets its turn.  How the lock objects are found, shared and thrown away  *)
(* is left to module LifecycleLock, which implements this one.             *)
(***************************************************************************)
CONSTANTS
    Tasks,  \* callers of ensure, reset, restart and rebuild
    Chats   \* chat ids

VARIABLES
    phase,  \* what a task does: nothing, wait for its chat, or run its operation
    chat    \* the chat of a task's latest call

vars == <<phase, chat>>

Running(c) == {t \in Tasks : phase[t] = "running" /\ chat[t] = c}

Init ==
    /\ phase = [t \in Tasks |-> "idle"]
    /\ chat \in [Tasks -> Chats]

Request(t, c) ==
    /\ phase[t] = "idle"
    /\ phase' = [phase EXCEPT ![t] = "waiting"]
    /\ chat'  = [chat  EXCEPT ![t] = c]

Enter(t) ==
    /\ phase[t] = "waiting"
    /\ Running(chat[t]) = {}
    /\ phase' = [phase EXCEPT ![t] = "running"]
    /\ UNCHANGED chat

Leave(t) ==
    /\ phase[t] = "running"
    /\ phase' = [phase EXCEPT ![t] = "idle"]
    /\ UNCHANGED chat

Next ==
    \E t \in Tasks :
        \/ \E c \in Chats : Request(t, c)
        \/ Enter(t)
        \/ Leave(t)

Spec == Init /\ [][Next]_vars

\* Types: where each caller is, and for which chat.
TypeOK ==
    /\ phase \in [Tasks -> {"idle", "waiting", "running"}]
    /\ chat  \in [Tasks -> Chats]

\* Never two lifecycle operations of one chat at the same time.
MutualExclusion ==
    \A t, u \in Tasks :
        phase[t] = "running" /\ phase[u] = "running" /\ chat[t] = chat[u] => t = u
=============================================================================
