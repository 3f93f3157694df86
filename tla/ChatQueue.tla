------------------------------ MODULE ChatQueue ------------------------------
(***************************************************************************)
(* What the router of one chat promises: every session of the chat, known  *)
(* by its generation, has a bounded first-come first-served queue and      *)
(* serves one item at a time; only the present session takes items and     *)
(* begins turns; a session that has been replaced drops what it has.       *)
(***************************************************************************)
EXTENDS Naturals, Sequences

CONSTANTS Items, Generations, Capacity

VARIABLES
    now,      \* the present session's generation: 0 for none
    newest,   \* the newest session's generation
    fate,     \* what became of an item
    waiting,  \* a session's queue
    serving   \* the items a session is at work on

vars == <<now, newest, fate, waiting, serving>>

Init ==
    /\ now = 0
    /\ newest = 0
    /\ fate    = [i \in Items |-> "new"]
    /\ waiting = [g \in Generations |-> <<>>]
    /\ serving = [g \in Generations |-> {}]

\* A new session of a new generation, or none.
Replace ==
    /\ \/ now' \in {g \in Generations : g > newest} /\ newest' = now'
       \/ now' = 0 /\ UNCHANGED newest
    /\ UNCHANGED <<fate, waiting, serving>>

Accept(i) ==
    /\ now # 0
    /\ fate[i] = "new"
    /\ Len(waiting[now]) < Capacity
    /\ waiting' = [waiting EXCEPT ![now] = Append(@, i)]
    /\ fate' = [fate EXCEPT ![i] = "accepted"]
    /\ UNCHANGED <<now, newest, serving>>

Begin ==
    /\ now # 0
    /\ serving[now] = {}
    /\ waiting[now] # <<>>
    /\ serving' = [serving EXCEPT ![now] = {Head(waiting[now])}]
    /\ waiting' = [waiting EXCEPT ![now] = Tail(@)]
    /\ fate' = [fate EXCEPT ![Head(waiting[now])] = "running"]
    /\ UNCHANGED <<now, newest>>

\* Also a replaced session may finish the item it is at work on.
Finish(g, i) ==
    /\ serving[g] = {i}
    /\ serving' = [serving EXCEPT ![g] = {}]
    /\ fate' = [fate EXCEPT ![i] = "answered"]
    /\ UNCHANGED <<now, newest, waiting>>

Drop(g) ==
    LET gone == serving[g] \cup {waiting[g][k] : k \in DOMAIN waiting[g]}
    IN  /\ g # now
        /\ gone # {}
        /\ serving' = [serving EXCEPT ![g] = {}]
        /\ waiting' = [waiting EXCEPT ![g] = <<>>]
        /\ fate' = [i \in Items |-> IF i \in gone THEN "dropped" ELSE fate[i]]
        /\ UNCHANGED <<now, newest>>

Next ==
    \/ Replace \/ Begin
    \/ \E i \in Items : Accept(i)
    \/ \E g \in Generations : Drop(g) \/ \E i \in Items : Finish(g, i)

Spec == Init /\ [][Next]_vars
=============================================================================
