---------------------------- MODULE LifecycleLock ----------------------------
(***************************************************************************)
(* RuntimeManager::with_chat_lifecycle_lock and                            *)
(* remove_unused_lifecycle_lock (src/runtime.rs): one Arc<Mutex<()>> per   *)
(* chat, made on demand, found through the map lifecycle_locks and taken   *)
(* out of the map again by the last user.  The map has a mutex of its own, *)
(* held for each access only, so a chat's lock object may be removed and   *)
(* made anew between any two steps of another caller.  The hazard is two   *)
(* callers of one chat holding two different lock objects.                 *)
(*                                                                         *)
(* A Mutex is its address: an element of Locks, free for reuse once its    *)
(* strong count is zero.                                                   *)
(*                                                                         *)
(* Init, Next and the like carry the prefix Lock because SharedMapsProofs  *)
(* extends this module together with module Broker.                        *)
(***************************************************************************)
EXTENDS Naturals, FiniteSets

CONSTANTS
    Tasks,    \* callers of ensure, reset, restart and rebuild
    ChatIds,  \* chat ids
    Locks,    \* addresses a lock object can have
    NoLock    \* no map entry, no clone

ASSUME LifecycleLockAssumption ==
    /\ IsFiniteSet(Tasks)
    /\ IsFiniteSet(ChatIds)
    /\ NoLock \notin Locks

VARIABLES
    lifecycle_locks,  \* the map: a chat's lock object, or NoLock
    pc,               \* where a caller is in with_chat_lifecycle_lock
    chat,             \* the chat of its call
    arc               \* its clone of the Arc (local lifecycle_lock)

lockVars == <<lifecycle_locks, pc, chat, arc>>

-----------------------------------------------------------------------------

MapRefs(l)  == {c \in ChatIds : lifecycle_locks[c] = l}
TaskRefs(l) == {t \in Tasks : arc[t] = l}

\* Arc::strong_count: the map's reference and one per clone.
StrongCount(l) == Cardinality(MapRefs(l)) + Cardinality(TaskRefs(l))

\* Arc::new allocates at an address nobody refers to.
FreeLocks == {l \in Locks : MapRefs(l) = {} /\ TaskRefs(l) = {}}

\* The tokio mutex l is locked: its guard lives in a running operation.
Locked(l) == \E t \in Tasks : pc[t] = "running" /\ arc[t] = l

LockInit ==
    /\ lifecycle_locks = [c \in ChatIds |-> NoLock]
    /\ pc   = [t \in Tasks |-> "idle"]
    /\ chat \in [Tasks -> ChatIds]
    /\ arc  = [t \in Tasks |-> NoLock]

\* MUTANT of CloneLock: entry().or_insert_with() outside the map lock, so that
\* a new object can replace one that somebody already waits on.
CloneLockRacing(t, c) ==
    /\ pc[t] = "idle"
    /\ \E l \in FreeLocks \cup ({lifecycle_locks[c]} \ {NoLock}) :
          /\ lifecycle_locks' = [lifecycle_locks EXCEPT ![c] = l]
          /\ arc' = [arc EXCEPT ![t] = l]
    /\ pc'   = [pc EXCEPT ![t] = "waiting"]
    /\ chat' = [chat EXCEPT ![t] = c]

\* Under the map lock: entry().or_insert_with().clone().
CloneLock(t, c) ==
    /\ pc[t] = "idle"
    /\ \E l \in IF lifecycle_locks[c] = NoLock THEN FreeLocks ELSE {lifecycle_locks[c]} :
          /\ lifecycle_locks' = [lifecycle_locks EXCEPT ![c] = l]
          /\ arc' = [arc EXCEPT ![t] = l]
    /\ pc'   = [pc EXCEPT ![t] = "waiting"]
    /\ chat' = [chat EXCEPT ![t] = c]

\* MUTANT of AcquireLock: try_lock, giving up when somebody holds the lock.
AcquireLockOrGiveUp(t) ==
    /\ pc[t] = "waiting"
    /\ pc' = [pc EXCEPT ![t] = IF Locked(arc[t]) THEN "dropping" ELSE "running"]
    /\ UNCHANGED <<lifecycle_locks, chat, arc>>

\* lifecycle_lock.lock().await
AcquireLock(t) ==
    /\ pc[t] = "waiting"
    /\ ~Locked(arc[t])
    /\ pc' = [pc EXCEPT ![t] = "running"]
    /\ UNCHANGED <<lifecycle_locks, chat, arc>>

\* operation.await has returned: drop(lifecycle_guard).
DropGuard(t) ==
    /\ pc[t] = "running"
    /\ pc' = [pc EXCEPT ![t] = "released"]
    /\ UNCHANGED <<lifecycle_locks, chat, arc>>

\* remove_unused_lifecycle_lock's test, under the map lock.
ShouldRemove(t) ==
    /\ lifecycle_locks[chat[t]] = arc[t]
    /\ StrongCount(arc[t]) = 2

RemoveUnused(t) ==
    /\ pc[t] = "released"
    /\ lifecycle_locks' = IF ShouldRemove(t)
                          THEN [lifecycle_locks EXCEPT ![chat[t]] = NoLock]
                          ELSE lifecycle_locks
    /\ pc' = [pc EXCEPT ![t] = "dropping"]
    /\ UNCHANGED <<chat, arc>>

\* with_chat_lifecycle_lock returns; its Arc goes out of scope.
DropClone(t) ==
    /\ pc[t] = "dropping"
    /\ pc'  = [pc  EXCEPT ![t] = "idle"]
    /\ arc' = [arc EXCEPT ![t] = NoLock]
    /\ UNCHANGED <<lifecycle_locks, chat>>

LockNext ==
    \E t \in Tasks :
        \/ \E c \in ChatIds : CloneLock(t, c)
        \/ AcquireLock(t)
        \/ DropGuard(t)
        \/ RemoveUnused(t)
        \/ DropClone(t)

LockSpec == LockInit /\ [][LockNext]_lockVars

\* A started call keeps running; tokio's mutex serves its waiters in FIFO
\* order, so a waiter whose lock is free again and again gets it.  Nothing is
\* assumed of the operation itself: no fairness for DropGuard.
LockFairness ==
    \A t \in Tasks :
        /\ SF_lockVars(AcquireLock(t))
        /\ WF_lockVars(RemoveUnused(t))
        /\ WF_lockVars(DropClone(t))

LockFairSpec == LockSpec /\ LockFairness

-----------------------------------------------------------------------------
(* Properties. *)

\* Types; a caller holds a clone of a lock exactly while its operation is under way.
LockTypeOK ==
    /\ lifecycle_locks \in [ChatIds -> Locks \cup {NoLock}]
    /\ pc   \in [Tasks -> {"idle", "waiting", "running", "released", "dropping"}]
    /\ chat \in [Tasks -> ChatIds]
    /\ arc  \in [Tasks -> Locks \cup {NoLock}]
    /\ \A t \in Tasks : pc[t] = "idle" <=> arc[t] = NoLock

\* Never two lifecycle operations of one chat at the same time, although the
\* object they exclude each other with is removed and remade under them.
MutualExclusion ==
    \A t, u \in Tasks :
        pc[t] = "running" /\ pc[u] = "running" /\ chat[t] = chat[u] => t = u

\* A lock object in use belongs to one chat: an address freed by one chat's
\* removal and taken by another never makes two chats wait for each other.
ChatsIndependent ==
    \A t, u \in Tasks :
        arc[t] # NoLock /\ arc[t] = arc[u] => chat[t] = chat[u]

\* The abstract state: a caller that dropped its guard is done with the chat.
phaseBar == [t \in Tasks |-> IF pc[t] \in {"released", "dropping"} THEN "idle" ELSE pc[t]]

Abstract == INSTANCE ChatMutex WITH phase <- phaseBar, Chats <- ChatIds

\* Every behaviour of the lock map is one of the abstract per-chat mutex.
ImplementsChatMutex == Abstract!Spec

\* No caller is forgotten on a lock object the map no longer knows: if the
\* operations of all tasks return, every waiting caller gets to run.
EveryWaiterRuns ==
    (\A t \in Tasks : []<>(pc[t] # "running"))
        => \A t \in Tasks : pc[t] = "waiting" ~> pc[t] = "running"
=============================================================================
