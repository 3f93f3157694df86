-------------------------- MODULE SharedMapsProofs --------------------------
(***************************************************************************)
(* Proofs about the two sets of maps that tasks of different requests and  *)
(* commands change concurrently: the broker's token registry and request   *)
(* limits (module Broker), for any number of chats, tokens and request     *)
(* tasks and any limits, and the runtime's lifecycle locks (module         *)
(* LifecycleLock), for any number of callers and chats.                    *)
(*                                                                         *)
(* The accounting of slots (NoLeakedSlot, ExcessIsForgotten,               *)
(* CountersBounded) is not inductive by itself: a permit dropped while its *)
(* token has no limit state leaves in_flight alone, so the proof needs     *)
(* that a token without a limit state counts nothing, and the exact        *)
(* balance between live permits, counted permits and forgotten ones.       *)
(*                                                                         *)
(* For the locks the key is that a caller between its clone and its        *)
(* removal test always holds the very object the map shows for its chat: a *)
(* removal needs a strong count of two, the map's reference and the        *)
(* remover's own clone, so nobody else can hold a clone then (lemma        *)
(* SoleUser).                                                              *)
(***************************************************************************)
EXTENDS Broker, LifecycleLock, FiniteSetTheorems, TLAPS

\* The inductive strengthening.
SlotAccounting ==
    \A t \in Tokens :
        /\ inFlight[t] <= Live(t)
        /\ Live(t) <= inFlight[t] + forgotten[t]
        /\ inFlight[t] <= MaxConcurrent
        /\ inWindow[t] <= MaxRequests
        /\ t \notin limited => inFlight[t] = 0

-----------------------------------------------------------------------------
(* Types. *)

\* Types: the registry, the limiter entries and the request handlers of
\* broker.rs stay in their ranges, whatever the interleaving.
THEOREM TypeCorrect == Spec => []TypeOK
<1> USE BrokerAssumption
<1>1. Init => TypeOK
  BY DEF Init, TypeOK
<1>2. TypeOK /\ [Next]_vars => TypeOK'
  <2> SUFFICES ASSUME TypeOK, [Next]_vars PROVE TypeOK'
    OBVIOUS
  <2> USE DEF TypeOK, registryVars, limitVars, requestVars
  <2>1. ASSUME NEW c \in Chats, NEW t \in Tokens, ReplaceToken(c, t) PROVE TypeOK'
    BY <2>1 DEF ReplaceToken, TokensOf
  <2>2. ASSUME NEW c \in Chats, UnregisterChat(c) PROVE TypeOK'
    BY <2>2 DEF UnregisterChat, TokensOf
  <2>3. ASSUME NEW c \in Chats, RemoveLimitStates(c) PROVE TypeOK'
    BY <2>3 DEF RemoveLimitStates
  <2>4. ASSUME NEW r \in Requests, NEW t \in Tokens \cup {NoToken},
               NEW h \in Chats \cup {NoChat}, Authorize(r, t, h)
        PROVE TypeOK'
    BY <2>4 DEF Authorize
  <2>5. ASSUME NEW r \in Requests, Admit(r) PROVE TypeOK'
    BY <2>5 DEF Admit, TouchLimitState, RequestsCounted
  <2>6. ASSUME NEW r \in Requests, Refuse(r) PROVE TypeOK'
    BY <2>6 DEF Refuse, Idle, TouchLimitState, RequestsCounted
  <2>7. ASSUME NEW r \in Requests, FinishUpstream(r) PROVE TypeOK'
    BY <2>7 DEF FinishUpstream, Idle, DropPermit
  <2>8. CASE Tick
    BY <2>8 DEF Tick
  <2>9. CASE UNCHANGED vars
    BY <2>9 DEF vars
  <2> QED
    BY <2>1, <2>2, <2>3, <2>4, <2>5, <2>6, <2>7, <2>8, <2>9
       DEF Next, RegistryStep, RequestStep
<1>3. QED
  BY <1>1, <1>2, PTL DEF Spec

-----------------------------------------------------------------------------
(* The registry. *)

\* The two chats of a registered pair differ, or the tokens are the same: the
\* removal and the insertion of replace_chat_token are one critical section.
THEOREM OneTokenPerChatHolds == Spec => []OneTokenPerChat
<1> USE BrokerAssumption
<1>1. Init => OneTokenPerChat
  BY DEF Init, OneTokenPerChat
<1>2. TypeOK /\ OneTokenPerChat /\ [Next]_vars => OneTokenPerChat'
  <2> SUFFICES ASSUME TypeOK, OneTokenPerChat, [Next]_vars PROVE OneTokenPerChat'
    OBVIOUS
  <2>1. ASSUME NEW c \in Chats, NEW t \in Tokens, ReplaceToken(c, t)
        PROVE  OneTokenPerChat'
    BY <2>1 DEF OneTokenPerChat, ReplaceToken, TypeOK
  <2>2. ASSUME NEW c \in Chats, UnregisterChat(c) PROVE OneTokenPerChat'
    BY <2>2 DEF OneTokenPerChat, UnregisterChat, TypeOK
  <2>3. ASSUME UNCHANGED active PROVE OneTokenPerChat'
    BY <2>3 DEF OneTokenPerChat
  <2> QED
    BY <2>1, <2>2, <2>3
       DEF Next, RegistryStep, RequestStep, RemoveLimitStates, Authorize, Admit,
           Refuse, FinishUpstream, Tick, vars, registryVars
<1>3. QED
  BY <1>1, <1>2, TypeCorrect, PTL DEF Spec

\* Tokens are registered only for the chat they were generated for.
RegisteredForItsChat ==
    \A t \in Tokens : active[t] \in {NoChat, TokenChat[t]}

\* authorize_sandbox_request admits a request only for the chat whose token it
\* brings: the owner it reads is the only chat the token was ever made for.
THEOREM AdmittedForItsChatHolds == Spec => []AdmittedForItsChat
<1> USE BrokerAssumption
<1> DEFINE Inv == RegisteredForItsChat /\ AdmittedForItsChat
<1>1. Init => Inv
  BY DEF Init, RegisteredForItsChat, AdmittedForItsChat
<1>2. TypeOK /\ Inv /\ [Next]_vars => Inv'
  <2> SUFFICES ASSUME TypeOK, Inv, [Next]_vars PROVE Inv'
    OBVIOUS
  <2> USE DEF RegisteredForItsChat, AdmittedForItsChat, TypeOK,
              registryVars, limitVars, requestVars
  <2>1. ASSUME NEW c \in Chats, NEW t \in Tokens, ReplaceToken(c, t) PROVE Inv'
    BY <2>1 DEF ReplaceToken
  <2>2. ASSUME NEW c \in Chats, UnregisterChat(c) PROVE Inv'
    BY <2>2 DEF UnregisterChat
  <2>3. ASSUME NEW c \in Chats, RemoveLimitStates(c) PROVE Inv'
    BY <2>3 DEF RemoveLimitStates
  <2>4. ASSUME NEW r \in Requests, NEW t \in Tokens \cup {NoToken},
               NEW h \in Chats \cup {NoChat}, Authorize(r, t, h)
        PROVE Inv'
    BY <2>4 DEF Authorize
  <2>5. ASSUME NEW r \in Requests, Admit(r) PROVE Inv'
    BY <2>5 DEF Admit
  <2>6. ASSUME NEW r \in Requests, Refuse(r) PROVE Inv'
    BY <2>6 DEF Refuse, Idle
  <2>7. ASSUME NEW r \in Requests, FinishUpstream(r) PROVE Inv'
    BY <2>7 DEF FinishUpstream, Idle
  <2>8. CASE Tick
    BY <2>8 DEF Tick
  <2>9. CASE UNCHANGED vars
    BY <2>9 DEF vars
  <2> QED
    BY <2>1, <2>2, <2>3, <2>4, <2>5, <2>6, <2>7, <2>8, <2>9
       DEF Next, RegistryStep, RequestStep
<1>3. QED
  BY <1>1, <1>2, TypeCorrect, PTL DEF Spec

-----------------------------------------------------------------------------
(* The slots. *)

\* The permits of a token are finitely many.
LEMMA LiveIsNat ==
  ASSUME NEW t
  PROVE  /\ IsFiniteSet(Holders(t))
         /\ Live(t) \in Nat
BY BrokerAssumption, FS_Subset, FS_CardinalityType DEF Holders, Live

\* A step that leaves stage and token alone leaves the permits alone.
LEMMA LiveUnchanged ==
  ASSUME UNCHANGED <<stage, token>>, NEW t
  PROVE  Live(t)' = Live(t)
BY DEF Live, Holders

\* A handler that was not upstream and does not get there changes no permit.
LEMMA LiveUnchangedOffUpstream ==
  ASSUME TypeOK, NEW t, NEW r \in Requests, NEW s, NEW k,
         stage[r] # "upstream", s # "upstream",
         stage' = [stage EXCEPT ![r] = s], token' = [token EXCEPT ![r] = k]
  PROVE  Live(t)' = Live(t)
<1>1. Holders(t)' = Holders(t)
  BY DEF Holders, TypeOK
<1>2. QED
  BY <1>1 DEF Live

\* An admission adds one permit to its token and none to the others.
LEMMA LiveAfterAdmit ==
  ASSUME TypeOK, NEW r \in Requests, NEW t \in Tokens,
         stage[r] = "authorized",
         stage' = [stage EXCEPT ![r] = "upstream"], token' = token
  PROVE  Live(t)' = IF t = token[r] THEN Live(t) + 1 ELSE Live(t)
<1>1. CASE t = token[r]
  <2>1. Holders(t)' = Holders(t) \cup {r} /\ r \notin Holders(t)
    BY <1>1 DEF Holders, TypeOK
  <2> QED
    BY <1>1, <2>1, LiveIsNat, FS_AddElement DEF Live
<1>2. CASE t # token[r]
  <2>1. Holders(t)' = Holders(t)
    BY <1>2 DEF Holders, TypeOK
  <2> QED
    BY <1>2, <2>1 DEF Live
<1> QED
  BY <1>1, <1>2

\* A finished call takes one permit from its token and none from the others.
LEMMA LiveAfterFinish ==
  ASSUME TypeOK, NEW r \in Requests, NEW t \in Tokens,
         stage[r] = "upstream", Idle(r)
  PROVE  /\ Live(t)' = IF t = token[r] THEN Live(t) - 1 ELSE Live(t)
         /\ t = token[r] => Live(t) > 0
<1> USE DEF Idle
<1>1. CASE t = token[r]
  <2>1. Holders(t)' = Holders(t) \ {r} /\ r \in Holders(t)
    BY <1>1 DEF Holders, TypeOK
  <2>2. Live(t)' = Live(t) - 1
    BY <2>1, LiveIsNat, FS_RemoveElement DEF Live
  <2>3. IsFiniteSet(Holders(t)')
    BY <2>1, LiveIsNat, FS_RemoveElement
  <2>4. Live(t)' \in Nat
    BY <2>3, FS_CardinalityType DEF Live
  <2>5. Live(t) \in Nat
    BY LiveIsNat
  <2> QED
    BY <1>1, <2>2, <2>4, <2>5
<1>2. CASE t # token[r]
  <2>1. Holders(t)' = Holders(t)
    BY <1>2 DEF Holders, TypeOK
  <2> QED
    BY <1>2, <2>1 DEF Live
<1> QED
  BY <1>1, <1>2

\* The balance of the slots is kept by every step.
LEMMA SlotAccountingStep ==
  TypeOK /\ SlotAccounting /\ [Next]_vars => SlotAccounting'
<1> SUFFICES ASSUME TypeOK, SlotAccounting, [Next]_vars, NEW t \in Tokens
             PROVE  /\ inFlight'[t] <= Live(t)'
                    /\ Live(t)' <= inFlight'[t] + forgotten'[t]
                    /\ inFlight'[t] <= MaxConcurrent
                    /\ inWindow'[t] <= MaxRequests
                    /\ t \notin limited' => inFlight'[t] = 0
  BY DEF SlotAccounting
<1> DEFINE Goal == /\ inFlight'[t] <= Live(t)'
                   /\ Live(t)' <= inFlight'[t] + forgotten'[t]
                   /\ inFlight'[t] <= MaxConcurrent
                   /\ inWindow'[t] <= MaxRequests
                   /\ t \notin limited' => inFlight'[t] = 0
<1>a. /\ inFlight[t] <= Live(t)
      /\ Live(t) <= inFlight[t] + forgotten[t]
      /\ inFlight[t] <= MaxConcurrent
      /\ inWindow[t] <= MaxRequests
      /\ t \notin limited => inFlight[t] = 0
  BY DEF SlotAccounting
<1>b. /\ Live(t) \in Nat /\ inFlight[t] \in Nat /\ forgotten[t] \in Nat
      /\ inWindow[t] \in Nat /\ MaxConcurrent \in Nat /\ MaxRequests \in Nat
  BY LiveIsNat, BrokerAssumption DEF TypeOK
<1>same. ASSUME UNCHANGED limitVars, Live(t)' = Live(t) PROVE Goal
  BY <1>same, <1>a DEF limitVars
<1>1. ASSUME NEW c \in Chats, NEW u \in Tokens, ReplaceToken(c, u) PROVE Goal
  BY <1>1, <1>same, LiveUnchanged DEF ReplaceToken, requestVars
<1>2. ASSUME NEW c \in Chats, UnregisterChat(c) PROVE Goal
  BY <1>2, <1>same, LiveUnchanged DEF UnregisterChat, requestVars
<1>3. ASSUME NEW c \in Chats, RemoveLimitStates(c) PROVE Goal
  <2>1. Live(t)' = Live(t)
    BY <1>3, LiveUnchanged DEF RemoveLimitStates, requestVars
  <2>2. CASE t \in unlimiting[c]
    <3>1. inFlight'[t] = 0 /\ inWindow'[t] = 0 /\ forgotten'[t] = forgotten[t] + inFlight[t]
      BY <1>3, <2>2 DEF RemoveLimitStates
    <3> QED
      BY <1>a, <1>b, <2>1, <3>1
  <2>3. CASE t \notin unlimiting[c]
    <3>1. /\ inFlight'[t] = inFlight[t] /\ inWindow'[t] = inWindow[t]
          /\ forgotten'[t] = forgotten[t]
          /\ t \in limited => t \in limited'
      BY <1>3, <2>3 DEF RemoveLimitStates
    <3> QED
      BY <1>a, <1>b, <2>1, <3>1
  <2> QED
    BY <2>2, <2>3
<1>4. ASSUME NEW r \in Requests, NEW u \in Tokens \cup {NoToken},
             NEW h \in Chats \cup {NoChat}, Authorize(r, u, h)
      PROVE  Goal
  <2>1. Live(t)' = Live(t)
    BY <1>4, LiveUnchangedOffUpstream DEF Authorize
  <2> QED
    BY <1>4, <2>1, <1>same DEF Authorize
<1>5. ASSUME NEW r \in Requests, Admit(r) PROVE Goal
  <2>1. Live(t)' = IF t = token[r] THEN Live(t) + 1 ELSE Live(t)
    BY <1>5, LiveAfterAdmit DEF Admit
  <2>2. token[r] \in Tokens
    BY <1>5 DEF Admit, TypeOK
  <2>3. forgotten' = forgotten /\ (t \in limited => t \in limited')
    BY <1>5 DEF Admit, TouchLimitState
  <2>4. CASE t = token[r]
    <3>1. /\ inFlight'[t] = inFlight[t] + 1 /\ inFlight[t] < MaxConcurrent
          /\ inWindow'[t] = RequestsCounted(t) + 1 /\ RequestsCounted(t) < MaxRequests
          /\ t \in limited'
      BY <1>5, <2>2, <2>4 DEF Admit, HasCapacity, TouchLimitState, TypeOK
    <3>2. RequestsCounted(t) \in Nat
      BY <1>b DEF RequestsCounted
    <3> QED
      BY <1>a, <1>b, <2>1, <2>3, <2>4, <3>1, <3>2
  <2>5. CASE t # token[r]
    <3>1. inFlight'[t] = inFlight[t] /\ inWindow'[t] = inWindow[t]
      BY <1>5, <2>5 DEF Admit, TypeOK
    <3> QED
      BY <1>a, <1>b, <2>1, <2>3, <2>5, <3>1
  <2> QED
    BY <2>4, <2>5
<1>6. ASSUME NEW r \in Requests, Refuse(r) PROVE Goal
  <2>1. Live(t)' = Live(t)
    BY <1>6, LiveUnchangedOffUpstream DEF Refuse, Idle
  <2>2. CASE UNCHANGED limitVars
    BY <2>1, <2>2, <1>same
  <2>3. CASE /\ TouchLimitState(token[r])
             /\ inWindow' = [inWindow EXCEPT ![token[r]] = RequestsCounted(token[r])]
             /\ UNCHANGED <<inFlight, forgotten>>
    <3>1. inWindow'[t] <= inWindow[t]
      BY <2>3, <1>b DEF RequestsCounted, TypeOK
    <3>2. inWindow'[t] \in Nat
      BY <2>3, <1>b DEF RequestsCounted, TypeOK
    <3> QED
      BY <2>1, <2>3, <3>1, <3>2, <1>a, <1>b DEF TouchLimitState
  <2> QED
    BY <1>6, <2>2, <2>3 DEF Refuse
<1>7. ASSUME NEW r \in Requests, FinishUpstream(r) PROVE Goal
  <2>1. /\ Live(t)' = IF t = token[r] THEN Live(t) - 1 ELSE Live(t)
        /\ t = token[r] => Live(t) > 0
    BY <1>7, LiveAfterFinish DEF FinishUpstream
  <2>2. forgotten' = forgotten /\ limited' = limited /\ inWindow' = inWindow
    BY <1>7 DEF FinishUpstream
  <2>3. inFlight'[t] = IF t = token[r] /\ t \in limited /\ inFlight[t] > 0
                       THEN inFlight[t] - 1 ELSE inFlight[t]
    BY <1>7 DEF FinishUpstream, DropPermit, TypeOK
  <2> QED
    BY <1>a, <1>b, <2>1, <2>2, <2>3
<1>8. CASE Tick
  <2>1. Live(t)' = Live(t)
    BY <1>8, LiveUnchanged DEF Tick, requestVars
  <2> QED
    BY <1>8, <2>1, <1>a DEF Tick
<1>9. CASE UNCHANGED vars
  BY <1>9, <1>same, LiveUnchanged DEF vars, requestVars
<1> QED
  BY <1>1, <1>2, <1>3, <1>4, <1>5, <1>6, <1>7, <1>8, <1>9
     DEF Next, RegistryStep, RequestStep

\* The balance of slots holds in every behaviour.
LEMMA SlotAccountingHolds == Spec => []SlotAccounting
<1>1. Init => SlotAccounting
  <2> SUFFICES ASSUME Init, NEW t \in Tokens
               PROVE  Live(t) = 0
    BY BrokerAssumption DEF Init, SlotAccounting
  <2>1. Holders(t) = {}
    BY DEF Init, Holders
  <2> QED
    BY <2>1, FS_EmptySet DEF Live
<1>2. QED
  BY <1>1, SlotAccountingStep, TypeCorrect, PTL DEF Spec

\* No permit's slot is ever lost.
THEOREM NoLeakedSlotHolds == Spec => []NoLeakedSlot
<1>1. SlotAccounting => NoLeakedSlot
  BY DEF SlotAccounting, NoLeakedSlot
<1>2. QED
  BY <1>1, SlotAccountingHolds, PTL

\* More than max_concurrent_requests calls of one token are upstream only by
\* the slots remove_limit_states forgot.
THEOREM ExcessIsForgottenHolds == Spec => []ExcessIsForgotten
<1>1. TypeOK /\ SlotAccounting => ExcessIsForgotten
  <2> SUFFICES ASSUME TypeOK, SlotAccounting, NEW t \in Tokens
               PROVE  Live(t) <= MaxConcurrent + forgotten[t]
    BY DEF ExcessIsForgotten
  <2>1. /\ Live(t) \in Nat /\ inFlight[t] \in Nat /\ forgotten[t] \in Nat
        /\ MaxConcurrent \in Nat
    BY LiveIsNat, BrokerAssumption DEF TypeOK
  <2> QED
    BY <2>1 DEF SlotAccounting
<1>2. QED
  BY <1>1, SlotAccountingHolds, TypeCorrect, PTL

\* The counters stay within the limits.
THEOREM CountersBoundedHolds == Spec => []CountersBounded
<1>1. SlotAccounting => CountersBounded
  BY DEF SlotAccounting, CountersBounded
<1>2. QED
  BY <1>1, SlotAccountingHolds, PTL

\* Within a window the count of admitted requests never goes down, so no
\* interleaving refunds a part of the window's budget.
THEOREM WindowNeverRefundedHolds == Spec => WindowNeverRefunded
<1> DEFINE Kept == \A t \in Tokens :
                      inWindow'[t] < inWindow[t] =>
                          \/ WindowElapsed(t)
                          \/ \E c \in Chats : t \in unlimiting[c]
<1>1. TypeOK /\ [Next]_vars => Kept
  <2> SUFFICES ASSUME TypeOK, [Next]_vars, NEW t \in Tokens, inWindow'[t] < inWindow[t]
               PROVE  \/ WindowElapsed(t)
                      \/ \E c \in Chats : t \in unlimiting[c]
    OBVIOUS
  <2>a. inWindow[t] \in Nat
    BY DEF TypeOK
  <2>1. ASSUME inWindow' = inWindow PROVE FALSE
    BY <2>1, <2>a
  <2>2. ASSUME NEW c \in Chats, RemoveLimitStates(c)
        PROVE  t \in unlimiting[c]
    <3> SUFFICES ASSUME t \notin unlimiting[c] PROVE inWindow'[t] = inWindow[t]
      BY <2>a
    <3> QED
      BY <2>2 DEF RemoveLimitStates
  <2>3. ASSUME NEW r \in Requests, Admit(r) PROVE WindowElapsed(t)
    <3> SUFFICES ASSUME ~WindowElapsed(t)
                 PROVE  inWindow'[t] \in {inWindow[t], inWindow[t] + 1}
      BY <2>a
    <3> QED
      BY <2>3 DEF Admit, RequestsCounted, TypeOK
  <2>4. ASSUME NEW r \in Requests, Refuse(r) PROVE WindowElapsed(t)
    <3> SUFFICES ASSUME ~WindowElapsed(t) PROVE inWindow'[t] = inWindow[t]
      BY <2>a
    <3> QED
      BY <2>4 DEF Refuse, RequestsCounted, TypeOK, limitVars
  <2> QED
    BY <2>1, <2>2, <2>3, <2>4
       DEF Next, RegistryStep, RequestStep, ReplaceToken, UnregisterChat, Authorize,
           FinishUpstream, Tick, vars, limitVars
<1>2. QED
  BY <1>1, TypeCorrect, PTL DEF Spec, WindowNeverRefunded

-----------------------------------------------------------------------------
(* The lifecycle locks. *)

\* A caller that has not yet run its removal test.
Attached(t) == pc[t] \in {"waiting", "running", "released"}

\* The inductive strengthening, by parts.
AttachedToMap ==
    \A t \in Tasks : Attached(t) => lifecycle_locks[chat[t]] = arc[t]

OneGuardPerLock ==
    \A t, u \in Tasks :
        pc[t] = "running" /\ pc[u] = "running" /\ arc[t] = arc[u] => t = u

MapIsInjective ==
    \A c, d \in ChatIds :
        lifecycle_locks[c] # NoLock /\ lifecycle_locks[c] = lifecycle_locks[d] => c = d

CloneOfOwnChat ==
    \A t \in Tasks, c \in ChatIds :
        arc[t] # NoLock /\ lifecycle_locks[c] = arc[t] => c = chat[t]

LockInv ==
    /\ LockTypeOK
    /\ AttachedToMap
    /\ OneGuardPerLock
    /\ MapIsInjective
    /\ CloneOfOwnChat
    /\ ChatsIndependent

-----------------------------------------------------------------------------
(* Lemmas about the references to a lock object. *)

\* The references that Arc::strong_count counts are finitely many.
LEMMA RefsAreFinite ==
  ASSUME NEW l
  PROVE  /\ IsFiniteSet(MapRefs(l)) /\ IsFiniteSet(TaskRefs(l))
         /\ Cardinality(MapRefs(l)) \in Nat /\ Cardinality(TaskRefs(l)) \in Nat
BY LifecycleLockAssumption, FS_Subset, FS_CardinalityType DEF MapRefs, TaskRefs

\* A finite set with one member has a positive cardinality, with two different
\* members at least two.
LEMMA AtLeastOne ==
  ASSUME NEW S, IsFiniteSet(S), NEW x \in S
  PROVE  Cardinality(S) >= 1
BY FS_EmptySet, FS_CardinalityType

\* Two different members make at least two.
LEMMA AtLeastTwo ==
  ASSUME NEW S, IsFiniteSet(S), NEW x \in S, NEW y \in S, x # y
  PROVE  Cardinality(S) >= 2
<1>1. /\ IsFiniteSet(S \ {x})
      /\ Cardinality(S \ {x}) = Cardinality(S) - 1
  BY FS_RemoveElement
<1>2. y \in S \ {x}
  OBVIOUS
<1>3. Cardinality(S \ {x}) >= 1
  BY <1>1, <1>2, AtLeastOne
<1>4. Cardinality(S) \in Nat
  BY FS_CardinalityType
<1> QED
  BY <1>1, <1>3, <1>4

\* A caller that may remove the map entry is the only one with a clone.
LEMMA SoleUser ==
  ASSUME LockTypeOK, NEW t \in Tasks, ShouldRemove(t), NEW u \in Tasks, arc[u] = arc[t]
  PROVE  u = t
<1> SUFFICES ASSUME u # t PROVE FALSE
  OBVIOUS
<1>1. chat[t] \in MapRefs(arc[t]) /\ t \in TaskRefs(arc[t]) /\ u \in TaskRefs(arc[t])
  BY DEF ShouldRemove, MapRefs, TaskRefs, LockTypeOK
<1>2. Cardinality(MapRefs(arc[t])) >= 1 /\ Cardinality(TaskRefs(arc[t])) >= 2
  BY <1>1, AtLeastOne, AtLeastTwo, RefsAreFinite
<1>3. StrongCount(arc[t]) = 2
  BY DEF ShouldRemove
<1> QED
  BY <1>2, <1>3, RefsAreFinite DEF StrongCount

-----------------------------------------------------------------------------

\* Every step of with_chat_lifecycle_lock preserves the invariant.
LEMMA LockInvStep == LockInv /\ [LockNext]_lockVars => LockInv'
<1> SUFFICES ASSUME LockInv, [LockNext]_lockVars PROVE LockInv'
  OBVIOUS
<1> USE LifecycleLockAssumption
<1>1. ASSUME NEW t \in Tasks, NEW c \in ChatIds, CloneLock(t, c) PROVE LockInv'
  <2>1. PICK l \in Locks :
           /\ \/ l = lifecycle_locks[c]
              \/ lifecycle_locks[c] = NoLock /\ l \in FreeLocks
           /\ lifecycle_locks' = [lifecycle_locks EXCEPT ![c] = l]
           /\ arc' = [arc EXCEPT ![t] = l]
    BY <1>1 DEF CloneLock, FreeLocks, LockInv, LockTypeOK
  <2>2. pc[t] = "idle" /\ arc[t] = NoLock
    BY <1>1 DEF CloneLock, LockInv, LockTypeOK
  <2>3. /\ pc' = [pc EXCEPT ![t] = "waiting"]
        /\ chat' = [chat EXCEPT ![t] = c]
    BY <1>1 DEF CloneLock
  <2>4. \A u \in Tasks : arc[u] = l => chat[u] = c
    BY <2>1 DEF LockInv, CloneOfOwnChat, FreeLocks, TaskRefs
  <2>5. \A d \in ChatIds : lifecycle_locks[d] = l => d = c
    BY <2>1 DEF LockInv, MapIsInjective, FreeLocks, MapRefs
  <2>6. LockTypeOK'
    BY <2>1, <2>2, <2>3 DEF LockInv, LockTypeOK
  <2>7. AttachedToMap'
    <3> SUFFICES ASSUME NEW u \in Tasks, Attached(u)'
                 PROVE  lifecycle_locks'[chat'[u]] = arc'[u]
      BY DEF AttachedToMap
    <3>1. CASE u = t
      BY <3>1, <2>1, <2>3 DEF LockInv, LockTypeOK
    <3>2. CASE u # t
      <4>1. Attached(u) /\ chat'[u] = chat[u] /\ arc'[u] = arc[u]
        BY <3>2, <2>1, <2>3 DEF Attached, LockInv, LockTypeOK
      <4>2. lifecycle_locks[chat[u]] = arc[u] /\ arc[u] # NoLock
        BY <4>1 DEF LockInv, AttachedToMap, Attached, LockTypeOK
      <4>3. chat[u] = c => lifecycle_locks[c] # NoLock
        BY <4>2
      <4> QED
        BY <4>1, <4>2, <4>3, <2>1 DEF LockInv, LockTypeOK
    <3> QED
      BY <3>1, <3>2
  <2>8. OneGuardPerLock'
    BY <2>1, <2>3 DEF LockInv, LockTypeOK, OneGuardPerLock
  <2>9. MapIsInjective'
    BY <2>1, <2>5 DEF LockInv, LockTypeOK, MapIsInjective
  <2>10. CloneOfOwnChat'
    <3> SUFFICES ASSUME NEW u \in Tasks, NEW d \in ChatIds,
                        arc'[u] # NoLock, lifecycle_locks'[d] = arc'[u]
                 PROVE  d = chat'[u]
      BY DEF CloneOfOwnChat
    <3>1. CASE u = t
      BY <3>1, <2>1, <2>3, <2>5 DEF LockInv, LockTypeOK
    <3>2. CASE u # t
      <4>1. chat'[u] = chat[u] /\ arc'[u] = arc[u]
        BY <3>2, <2>1, <2>3 DEF LockInv, LockTypeOK
      <4>2. CASE d = c
        BY <4>1, <4>2, <2>1, <2>4 DEF LockInv, LockTypeOK
      <4>3. CASE d # c
        BY <4>1, <4>3, <2>1 DEF LockInv, LockTypeOK, CloneOfOwnChat
      <4> QED
        BY <4>2, <4>3
    <3> QED
      BY <3>1, <3>2
  <2>11. ChatsIndependent'
    BY <2>1, <2>3, <2>4 DEF LockInv, LockTypeOK, ChatsIndependent
  <2> QED
    BY <2>6, <2>7, <2>8, <2>9, <2>10, <2>11 DEF LockInv
<1>2. ASSUME NEW t \in Tasks, AcquireLock(t) PROVE LockInv'
  <2>1. /\ pc[t] = "waiting" /\ pc' = [pc EXCEPT ![t] = "running"]
        /\ lifecycle_locks' = lifecycle_locks /\ chat' = chat /\ arc' = arc
        /\ \A u \in Tasks : pc[u] = "running" => arc[u] # arc[t]
    BY <1>2 DEF AcquireLock, Locked
  <2>2. OneGuardPerLock'
    BY <2>1 DEF LockInv, LockTypeOK, OneGuardPerLock
  <2>3. AttachedToMap'
    BY <2>1 DEF LockInv, LockTypeOK, AttachedToMap, Attached
  <2> QED
    BY <2>1, <2>2, <2>3
       DEF LockInv, LockTypeOK, MapIsInjective, CloneOfOwnChat, ChatsIndependent
<1>3. ASSUME NEW t \in Tasks, DropGuard(t) PROVE LockInv'
  BY <1>3 DEF DropGuard, LockInv, LockTypeOK, AttachedToMap, Attached, OneGuardPerLock,
              MapIsInjective, CloneOfOwnChat, ChatsIndependent
<1>4. ASSUME NEW t \in Tasks, RemoveUnused(t) PROVE LockInv'
  <2>1. /\ pc[t] = "released" /\ pc' = [pc EXCEPT ![t] = "dropping"]
        /\ chat' = chat /\ arc' = arc
    BY <1>4 DEF RemoveUnused
  <2>2. CASE ~ShouldRemove(t)
    <3>1. lifecycle_locks' = lifecycle_locks
      BY <1>4, <2>2 DEF RemoveUnused
    <3> QED
      BY <2>1, <3>1 DEF LockInv, LockTypeOK, AttachedToMap, Attached, OneGuardPerLock,
                        MapIsInjective, CloneOfOwnChat, ChatsIndependent
  <2>3. CASE ShouldRemove(t)
    <3>1. lifecycle_locks' = [lifecycle_locks EXCEPT ![chat[t]] = NoLock]
      BY <1>4, <2>3 DEF RemoveUnused
    <3>2. AttachedToMap'
      <4> SUFFICES ASSUME NEW u \in Tasks, Attached(u)'
                   PROVE  lifecycle_locks'[chat[u]] = arc[u]
        BY <2>1 DEF AttachedToMap
      <4>1. u # t /\ Attached(u)
        BY <2>1 DEF Attached, LockInv, LockTypeOK
      <4>2. lifecycle_locks[chat[u]] = arc[u]
        BY <4>1 DEF LockInv, AttachedToMap
      <4>3. arc[u] # arc[t]
        BY <4>1, <2>3, SoleUser DEF LockInv
      <4>4. chat[u] # chat[t]
        BY <4>2, <4>3, <2>3 DEF ShouldRemove
      <4> QED
        BY <3>1, <4>2, <4>4 DEF LockInv, LockTypeOK
    <3>3. LockTypeOK' /\ OneGuardPerLock' /\ ChatsIndependent'
      BY <2>1, <3>1 DEF LockInv, LockTypeOK, OneGuardPerLock, ChatsIndependent
    <3>4. MapIsInjective' /\ CloneOfOwnChat'
      BY <2>1, <3>1 DEF LockInv, LockTypeOK, MapIsInjective, CloneOfOwnChat
    <3> QED
      BY <3>2, <3>3, <3>4 DEF LockInv
  <2> QED
    BY <2>2, <2>3
<1>5. ASSUME NEW t \in Tasks, DropClone(t) PROVE LockInv'
  BY <1>5 DEF DropClone, LockInv, LockTypeOK, AttachedToMap, Attached, OneGuardPerLock,
              MapIsInjective, CloneOfOwnChat, ChatsIndependent
<1>6. CASE UNCHANGED lockVars
  BY <1>6 DEF lockVars, LockInv, LockTypeOK, AttachedToMap, Attached, OneGuardPerLock,
              MapIsInjective, CloneOfOwnChat, ChatsIndependent
<1> QED
  BY <1>1, <1>2, <1>3, <1>4, <1>5, <1>6 DEF LockNext

\* The invariant holds in every behaviour.
LEMMA LockInvHolds == LockSpec => []LockInv
<1>1. LockInit => LockInv
  BY LifecycleLockAssumption
     DEF LockInit, LockInv, LockTypeOK, AttachedToMap, Attached, OneGuardPerLock,
         MapIsInjective, CloneOfOwnChat, ChatsIndependent
<1>2. QED
  BY <1>1, LockInvStep, PTL DEF LockSpec

\* The lock map keeps its types, and a caller outside holds no clone.
THEOREM LockTypeCorrect == LockSpec => []LockTypeOK
<1>1. LockInv => LockTypeOK
  BY DEF LockInv
<1>2. QED
  BY <1>1, LockInvHolds, PTL

\* Two operations of one chat hold the map's object, hence the same one.
LEMMA LockInvExcludes == LockInv => MutualExclusion
BY DEF LockInv, AttachedToMap, Attached, OneGuardPerLock, MutualExclusion

\* At most one lifecycle operation per chat runs at any time.
THEOREM MutualExclusionHolds == LockSpec => []MutualExclusion
BY LockInvExcludes, LockInvHolds, PTL

\* Operations of different chats never share a lock object.
THEOREM ChatsIndependentHolds == LockSpec => []ChatsIndependent
<1>1. LockInv => ChatsIndependent
  BY DEF LockInv
<1>2. QED
  BY <1>1, LockInvHolds, PTL

-----------------------------------------------------------------------------
(* Refinement. *)

\* Each step of the lock map is a step of the abstract mutex or invisible.
LEMMA StepRefines ==
  LockInv /\ [LockNext]_lockVars => [Abstract!Next]_<<phaseBar, chat>>
<1> SUFFICES ASSUME LockInv, [LockNext]_lockVars
             PROVE  Abstract!Next \/ UNCHANGED <<phaseBar, chat>>
  OBVIOUS
<1> USE DEF phaseBar
<1>0. LockTypeOK
  BY DEF LockInv
<1>1. ASSUME NEW t \in Tasks, NEW c \in ChatIds, CloneLock(t, c)
      PROVE  Abstract!Request(t, c)
  BY <1>0, <1>1 DEF CloneLock, Abstract!Request, LockTypeOK
<1>2. ASSUME NEW t \in Tasks, AcquireLock(t) PROVE Abstract!Enter(t)
  <2>1. phaseBar[t] = "waiting" /\ phaseBar' = [phaseBar EXCEPT ![t] = "running"]
    BY <1>0, <1>2 DEF AcquireLock, LockTypeOK
  <2>2. Abstract!Running(chat[t]) = {}
    <3> SUFFICES ASSUME NEW u \in Tasks, pc[u] = "running", chat[u] = chat[t]
                 PROVE  FALSE
      BY <1>0 DEF Abstract!Running, LockTypeOK
    <3>1. arc[u] = arc[t]
      BY <1>2 DEF LockInv, AttachedToMap, Attached, AcquireLock
    <3> QED
      BY <3>1, <1>2 DEF AcquireLock, Locked
  <2> QED
    BY <1>2, <2>1, <2>2 DEF Abstract!Enter, AcquireLock
<1>3. ASSUME NEW t \in Tasks, DropGuard(t) PROVE Abstract!Leave(t)
  BY <1>0, <1>3 DEF DropGuard, Abstract!Leave, LockTypeOK
<1>4. ASSUME NEW t \in Tasks, RemoveUnused(t) PROVE UNCHANGED <<phaseBar, chat>>
  BY <1>0, <1>4 DEF RemoveUnused, LockTypeOK
<1>5. ASSUME NEW t \in Tasks, DropClone(t) PROVE UNCHANGED <<phaseBar, chat>>
  BY <1>0, <1>5 DEF DropClone, LockTypeOK
<1>6. CASE UNCHANGED lockVars
  BY <1>6 DEF lockVars
<1> QED
  BY <1>1, <1>2, <1>3, <1>4, <1>5, <1>6 DEF LockNext, Abstract!Next

\* with_chat_lifecycle_lock is a mutex per chat.
THEOREM LifecycleLockImplements == LockSpec => ImplementsChatMutex
<1>1. LockInit => Abstract!Init
  BY DEF LockInit, Abstract!Init, phaseBar
<1>2. QED
  BY <1>1, StepRefines, LockInvHolds, PTL
     DEF LockSpec, ImplementsChatMutex, Abstract!Spec, Abstract!vars

=============================================================================
