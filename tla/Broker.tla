------------------------------- MODULE Broker -------------------------------
(***************************************************************************)
(* The host broker of telellm (src/broker.rs): the registry of sandbox     *)
(* tokens, the per-token request limits, and the HTTP handlers that admit  *)
(* a sandbox request, forward it upstream and give its slot back.          *)
(*                                                                         *)
(* The registry keeps two maps behind two different locks: active_tokens   *)
(* (token -> chat) behind a RwLock and request_limits (token -> counters)  *)
(* behind a Mutex.  Registering and unregistering touch them one after the *)
(* other, and so does a request: between the two steps of one task any     *)
(* other task may run.  That is what this module is about.                 *)
(***************************************************************************)
EXTENDS Naturals, FiniteSets

CONSTANTS
    Chats,              \* chat ids
    Tokens,             \* broker tokens
    TokenChat,          \* the chat a token is generated for (32 random bytes
                        \* never come out twice: runtime.rs BrokerToken::generate)
    NoChat,             \* "no owner", "no x-telellm-chat-id header"
    NoToken,            \* a request that presents no token
    Requests,           \* the tasks axum runs the two POST handlers in
    MaxConcurrent,      \* limits.max_concurrent_requests
    MaxRequests,        \* limits.max_requests_per_window
    RequestWindow,      \* limits.request_window, in ticks
    MaxRegistryChanges  \* BOUND: registrations and unregistrations explored

ASSUME BrokerAssumption ==
    /\ IsFiniteSet(Requests)
    /\ TokenChat \in [Tokens -> Chats]
    /\ NoChat \notin Chats
    /\ NoToken \notin Tokens
    /\ MaxConcurrent \in Nat
    /\ MaxRequests \in Nat
    /\ RequestWindow \in Nat
    /\ MaxRegistryChanges \in Nat

VARIABLES
    active,     \* active_tokens: the chat a token is registered for, or NoChat
    limited,    \* the keys of request_limits
    age,        \* ticks since window_started, saturated at RequestWindow
    inWindow,   \* requests_in_window
    inFlight,   \* in_flight
    unlimiting, \* per chat, the tokens its registry caller took out of
                \* active_tokens and has yet to take out of request_limits
    stage,      \* where a request's handler is
    token,      \* the bearer token a handler holds
    header,     \* the chat id metadata of that request
    changes,    \* registry changes so far (only for the bound)
    forgotten   \* HISTORY: in-flight slots thrown away with a limit state

registryVars == <<active, unlimiting, changes>>
limitVars    == <<limited, age, inWindow, inFlight, forgotten>>
requestVars  == <<stage, token, header>>
vars         == <<registryVars, limitVars, requestVars>>

-----------------------------------------------------------------------------

Init ==
    /\ active     = [t \in Tokens |-> NoChat]
    /\ limited    = {}
    /\ age        = [t \in Tokens |-> 0]
    /\ inWindow   = [t \in Tokens |-> 0]
    /\ inFlight   = [t \in Tokens |-> 0]
    /\ unlimiting = [c \in Chats |-> {}]
    /\ stage      = [r \in Requests |-> "idle"]
    /\ token      = [r \in Requests |-> NoToken]
    /\ header     = [r \in Requests |-> NoChat]
    /\ changes    = 0
    /\ forgotten  = [t \in Tokens |-> 0]

-----------------------------------------------------------------------------
(* The registry.  Calls for one chat come one at a time, because runtime.rs *)
(* makes them under the chat's lifecycle lock (module LifecycleLock);       *)
(* unlimiting[c] # {} is a call of chat c between its two locks.            *)

TokensOf(c) == {t \in Tokens : active[t] = c}

RegistryIdle(c) == unlimiting[c] = {}

\* MUTANT of ReplaceToken: insert without removing the chat's old tokens.
ReplaceTokenKeepingOld(c, t) ==
    /\ RegistryIdle(c)
    /\ TokenChat[t] = c
    /\ changes < MaxRegistryChanges
    /\ active' = [active EXCEPT ![t] = c]
    /\ unlimiting' = [unlimiting EXCEPT ![c] = TokensOf(c)]
    /\ changes' = changes + 1
    /\ UNCHANGED <<limitVars, requestVars>>

\* replace_chat_token, first half (register_token and rotate_token): under the
\* write lock, the chat's tokens go out and the new one comes in.
ReplaceToken(c, t) ==
    /\ RegistryIdle(c)
    /\ TokenChat[t] = c
    /\ changes < MaxRegistryChanges
    /\ active' = [u \in Tokens |-> IF u = t THEN c
                                   ELSE IF active[u] = c THEN NoChat
                                   ELSE active[u]]
    /\ unlimiting' = [unlimiting EXCEPT ![c] = TokensOf(c)]
    /\ changes' = changes + 1
    /\ UNCHANGED <<limitVars, requestVars>>

\* unregister_chat, first half.
UnregisterChat(c) ==
    /\ RegistryIdle(c)
    /\ changes < MaxRegistryChanges
    /\ active' = [u \in Tokens |-> IF active[u] = c THEN NoChat ELSE active[u]]
    /\ unlimiting' = [unlimiting EXCEPT ![c] = TokensOf(c)]
    /\ changes' = changes + 1
    /\ UNCHANGED <<limitVars, requestVars>>

\* remove_limit_states, the second half of both.  A re-registered token is in
\* the removed set too, although it is active again.
RemoveLimitStates(c) ==
    LET gone == unlimiting[c]
        Cleared(f) == [t \in Tokens |-> IF t \in gone THEN 0 ELSE f[t]]
    IN  /\ gone # {}
        /\ limited'    = limited \ gone
        /\ age'        = Cleared(age)
        /\ inWindow'   = Cleared(inWindow)
        /\ inFlight'   = Cleared(inFlight)
        /\ forgotten'  = [t \in Tokens |-> IF t \in gone
                                           THEN forgotten[t] + inFlight[t]
                                           ELSE forgotten[t]]
        /\ unlimiting' = [unlimiting EXCEPT ![c] = {}]
        /\ UNCHANGED <<active, changes, requestVars>>

-----------------------------------------------------------------------------
(* The request handlers. *)

\* authorize_sandbox_request up to the owner lookup.  No bearer token, a token
\* nobody registered (401) and a header naming another chat (403) end here.
Authorize(r, t, h) ==
    /\ stage[r] = "idle"
    /\ t # NoToken
    /\ active[t] # NoChat
    /\ h \in {NoChat, active[t]}
    /\ stage'  = [stage  EXCEPT ![r] = "authorized"]
    /\ token'  = [token  EXCEPT ![r] = t]
    /\ header' = [header EXCEPT ![r] = h]
    /\ UNCHANGED <<registryVars, limitVars>>

LimitsEnabled == MaxRequests # 0 /\ MaxConcurrent # 0 /\ RequestWindow # 0

\* now.duration_since(window_started) >= request_window
WindowElapsed(t) == age[t] >= RequestWindow

\* What requests_in_window holds once an elapsed window has been restarted.
RequestsCounted(t) == IF WindowElapsed(t) THEN 0 ELSE inWindow[t]

\* MUTANT of HasCapacity: one call more than the limit.
HasCapacityOneMoreCall(t) ==
    inFlight[t] <= MaxConcurrent /\ RequestsCounted(t) < MaxRequests

HasCapacity(t) ==
    /\ inFlight[t] < MaxConcurrent
    /\ RequestsCounted(t) < MaxRequests

\* entry().or_insert_with() and the window restart: both happen whether or not
\* the request is then admitted.
TouchLimitState(t) ==
    /\ limited' = limited \cup {t}
    /\ age' = [age EXCEPT ![t] = IF WindowElapsed(t) THEN 0 ELSE @]

Idle(r) ==
    /\ stage'  = [stage  EXCEPT ![r] = "idle"]
    /\ token'  = [token  EXCEPT ![r] = NoToken]
    /\ header' = [header EXCEPT ![r] = NoChat]

\* acquire_request_slot, admitted: the handler now owns a permit.
Admit(r) ==
    LET t == token[r] IN
    /\ stage[r] = "authorized"
    /\ LimitsEnabled
    /\ HasCapacity(t)
    /\ TouchLimitState(t)
    /\ inFlight' = [inFlight EXCEPT ![t] = @ + 1]
    /\ inWindow' = [inWindow EXCEPT ![t] = RequestsCounted(t) + 1]
    /\ stage'    = [stage EXCEPT ![r] = "upstream"]
    /\ UNCHANGED <<registryVars, forgotten, token, header>>

\* acquire_request_slot, 429: limits of zero are refused before the map is
\* even locked, a full limit after its window was looked at.
Refuse(r) ==
    LET t == token[r] IN
    /\ stage[r] = "authorized"
    /\ Idle(r)
    /\ \/ /\ ~LimitsEnabled
          /\ UNCHANGED limitVars
       \/ /\ LimitsEnabled
          /\ ~HasCapacity(t)
          /\ TouchLimitState(t)
          /\ inWindow' = [inWindow EXCEPT ![t] = RequestsCounted(t)]
          /\ UNCHANGED <<inFlight, forgotten>>
    /\ UNCHANGED registryVars

\* MUTANT of DropPermit: a drop that leaks the slot of a revoked token.
DropPermitOfActiveOnly(t) ==
    inFlight' = [inFlight EXCEPT ![t] =
                    IF active[t] # NoChat /\ @ > 0 THEN @ - 1 ELSE @]

\* BrokerRequestPermit::drop: saturating_sub, and only if the token still has
\* (or has again) a limit state.
DropPermit(t) ==
    inFlight' = [inFlight EXCEPT ![t] =
                    IF t \in limited /\ @ > 0 THEN @ - 1 ELSE @]

\* The upstream call answers, fails (502), or the sandbox hangs up and axum
\* drops the handler: the permit goes in every case.
FinishUpstream(r) ==
    /\ stage[r] = "upstream"
    /\ DropPermit(token[r])
    /\ Idle(r)
    /\ UNCHANGED <<registryVars, limited, age, inWindow, forgotten>>

\* Time passes for every limit state alike (Instant::now()).
Tick ==
    /\ age' = [t \in Tokens |-> IF t \in limited /\ age[t] < RequestWindow
                                THEN age[t] + 1 ELSE age[t]]
    /\ UNCHANGED <<registryVars, limited, inWindow, inFlight, forgotten, requestVars>>

-----------------------------------------------------------------------------

RegistryStep ==
    \E c \in Chats :
        \/ \E t \in Tokens : ReplaceToken(c, t)
        \/ UnregisterChat(c)
        \/ RemoveLimitStates(c)

RequestStep ==
    \E r \in Requests :
        \/ \E t \in Tokens \cup {NoToken}, h \in Chats \cup {NoChat} : Authorize(r, t, h)
        \/ Admit(r)
        \/ Refuse(r)
        \/ FinishUpstream(r)

Next == RegistryStep \/ RequestStep \/ Tick

Spec == Init /\ [][Next]_vars

-----------------------------------------------------------------------------
(* Properties. *)

\* The permits alive for a token: the requests it has upstream.
Holders(t) == {r \in Requests : stage[r] = "upstream" /\ token[r] = t}
Live(t)    == Cardinality(Holders(t))

\* The variables have their types; a token without a limit state has zeros.
TypeOK ==
    /\ active     \in [Tokens -> Chats \cup {NoChat}]
    /\ limited    \in SUBSET Tokens
    /\ age        \in [Tokens -> Nat]
    /\ inWindow   \in [Tokens -> Nat]
    /\ inFlight   \in [Tokens -> Nat]
    /\ unlimiting \in [Chats -> SUBSET Tokens]
    /\ stage      \in [Requests -> {"idle", "authorized", "upstream"}]
    /\ token      \in [Requests -> Tokens \cup {NoToken}]
    /\ header     \in [Requests -> Chats \cup {NoChat}]
    /\ changes    \in Nat
    /\ forgotten  \in [Tokens -> Nat]
    /\ \A r \in Requests : stage[r] # "idle" => token[r] \in Tokens

\* A chat never has two usable tokens, whatever the order of registrations:
\* replace_chat_token removes and inserts under one write lock.
OneTokenPerChat ==
    \A t, u \in Tokens :
        active[t] # NoChat /\ active[t] = active[u] => t = u

\* No slot leaks: the in_flight counter of a token never exceeds the requests
\* that really are upstream, through every order of admissions, registrations
\* that throw counters away, and permits of old counters dropped on new ones.
\* A leaked slot would lower the chat's concurrency until the next rotation.
NoLeakedSlot == \A t \in Tokens : inFlight[t] <= Live(t)

\* The concurrency limit can be exceeded by exactly the slots the registry
\* threw away with a limit state (remove_limit_states with permits alive), and
\* by nothing else: a token whose limit state was never removed while it was
\* in use has at most max_concurrent_requests calls upstream.
ExcessIsForgotten == \A t \in Tokens : Live(t) <= MaxConcurrent + forgotten[t]

\* The counters stay within the configured limits at every moment.
CountersBounded ==
    \A t \in Tokens : inFlight[t] <= MaxConcurrent /\ inWindow[t] <= MaxRequests

\* The request window cannot be spent early: while a limit state lives, its
\* request count goes down only when its window has elapsed, so at most
\* max_requests_per_window admissions fall between two restarts of a window.
WindowNeverRefunded ==
    [][\A t \in Tokens :
          inWindow'[t] < inWindow[t] =>
              \/ WindowElapsed(t)
              \/ \E c \in Chats : t \in unlimiting[c]]_vars

\* A request that names a chat is admitted only with that chat's token, even
\* when the registry changes between the lookup and the admission.
AdmittedForItsChat ==
    \A r \in Requests :
        stage[r] # "idle" => header[r] \in {NoChat, TokenChat[token[r]]}

\* What docs/reference/broker.md says of the concurrency limit.
ConcurrencyLimitHolds == \A t \in Tokens : Live(t) <= MaxConcurrent

=============================================================================
