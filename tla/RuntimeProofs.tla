---------------------------- MODULE RuntimeProofs ----------------------------
(***************************************************************************)
(* Proofs about module Runtime, for any number of chats and callers, both  *)
(* authentication modes and any combination of faults: types, mutual       *)
(* exclusion, agreement of the daemon's views of a chat when nothing runs, *)
(* and no session while its sandbox is being replaced.                     *)
(*                                                                         *)
(* Agreement at rest is not inductive: in the middle of an operation the   *)
(* views do differ.  The invariant says, step by step, how they differ     *)
(* then (RunnerInv), which works because the lifecycle lock lets one       *)
(* operation of a chat run at a time.                                      *)
(***************************************************************************)
EXTENDS Runtime, TLAPS

-----------------------------------------------------------------------------
(* Types and mutual exclusion. *)

\* Types: no step of an operation, no fault and no restart leaves a map with a
\* value out of its range.
THEOREM TypeCorrect == Spec => []TypeOK
<1> USE RuntimeAssumption
<1>1. Init => TypeOK
  BY DEF Init, TypeOK, Mutex!TypeOK, Ops, Steps
<1>2. TypeOK /\ [Next]_vars => TypeOK'
  <2> SUFFICES ASSUME TypeOK, [Next]_vars PROVE TypeOK'
    OBVIOUS
  <2> USE DEF TypeOK, Mutex!TypeOK, Ops, Steps, DockerSteps, At, Go, SetState, Return,
              lockVars, taskVars, statusVars, authVars, dockerVars, routerVars, processVars,
              dockerStepUnchanged, Mutex!Leave
  <2>1. ASSUME NEW t \in Tasks, NEW c \in Chats, NEW o \in Ops, Call(t, c, o) PROVE TypeOK'
    BY <2>1 DEF Call, Mutex!Request
  <2>2. ASSUME NEW t \in Tasks, Enter(t) PROVE TypeOK'
    BY <2>2 DEF Enter, Mutex!Enter
  <2>3. ASSUME NEW t \in Tasks, EnsureRegistered(t) PROVE TypeOK'
    BY <2>3 DEF EnsureRegistered
  <2>4. ASSUME NEW t \in Tasks, EnsureUnregistered(t) PROVE TypeOK'
    BY <2>4 DEF EnsureUnregistered
  <2>5. ASSUME NEW t \in Tasks, BeginReplace(t) PROVE TypeOK'
    BY <2>5 DEF BeginReplace
  <2>6. ASSUME NEW t \in Tasks, MarkStale(t) PROVE TypeOK'
    BY <2>6 DEF MarkStale
  <2>7. ASSUME NEW t \in Tasks, Deregister(t) PROVE TypeOK'
    BY <2>7 DEF Deregister
  <2>8. ASSUME NEW t \in Tasks, Rotate(t) PROVE TypeOK'
    BY <2>8 DEF Rotate
  <2>9. ASSUME NEW t \in Tasks, Unregister(t) PROVE TypeOK'
    BY <2>9 DEF Unregister
  <2>10. ASSUME NEW t \in Tasks, BuildSpec(t) PROVE TypeOK'
    BY <2>10 DEF BuildSpec, FirstDockerStep
  <2>11. ASSUME NEW t \in Tasks, RemoveContainer(t) PROVE TypeOK'
    BY <2>11 DEF RemoveContainer
  <2>12. ASSUME NEW t \in Tasks, ClearVolume(t) PROVE TypeOK'
    BY <2>12 DEF ClearVolume
  <2>13. ASSUME NEW t \in Tasks, Inspect(t) PROVE TypeOK'
    <3>1. container[chat[t]] \in {"missing", "stopped", "running"}
      OBVIOUS
    <3> QED
      BY <2>13, <3>1 DEF Inspect
  <2>14. ASSUME NEW t \in Tasks, StartContainer(t) PROVE TypeOK'
    BY <2>14 DEF StartContainer
  <2>15. ASSUME NEW t \in Tasks, RunContainer(t) PROVE TypeOK'
    BY <2>15 DEF RunContainer
  <2>16. ASSUME NEW t \in Tasks, RestartContainer(t) PROVE TypeOK'
    BY <2>16 DEF RestartContainer
  <2>17. ASSUME NEW t \in Tasks, SpawnSession(t) PROVE TypeOK'
    BY <2>17 DEF SpawnSession
  <2>18. ASSUME NEW t \in Tasks, RegisterToken(t) PROVE TypeOK'
    BY <2>18 DEF RegisterToken
  <2>19. ASSUME NEW t \in Tasks, MarkReady(t) PROVE TypeOK'
    BY <2>19 DEF MarkReady
  <2>20. ASSUME NEW t \in Tasks, RegisterSession(t) PROVE TypeOK'
    BY <2>20 DEF RegisterSession
  <2>21. ASSUME NEW t \in Tasks, InsertRegistered(t) PROVE TypeOK'
    BY <2>21 DEF InsertRegistered
  <2>22. ASSUME NEW t \in Tasks, RecordSuccess(t) PROVE TypeOK'
    BY <2>22 DEF RecordSuccess
  <2>23. ASSUME NEW t \in Tasks, RecordFailure(t) PROVE TypeOK'
    BY <2>23 DEF RecordFailure
  <2>24. ASSUME NEW t \in Tasks, DockerFails(t) PROVE TypeOK'
    BY <2>24 DEF DockerFails
  <2>25. ASSUME NEW t \in Tasks, RunCreatesOnly(t) PROVE TypeOK'
    BY <2>25 DEF RunCreatesOnly
  <2>26. ASSUME NEW c \in Chats, Work(c) \/ BeginTurn(c) \/ EndTurn(c) PROVE TypeOK'
    BY <2>26 DEF Work, BeginTurn, EndTurn
  <2>27. ASSUME NEW c \in Chats, ContainerStops(c) PROVE TypeOK'
    BY <2>27 DEF ContainerStops
  <2>28. CASE Crash
    BY <2>28 DEF Crash
  <2>29. CASE UNCHANGED vars
    BY <2>29 DEF vars
  <2> QED
    BY <2>1, <2>2, <2>3, <2>4, <2>5, <2>6, <2>7, <2>8, <2>9, <2>10, <2>11, <2>12,
       <2>13, <2>14, <2>15, <2>16, <2>17, <2>18, <2>19, <2>20, <2>21, <2>22, <2>23,
       <2>24, <2>25, <2>26, <2>27, <2>28, <2>29
       DEF Next, OperationStep
<1>3. QED
  BY <1>1, <1>2, PTL DEF Spec

-----------------------------------------------------------------------------
(* What a running operation has done to its chat. *)

UsesBroker == AuthMode = "broker_api_key"

\* The daemon's views of a chat agree.
Agrees(c) ==
    /\ c \in registered <=> session[c] # 0
    /\ c \in registered <=> state[c] = "ready"
    /\ c \in registered => session[c] = generation[c]
    /\ state[c] # "starting"
    /\ c \in registered /\ UsesBroker =>
          acceptedToken[c] = brokerToken[c] /\ brokerToken[c] # 0

\* The chat has no session, in either map.
Detached(c) == c \notin registered /\ session[c] = 0

\* The broker accepts the token of the operation's spec.
TokenAccepted(c) == UsesBroker => acceptedToken[c] = brokerToken[c] /\ brokerToken[c] # 0

\* The state of its chat, at each step of the operation t.
RunnerInv(t) ==
    LET c == chat[t] IN
    /\ step[t] = "begin" => Agrees(c)
    /\ step[t] = "register_token" => UsesBroker
    /\ step[t] = "deregister" => session[c] = 0
    /\ step[t] \in {"rotate", "unregister", "spec", "register_token", "mark_ready", "failed"}
                     \cup DockerSteps => Detached(c)
    /\ step[t] \in {"register_token"} \cup DockerSteps /\ UsesBroker =>
          credential[t] = brokerToken[c] /\ brokerToken[c] # 0
    /\ step[t] \in {"mark_ready", "register_session", "insert", "succeeded"} => TokenAccepted(c)
    /\ step[t] \in {"register_session", "insert", "succeeded"} =>
          /\ newGeneration[t] = generation[c]
          /\ generation[c] # 0
          /\ state[c] = "ready"
    /\ step[t] = "register_session" => Detached(c)
    /\ step[t] = "insert" => session[c] = generation[c] /\ c \notin registered
    /\ step[t] = "succeeded" => session[c] = generation[c] /\ c \in registered

OneRunner ==
    \A t, u \in Tasks :
        phase[t] = "running" /\ phase[u] = "running" /\ chat[t] = chat[u] => t = u

\* The inductive strengthening.
RuntimeInv ==
    /\ OneRunner
    /\ \A t \in Tasks : RunnerInv(t)
    /\ \A c \in Chats : Mutex!Running(c) = {} => Agrees(c)
    /\ AcceptedTokenIsLatest

\* Every await of an operation, every fault and every docker event preserves the
\* invariant.
LEMMA RuntimeInvStep == TypeOK /\ RuntimeInv /\ [Next]_vars => RuntimeInv'
<1> SUFFICES ASSUME TypeOK, RuntimeInv, [Next]_vars PROVE RuntimeInv'
  OBVIOUS
<1> USE RuntimeAssumption
    DEF RuntimeInv, OneRunner, RunnerInv, Agrees, Detached, TokenAccepted, UsesBroker,
        AcceptedTokenIsLatest, TypeOK, Mutex!TypeOK, Mutex!Running, Steps, DockerSteps,
        At, Go, SetState, Return, Mutex!Leave, dockerStepUnchanged,
        lockVars, taskVars, statusVars, authVars, dockerVars, routerVars, processVars
<1>1. ASSUME NEW t \in Tasks, NEW c \in Chats, NEW o \in Ops, Call(t, c, o) PROVE RuntimeInv'
  BY <1>1 DEF Call, Mutex!Request, Ops
<1>2. ASSUME NEW t \in Tasks, Enter(t) PROVE RuntimeInv'
  BY <1>2 DEF Enter, Mutex!Enter
<1>3. ASSUME NEW t \in Tasks, EnsureRegistered(t) PROVE RuntimeInv'
  BY <1>3 DEF EnsureRegistered
<1>4. ASSUME NEW t \in Tasks, EnsureUnregistered(t) PROVE RuntimeInv'
  BY <1>4 DEF EnsureUnregistered
<1>5. ASSUME NEW t \in Tasks, BeginReplace(t) PROVE RuntimeInv'
  BY <1>5 DEF BeginReplace
<1>6. ASSUME NEW t \in Tasks, MarkStale(t) PROVE RuntimeInv'
  BY <1>6 DEF MarkStale
<1>7. ASSUME NEW t \in Tasks, Deregister(t) PROVE RuntimeInv'
  BY <1>7 DEF Deregister
<1>8. ASSUME NEW t \in Tasks, Rotate(t) PROVE RuntimeInv'
  BY <1>8 DEF Rotate
<1>9. ASSUME NEW t \in Tasks, Unregister(t) PROVE RuntimeInv'
  BY <1>9 DEF Unregister
<1>10. ASSUME NEW t \in Tasks, BuildSpec(t) PROVE RuntimeInv'
  BY <1>10 DEF BuildSpec, FirstDockerStep, MustRecreate
<1>11. ASSUME NEW t \in Tasks, RemoveContainer(t) PROVE RuntimeInv'
  BY <1>11 DEF RemoveContainer
<1>12. ASSUME NEW t \in Tasks, ClearVolume(t) PROVE RuntimeInv'
  BY <1>12 DEF ClearVolume
<1>13. ASSUME NEW t \in Tasks, Inspect(t) PROVE RuntimeInv'
  BY <1>13 DEF Inspect
<1>14. ASSUME NEW t \in Tasks, StartContainer(t) PROVE RuntimeInv'
  BY <1>14 DEF StartContainer
<1>15. ASSUME NEW t \in Tasks, RunContainer(t) PROVE RuntimeInv'
  BY <1>15 DEF RunContainer
<1>16. ASSUME NEW t \in Tasks, RestartContainer(t) PROVE RuntimeInv'
  BY <1>16 DEF RestartContainer
<1>17. ASSUME NEW t \in Tasks, SpawnSession(t) PROVE RuntimeInv'
  BY <1>17 DEF SpawnSession
<1>18. ASSUME NEW t \in Tasks, RegisterToken(t) PROVE RuntimeInv'
  BY <1>18 DEF RegisterToken
<1>19. ASSUME NEW t \in Tasks, MarkReady(t) PROVE RuntimeInv'
  BY <1>19 DEF MarkReady
<1>20. ASSUME NEW t \in Tasks, RegisterSession(t) PROVE RuntimeInv'
  BY <1>20 DEF RegisterSession
<1>21. ASSUME NEW t \in Tasks, InsertRegistered(t) PROVE RuntimeInv'
  BY <1>21 DEF InsertRegistered
<1>22. ASSUME NEW t \in Tasks, RecordSuccess(t) PROVE RuntimeInv'
  BY <1>22 DEF RecordSuccess
<1>23. ASSUME NEW t \in Tasks, RecordFailure(t) PROVE RuntimeInv'
  BY <1>23 DEF RecordFailure
<1>24. ASSUME NEW t \in Tasks, DockerFails(t) PROVE RuntimeInv'
  BY <1>24 DEF DockerFails
<1>25. ASSUME NEW t \in Tasks, RunCreatesOnly(t) PROVE RuntimeInv'
  BY <1>25 DEF RunCreatesOnly
<1>26. ASSUME NEW c \in Chats, Work(c) \/ BeginTurn(c) \/ EndTurn(c) PROVE RuntimeInv'
  BY <1>26 DEF Work, BeginTurn, EndTurn
<1>27. ASSUME NEW c \in Chats, ContainerStops(c) PROVE RuntimeInv'
  BY <1>27 DEF ContainerStops
<1>28. CASE Crash
  BY <1>28 DEF Crash
<1>29. CASE UNCHANGED vars
  BY <1>29 DEF vars
<1> QED
  BY <1>1, <1>2, <1>3, <1>4, <1>5, <1>6, <1>7, <1>8, <1>9, <1>10, <1>11, <1>12, <1>13, <1>14, <1>15, <1>16, <1>17, <1>18, <1>19, <1>20, <1>21, <1>22, <1>23, <1>24, <1>25, <1>26, <1>27, <1>28, <1>29
     DEF Next, OperationStep

\* The invariant holds in every behaviour.
LEMMA RuntimeInvHolds == Spec => []RuntimeInv
<1>1. Init => RuntimeInv
  BY RuntimeAssumption
     DEF Init, RuntimeInv, OneRunner, RunnerInv, Agrees, Detached, TokenAccepted, UsesBroker,
         AcceptedTokenIsLatest, Mutex!Running, DockerSteps
<1>2. QED
  BY <1>1, TypeCorrect, RuntimeInvStep, PTL DEF Spec

-----------------------------------------------------------------------------
(* The properties the runs check. *)

\* The lifecycle lock of Runtime excludes: two operations never run for one chat.
THEOREM OneRunnerHolds == Spec => []OneRunner
<1>1. RuntimeInv => OneRunner
  BY DEF RuntimeInv
<1>2. QED
  BY <1>1, RuntimeInvHolds, PTL

\* Between operations, status, registered set, router session and accepted token
\* of every chat agree, whatever failed or crashed in the operations before.
THEOREM QuiescentAgreementHolds == Spec => []QuiescentAgreement
<1>1. RuntimeInv => QuiescentAgreement
  BY DEF RuntimeInv, QuiescentAgreement, Agrees, UsesBroker
<1>2. QED
  BY <1>1, RuntimeInvHolds, PTL

\* No docker command runs for a chat that the router still has a session for.
THEOREM NoSessionDuringReplacementHolds == Spec => []NoSessionDuringReplacement
<1>1. RuntimeInv => NoSessionDuringReplacement
  BY DEF RuntimeInv, RunnerInv, Detached, NoSessionDuringReplacement
<1>2. QED
  BY <1>1, RuntimeInvHolds, PTL

\* The broker does not go on accepting a token the daemon has rotated away.
THEOREM AcceptedTokenIsLatestHolds == Spec => []AcceptedTokenIsLatest
<1>1. RuntimeInv => AcceptedTokenIsLatest
  BY DEF RuntimeInv
<1>2. QED
  BY <1>1, RuntimeInvHolds, PTL

-----------------------------------------------------------------------------
(* Generations. *)

\* What the router was given so far lies in 1 .. generation; the number an
\* operation is about to hand over is not among it.
ServedInv ==
    /\ \A c \in Chats : served[c] \subseteq 1..generation[c]
    /\ \A t \in Tasks : step[t] = "register_session" => newGeneration[t] \notin served[chat[t]]

\* The generations given to the router so far are bounded by the status record's.
LEMMA ServedInvStep == TypeOK /\ RuntimeInv /\ ServedInv /\ [Next]_vars => ServedInv'
<1> SUFFICES ASSUME TypeOK, RuntimeInv, ServedInv, [Next]_vars PROVE ServedInv'
  OBVIOUS
<1> USE DEF ServedInv, TypeOK, Mutex!TypeOK, At, Go, Return, Mutex!Leave, dockerStepUnchanged,
            lockVars, taskVars, statusVars, authVars, dockerVars, routerVars, processVars
<1>1. ASSUME NEW t \in Tasks, MarkReady(t) PROVE ServedInv'
  <2>1. phase[t] = "running" /\ OneRunner
    BY <1>1 DEF MarkReady, RuntimeInv
  <2>2. \A u \in Tasks : step[u] = "register_session" => phase[u] = "running" /\ chat[u] # chat[t]
    BY <1>1, <2>1 DEF MarkReady, OneRunner
  <2> QED
    BY <1>1, <2>2 DEF MarkReady, SetState
<1>2. ASSUME NEW t \in Tasks, RegisterSession(t) PROVE ServedInv'
  <2>1. /\ OneRunner
        /\ newGeneration[t] = generation[chat[t]]
        /\ generation[chat[t]] # 0
    BY <1>2 DEF RegisterSession, RuntimeInv, RunnerInv
  <2>2. \A u \in Tasks : step[u] = "register_session" /\ u # t => chat[u] # chat[t]
    BY <1>2, <2>1 DEF RegisterSession, OneRunner
  <2> QED
    BY <1>2, <2>1, <2>2 DEF RegisterSession
<1>3. CASE Crash
  BY <1>3 DEF Crash
<1>4. ASSUME NEW t \in Tasks,
             \/ EnsureRegistered(t) \/ EnsureUnregistered(t)
             \/ BeginReplace(t) \/ MarkStale(t) \/ Deregister(t)
             \/ Rotate(t) \/ Unregister(t) \/ RegisterToken(t)
             \/ SpawnSession(t) \/ InsertRegistered(t)
             \/ RecordSuccess(t) \/ RecordFailure(t)
      PROVE  ServedInv'
  BY <1>4 DEF EnsureRegistered, EnsureUnregistered, BeginReplace, MarkStale, Deregister, Rotate,
              Unregister, RegisterToken, SpawnSession, InsertRegistered, RecordSuccess, RecordFailure,
              SetState
<1>5. ASSUME NEW t \in Tasks,
             \/ RemoveContainer(t) \/ ClearVolume(t) \/ Inspect(t)
             \/ StartContainer(t) \/ RunContainer(t) \/ RestartContainer(t)
             \/ DockerFails(t) \/ RunCreatesOnly(t)
      PROVE  ServedInv'
  <2>1. UNCHANGED <<served, generation, newGeneration, phase, chat>>
    BY <1>5 DEF RemoveContainer, ClearVolume, Inspect, StartContainer, RunContainer,
                RestartContainer, DockerFails, RunCreatesOnly
  <2>2. \A u \in Tasks : step'[u] = "register_session" => step[u] = "register_session"
    BY <1>5 DEF RemoveContainer, ClearVolume, Inspect, StartContainer, RunContainer,
                RestartContainer, DockerFails, RunCreatesOnly
  <2> QED
    BY <2>1, <2>2
<1>6. ASSUME NEW t \in Tasks, BuildSpec(t) PROVE ServedInv'
  BY <1>6 DEF BuildSpec, FirstDockerStep
<1>7. ASSUME NEW t \in Tasks, Enter(t) PROVE ServedInv'
  BY <1>7 DEF Enter, Mutex!Enter
<1>8. ASSUME NEW t \in Tasks, NEW c \in Chats, NEW o \in Ops, Call(t, c, o) PROVE ServedInv'
  BY <1>8 DEF Call, Mutex!Request
<1>9. ASSUME NEW c \in Chats, Work(c) \/ BeginTurn(c) \/ EndTurn(c) \/ ContainerStops(c)
      PROVE  ServedInv'
  BY <1>9 DEF Work, BeginTurn, EndTurn, ContainerStops
<1>10. CASE UNCHANGED vars
  BY <1>10 DEF vars
<1> QED
  BY <1>1, <1>2, <1>3, <1>4, <1>5, <1>6, <1>7, <1>8, <1>9, <1>10 DEF Next, OperationStep

\* The router never gets a generation twice from one process: a worker of a
\* replaced session is not mistaken for a current one.
THEOREM GenerationsAreFreshHolds == Spec => GenerationsAreFresh
<1>1. TypeOK /\ ServedInv /\ [Next]_vars =>
        [\A c \in Chats : session'[c] # session[c] /\ session'[c] # 0
                             => session'[c] \notin served[c]]_vars
  <2> SUFFICES ASSUME TypeOK, ServedInv, Next, NEW c \in Chats,
                      session'[c] # session[c], session'[c] # 0
               PROVE  session'[c] \notin served[c]
    BY DEF vars
  <2> USE DEF Crash, dockerStepUnchanged, routerVars, lockVars, processVars
  <2>1. ASSUME NEW t \in Tasks, RegisterSession(t) PROVE session'[c] \notin served[c]
    BY <2>1 DEF RegisterSession, ServedInv, At, TypeOK
  <2>2. ASSUME NEW t \in Tasks, MarkStale(t) PROVE FALSE
    BY <2>2 DEF MarkStale, TypeOK
  <2>3. Crash => FALSE
    BY DEF TypeOK
  <2>4. ASSUME NEW t \in Tasks,
               \/ Enter(t) \/ EnsureRegistered(t) \/ EnsureUnregistered(t)
               \/ BeginReplace(t) \/ Deregister(t) \/ Rotate(t) \/ Unregister(t)
               \/ BuildSpec(t) \/ RegisterToken(t) \/ SpawnSession(t) \/ MarkReady(t)
               \/ InsertRegistered(t) \/ RecordSuccess(t) \/ RecordFailure(t)
        PROVE  UNCHANGED session
    BY <2>4 DEF Enter, EnsureRegistered, EnsureUnregistered, BeginReplace, Deregister, Rotate,
                Unregister, BuildSpec, RegisterToken, SpawnSession, MarkReady, InsertRegistered,
                RecordSuccess, RecordFailure
  <2>5. ASSUME NEW t \in Tasks,
               \/ RemoveContainer(t) \/ ClearVolume(t) \/ Inspect(t)
               \/ StartContainer(t) \/ RunContainer(t) \/ RestartContainer(t)
               \/ DockerFails(t) \/ RunCreatesOnly(t)
        PROVE  UNCHANGED session
    BY <2>5 DEF RemoveContainer, ClearVolume, Inspect, StartContainer, RunContainer,
                RestartContainer, DockerFails, RunCreatesOnly
  <2>6. ASSUME NEW t \in Tasks, NEW d \in Chats, NEW o \in Ops, Call(t, d, o)
        PROVE  UNCHANGED session
    BY <2>6 DEF Call
  <2>7. ASSUME NEW d \in Chats, Work(d) \/ BeginTurn(d) \/ EndTurn(d) \/ ContainerStops(d)
        PROVE  UNCHANGED session
    BY <2>7 DEF Work, BeginTurn, EndTurn, ContainerStops
  <2> QED
    BY <2>1, <2>2, <2>3, <2>4, <2>5, <2>6, <2>7 DEF Next, OperationStep
<1>2. Init => ServedInv
  BY DEF Init, ServedInv
<1>3. QED
  BY <1>1, <1>2, TypeCorrect, RuntimeInvHolds, ServedInvStep, PTL DEF Spec, GenerationsAreFresh

-----------------------------------------------------------------------------
(* Credentials. *)

\* The daemon has a credential of its own for the chat.
HasCredential(c) == IF UsesBroker THEN brokerToken[c] # 0 ELSE c \in authSeen

\* An operation is about to recreate the chat's container.
WillRecreate(c) ==
    \E t \in Mutex!Running(c) :
        \/ step[t] \in {"unregister", "spec"} /\ RotatesToken(op[t])
        \/ step[t] = "remove"

\* A container with another credential than the daemon's is one that the daemon
\* made no credential for yet, or that is about to be recreated.
CredentialInv ==
    /\ \A c \in Chats \ dockerFailed :
          container[c] # "missing" /\ HasCredential(c) /\ ~WillRecreate(c)
              => baked[c] = CurrentCredential(c)
    /\ \A c \in registered : HasCredential(c)
    /\ \A t \in Tasks :
          /\ step[t] \in {"rotate", "unregister"} => RotatesToken(op[t])
          /\ step[t] = "start" => container[chat[t]] # "missing"
          /\ step[t] \in DockerSteps => credential[t] = CurrentCredential(chat[t])
          /\ step[t] \in {"register_token", "mark_ready", "register_session", "insert", "succeeded"}
                           \cup DockerSteps => HasCredential(chat[t])

\* Every step preserves the relation between the credential a task works with
\* and the one in the container.
LEMMA CredentialInvStep == TypeOK /\ RuntimeInv /\ CredentialInv /\ [Next]_vars => CredentialInv'
<1> SUFFICES ASSUME TypeOK, RuntimeInv, CredentialInv, [Next]_vars PROVE CredentialInv'
  OBVIOUS
<1>0. OneRunner
  BY DEF RuntimeInv
<1> USE RuntimeAssumption, <1>0
    DEF CredentialInv, HasCredential, WillRecreate, CurrentCredential, UsesBroker, OneRunner,
        RotatesToken, TypeOK, Mutex!TypeOK, Mutex!Running, Steps, DockerSteps,
        At, Go, SetState, Return, Mutex!Leave, dockerStepUnchanged,
        lockVars, taskVars, statusVars, authVars, dockerVars, routerVars, processVars
<1>1. ASSUME NEW t \in Tasks, NEW c \in Chats, NEW o \in Ops, Call(t, c, o) PROVE CredentialInv'
  BY <1>1 DEF Call, Mutex!Request, Ops
<1>2. ASSUME NEW t \in Tasks, Enter(t) PROVE CredentialInv'
  BY <1>2 DEF Enter, Mutex!Enter
<1>3. ASSUME NEW t \in Tasks, EnsureRegistered(t) PROVE CredentialInv'
  BY <1>3 DEF EnsureRegistered
<1>4. ASSUME NEW t \in Tasks, EnsureUnregistered(t) PROVE CredentialInv'
  BY <1>4 DEF EnsureUnregistered
<1>5. ASSUME NEW t \in Tasks, BeginReplace(t) PROVE CredentialInv'
  BY <1>5 DEF BeginReplace
<1>6. ASSUME NEW t \in Tasks, MarkStale(t) PROVE CredentialInv'
  BY <1>6 DEF MarkStale
<1>7. ASSUME NEW t \in Tasks, Deregister(t) PROVE CredentialInv'
  BY <1>7 DEF Deregister
<1>8. ASSUME NEW t \in Tasks, Rotate(t) PROVE CredentialInv'
  BY <1>8 DEF Rotate
<1>9. ASSUME NEW t \in Tasks, Unregister(t) PROVE CredentialInv'
  BY <1>9 DEF Unregister
<1>10. ASSUME NEW t \in Tasks, BuildSpec(t) PROVE CredentialInv'
  BY <1>10 DEF BuildSpec, FirstDockerStep, MustRecreate
<1>11. ASSUME NEW t \in Tasks, RemoveContainer(t) PROVE CredentialInv'
  BY <1>11 DEF RemoveContainer
<1>12. ASSUME NEW t \in Tasks, ClearVolume(t) PROVE CredentialInv'
  BY <1>12 DEF ClearVolume
<1>13. ASSUME NEW t \in Tasks, Inspect(t) PROVE CredentialInv'
  <2>1. PICK next \in {"spawn", "start", "run"} : step' = [step EXCEPT ![t] = next]
    <3>1. container[chat[t]] \in {"missing", "stopped", "running"}
      BY <1>13 DEF Inspect
    <3> QED
      BY <1>13, <3>1 DEF Inspect
  <2>2. UNCHANGED <<lockVars, op, credential, registered, authVars, dockerVars, processVars>>
    BY <1>13 DEF Inspect
  <2>3. phase[t] = "running" /\ step[t] = "inspect"
    BY <1>13 DEF Inspect
  <2>4. \A u \in Tasks : step'[u] = IF u = t THEN next ELSE step[u]
    BY <2>1
  <2>5. \A u \in Tasks :
           \/ step'[u] = step[u]
           \/ step[u] = "inspect" /\ step'[u] \in {"spawn", "start", "run"}
    BY <2>3, <2>4
  <2>6. UNCHANGED phase
    BY <2>2
  <2>7. \A c \in Chats : WillRecreate(c) <=> WillRecreate(c)'
    BY <2>2, <2>5, <2>6
  <2>8. \A c \in Chats : /\ HasCredential(c)' <=> HasCredential(c)
                         /\ CurrentCredential(c)' = CurrentCredential(c)
    BY <2>2
  <2> HIDE DEF WillRecreate, HasCredential, CurrentCredential
  <2>9. (\A c \in Chats \ dockerFailed :
          container[c] # "missing" /\ HasCredential(c) /\ ~WillRecreate(c)
              => baked[c] = CurrentCredential(c))'
    BY <2>2, <2>7, <2>8
  <2>10. step'[t] = "start" => container[chat[t]] # "missing"
    BY <1>13, <2>3 DEF Inspect
  <2> QED
    BY <2>2, <2>3, <2>4, <2>5, <2>8, <2>9, <2>10
<1>14. ASSUME NEW t \in Tasks, StartContainer(t) PROVE CredentialInv'
  <2>1. /\ UNCHANGED <<phase, chat, op, credential, registered, authVars, baked, processVars>>
        /\ \A u \in Tasks : \/ step'[u] = step[u]
                            \/ step[u] = "start" /\ step'[u] = "spawn"
    BY <1>14 DEF StartContainer
  <2>2. \A c \in Chats : container'[c] # "missing" => container[c] # "missing"
    BY <1>14 DEF StartContainer
  <2> QED
    BY <2>1, <2>2, <1>14 DEF StartContainer
<1>15. ASSUME NEW t \in Tasks, RunContainer(t) PROVE CredentialInv'
  BY <1>15 DEF RunContainer
<1>16. ASSUME NEW t \in Tasks, RestartContainer(t) PROVE CredentialInv'
  BY <1>16 DEF RestartContainer
<1>17. ASSUME NEW t \in Tasks, SpawnSession(t) PROVE CredentialInv'
  BY <1>17 DEF SpawnSession
<1>18. ASSUME NEW t \in Tasks, RegisterToken(t) PROVE CredentialInv'
  BY <1>18 DEF RegisterToken
<1>19. ASSUME NEW t \in Tasks, MarkReady(t) PROVE CredentialInv'
  BY <1>19 DEF MarkReady
<1>20. ASSUME NEW t \in Tasks, RegisterSession(t) PROVE CredentialInv'
  BY <1>20 DEF RegisterSession
<1>21. ASSUME NEW t \in Tasks, InsertRegistered(t) PROVE CredentialInv'
  BY <1>21 DEF InsertRegistered
<1>22. ASSUME NEW t \in Tasks, RecordSuccess(t) PROVE CredentialInv'
  BY <1>22 DEF RecordSuccess
<1>23. ASSUME NEW t \in Tasks, RecordFailure(t) PROVE CredentialInv'
  BY <1>23 DEF RecordFailure
<1>24. ASSUME NEW t \in Tasks, DockerFails(t) PROVE CredentialInv'
  BY <1>24 DEF DockerFails
<1>25. ASSUME NEW t \in Tasks, RunCreatesOnly(t) PROVE CredentialInv'
  BY <1>25 DEF RunCreatesOnly
<1>26. ASSUME NEW c \in Chats, Work(c) \/ BeginTurn(c) \/ EndTurn(c) PROVE CredentialInv'
  BY <1>26 DEF Work, BeginTurn, EndTurn
<1>27. ASSUME NEW c \in Chats, ContainerStops(c) PROVE CredentialInv'
  BY <1>27 DEF ContainerStops
<1>28. CASE Crash
  BY <1>28 DEF Crash
<1>29. CASE UNCHANGED vars
  BY <1>29 DEF vars
<1> QED
  BY <1>1, <1>2, <1>3, <1>4, <1>5, <1>6, <1>7, <1>8, <1>9, <1>10, <1>11, <1>12, <1>13, <1>14, <1>15, <1>16, <1>17, <1>18, <1>19, <1>20, <1>21, <1>22, <1>23, <1>24, <1>25, <1>26, <1>27, <1>28, <1>29
     DEF Next, OperationStep

\* Unless a docker command for the chat failed in this process, a registered
\* chat's container carries the credential the daemon works with.
THEOREM CredentialReachesSandboxHolds == Spec => []CredentialReachesSandbox
<1>1. Init => CredentialInv
  BY RuntimeAssumption
     DEF Init, CredentialInv, HasCredential, UsesBroker, DockerSteps
<1>2. CredentialInv /\ TypeOK => CredentialReachesSandbox
  <2> SUFFICES ASSUME CredentialInv, TypeOK, NEW c \in registered \ dockerFailed,
                      Mutex!Running(c) = {}, container[c] # "missing"
               PROVE  baked[c] = CurrentCredential(c)
    BY DEF CredentialReachesSandbox
  <2> QED
    BY DEF CredentialInv, WillRecreate, TypeOK
<1>3. QED
  BY <1>1, <1>2, TypeCorrect, RuntimeInvHolds, CredentialInvStep, PTL DEF Spec

-----------------------------------------------------------------------------
(* Cleared workspaces. *)

SessionSteps == {"spawn", "register_token", "mark_ready", "register_session"}

\* The steps of a clearing operation while its chat has no session, and those of them
\* that follow the removal of the container and of the volume.
DetachedSteps == {"deregister", "rotate", "unregister", "spec"} \cup DockerSteps \cup SessionSteps
EmptiedSteps  == {"inspect", "start", "run"} \cup SessionSteps
RemovedSteps  == {"clear_volume"} \cup EmptiedSteps

\* A turn that is under way while a clearing operation replaces its session was so
\* before (the chat has no session, so none begins), and only such a turn can run
\* something in the new container or put data into the new volume.
ClearInv ==
    \A t \in Tasks :
        LET c == chat[t] IN
        ClearsWorkspace(op[t]) =>
            /\ step[t] # "restart"
            /\ step[t] \in DetachedSteps /\ c \in turns  => c \in overtaken
            /\ step[t] \in RemovedSteps  /\ c \in inside => c \in overtaken
            /\ step[t] \in EmptiedSteps =>
                  workspace[c] \subseteq (IF c \in overtaken THEN {"since"} ELSE {})

\* No step lets a turn begin or anything old come back between the detaching of a
\* session and the making of the one that follows on a cleared volume.
LEMMA ClearInvStep == TypeOK /\ RuntimeInv /\ ClearInv /\ [Next]_vars => ClearInv'
<1> SUFFICES ASSUME TypeOK, RuntimeInv, ClearInv, [Next]_vars PROVE ClearInv'
  OBVIOUS
<1>0. OneRunner
  BY DEF RuntimeInv
<1> USE <1>0
    DEF ClearInv, OneRunner, ClearsWorkspace, DetachedSteps, EmptiedSteps, RemovedSteps, SessionSteps,
        DockerSteps, TypeOK, Mutex!TypeOK, At, Go, SetState, Return, Mutex!Leave, dockerStepUnchanged,
        lockVars, taskVars, statusVars, authVars, dockerVars, routerVars, processVars
<1>1. ASSUME NEW c \in Chats, BeginTurn(c) PROVE ClearInv'
  <2>1. \A t \in Tasks : step[t] \in DetachedSteps => session[chat[t]] = 0
    BY DEF RuntimeInv, RunnerInv, Detached
  <2>2. \A t \in Tasks : step[t] \in DetachedSteps => chat[t] # c
    BY <1>1, <2>1 DEF BeginTurn
  <2> QED
    BY <1>1, <2>2 DEF BeginTurn
<1>2. ASSUME NEW c \in Chats, Work(c) PROVE ClearInv'
  <2>1. UNCHANGED <<phase, chat, op, step, turns, overtaken>>
    BY <1>2 DEF Work
  <2>2. \A d \in Chats : d # c => workspace'[d] = workspace[d] /\ (d \in inside' => d \in inside)
    BY <1>2 DEF Work
  <2>3. workspace'[c] = workspace[c] \cup {"since"} /\ c \in turns \cup inside
    BY <1>2 DEF Work
  <2> QED
    BY <2>1, <2>2, <2>3
<1>3. ASSUME NEW t \in Tasks, MarkStale(t) PROVE ClearInv'
  <2>1. \A u \in Tasks : u # t /\ step[u] # "idle" => chat[u] # chat[t]
    BY <1>3 DEF MarkStale
  <2>2. /\ \A u \in Tasks : step'[u] = IF u = t THEN "deregister" ELSE step[u]
        /\ \A c \in Chats : c # chat[t] => workspace'[c] = workspace[c]
        /\ overtaken' = IF chat[t] \in turns THEN overtaken \cup {chat[t]} ELSE overtaken \ {chat[t]}
        /\ UNCHANGED <<phase, chat, op, turns, inside>>
    BY <1>3 DEF MarkStale
  <2> QED
    BY <2>1, <2>2
<1>4. ASSUME NEW t \in Tasks, RemoveContainer(t) PROVE ClearInv'
  BY <1>4 DEF RemoveContainer
<1>5. ASSUME NEW t \in Tasks, ClearVolume(t) PROVE ClearInv'
  BY <1>5 DEF ClearVolume
<1>6. ASSUME NEW t \in Tasks, BuildSpec(t) PROVE ClearInv'
  BY <1>6 DEF BuildSpec, FirstDockerStep, MustRecreate
<1>7. ASSUME NEW t \in Tasks, NEW c \in Chats, NEW o \in Ops, Call(t, c, o) PROVE ClearInv'
  BY <1>7 DEF Call, Mutex!Request
<1>8. ASSUME NEW t \in Tasks,
             \/ Enter(t) \/ EnsureRegistered(t) \/ EnsureUnregistered(t)
             \/ BeginReplace(t) \/ Deregister(t) \/ Rotate(t) \/ Unregister(t)
      PROVE  ClearInv'
  BY <1>8 DEF Enter, Mutex!Enter, EnsureRegistered, EnsureUnregistered, BeginReplace,
              Deregister, Rotate, Unregister
<1>9. ASSUME NEW t \in Tasks, Inspect(t) PROVE ClearInv'
  BY <1>9 DEF Inspect
<1>10. ASSUME NEW t \in Tasks,
             \/ StartContainer(t) \/ RunContainer(t) \/ RestartContainer(t)
             \/ DockerFails(t) \/ RunCreatesOnly(t) \/ SpawnSession(t)
      PROVE  ClearInv'
  BY <1>10 DEF StartContainer, RunContainer, RestartContainer, DockerFails, RunCreatesOnly, SpawnSession
<1>11. ASSUME NEW t \in Tasks,
             \/ RegisterToken(t) \/ MarkReady(t) \/ RegisterSession(t)
             \/ InsertRegistered(t) \/ RecordSuccess(t) \/ RecordFailure(t)
      PROVE  ClearInv'
  BY <1>11 DEF RegisterToken, MarkReady, RegisterSession, InsertRegistered, RecordSuccess, RecordFailure
<1>12. ASSUME NEW c \in Chats, EndTurn(c) \/ ContainerStops(c) PROVE ClearInv'
  BY <1>12 DEF EndTurn, ContainerStops
<1>13. CASE Crash
  BY <1>13 DEF Crash
<1>14. CASE UNCHANGED vars
  BY <1>14 DEF vars
<1> QED
  BY <1>1, <1>2, <1>3, <1>4, <1>5, <1>6, <1>7, <1>8, <1>9, <1>10, <1>11, <1>12, <1>13, <1>14
     DEF Next, OperationStep

\* A session made by an operation that clears the workspace starts without anything
\* written for the session before it, whatever failed or crashed and however the chat's
\* calls interleave; only a turn that replacement overtook can have written, since then.
THEOREM NothingSurvivesClearingHolds == Spec => []NothingSurvivesClearing
<1>1. Init => ClearInv
  BY DEF Init, ClearInv, DetachedSteps, EmptiedSteps, RemovedSteps, SessionSteps, DockerSteps
<1>2. ClearInv => NothingSurvivesClearing
  BY DEF ClearInv, NothingSurvivesClearing, EmptiedSteps, SessionSteps
<1>3. QED
  BY <1>1, <1>2, TypeCorrect, RuntimeInvHolds, ClearInvStep, PTL DEF Spec

-----------------------------------------------------------------------------
(* The lock. *)

\* Between two restarts the operations take their lock as its mutex prescribes, so what is
\* proved of the lock map holds for them; a restart lets go of every lock at once
\* (with_chat_lifecycle_lock and its callers in runtime.rs).
THEOREM UsesChatMutex == Spec => Mutex!Init /\ [][Mutex!Next \/ Crash]_<<phase, chat>>
<1>1. Init => Mutex!Init
  BY DEF Init, Mutex!Init
<1>2. ASSUME [Next]_vars
      PROVE  [Mutex!Next \/ Crash]_<<phase, chat>>
  <2>1. ASSUME NEW t \in Tasks, NEW c \in Chats, NEW o \in Ops, Call(t, c, o)
        PROVE  Mutex!Next
    BY <2>1 DEF Call, Mutex!Next
  <2>2. ASSUME NEW t \in Tasks, Enter(t) PROVE Mutex!Next
    BY <2>2 DEF Enter, Mutex!Next
  <2>3. ASSUME NEW t \in Tasks, EnsureRegistered(t) \/ RecordSuccess(t) \/ RecordFailure(t)
        PROVE  Mutex!Next
    <3>1. Mutex!Leave(t)
      BY <2>3 DEF EnsureRegistered, RecordSuccess, RecordFailure, Return
    <3> QED BY <3>1 DEF Mutex!Next
  <2>4. ASSUME NEW t \in Tasks, OperationStep(t), ~Enter(t),
               ~(EnsureRegistered(t) \/ RecordSuccess(t) \/ RecordFailure(t))
        PROVE  UNCHANGED <<phase, chat>>
    BY <2>4 DEF OperationStep, EnsureUnregistered, BeginReplace, MarkStale, Deregister, Rotate,
                Unregister, BuildSpec, RemoveContainer, ClearVolume, Inspect, StartContainer,
                RunContainer, RestartContainer, SpawnSession, RegisterToken, MarkReady,
                RegisterSession, InsertRegistered, dockerStepUnchanged, lockVars
  <2>5. ASSUME NEW t \in Tasks, DockerFails(t) \/ RunCreatesOnly(t)
        PROVE  UNCHANGED <<phase, chat>>
    BY <2>5 DEF DockerFails, RunCreatesOnly, lockVars
  <2>6. ASSUME NEW c \in Chats, Work(c) \/ BeginTurn(c) \/ EndTurn(c) \/ ContainerStops(c)
        PROVE  UNCHANGED <<phase, chat>>
    BY <2>6 DEF Work, BeginTurn, EndTurn, ContainerStops, lockVars
  <2>7. CASE UNCHANGED vars
    BY <2>7 DEF vars, lockVars
  <2> QED BY <1>2, <2>1, <2>2, <2>3, <2>4, <2>5, <2>6, <2>7 DEF Next
<1> QED BY <1>1, <1>2, PTL DEF Spec
=============================================================================
