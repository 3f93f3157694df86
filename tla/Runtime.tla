------------------------------- MODULE Runtime -------------------------------
(***************************************************************************)
(* RuntimeManager (src/runtime.rs) with the Docker operations it drives    *)
(* (src/sandbox/docker.rs): ensure, reset, restart and rebuild of a chat's *)
(* runtime.                                                                *)
(*                                                                         *)
(* An operation runs under the chat's lifecycle lock, taken here from      *)
(* module ChatMutex, which module LifecycleLock is proved to implement.    *)
(* It is a sequence of awaits over six separately locked maps (statuses,   *)
(* registered, broker_tokens, sandbox_auth_states, the broker's registry   *)
(* and the router's sessions) and over docker commands, any of which may   *)
(* fail; the daemon may die between any two of them, losing every map and  *)
(* keeping containers and volumes.                                         *)
(***************************************************************************)
EXTENDS Naturals

CONSTANTS
    Tasks,       \* callers
    Chats,       \* chat ids
    AuthMode,    \* codex.auth_mode
    Faults,      \* what may go wrong: see AllFaults
    MaxOps,      \* BOUND: operations requested
    MaxCrashes   \* BOUND: daemon restarts

AllFaults == {"docker",  \* a docker command (or starting a PTY) fails
              "stop",    \* a container stops by itself
              "crash"}   \* the daemon dies and is started again

ASSUME RuntimeAssumption ==
    /\ AuthMode \in {"broker_api_key", "chatgpt_oauth"}
    /\ Faults \subseteq AllFaults
    /\ MaxOps \in Nat
    /\ MaxCrashes \in Nat

Ops == {"ensure", "restart", "reset", "reset_clear", "rebuild", "rebuild_clear"}

ClearsWorkspace(o) == o \in {"reset_clear", "rebuild_clear"}

\* reset with clear_workspace and every rebuild rotate the broker token.
RotatesToken(o) ==
    AuthMode = "broker_api_key" /\ o \in {"reset_clear", "rebuild", "rebuild_clear"}

VARIABLES
    phase, chat,    \* the lifecycle lock: see ChatMutex
    op,             \* the operation of a task
    step,           \* where the operation is
    credential,     \* spec: the broker token, or the auth file, of the task's SandboxSpec
    newGeneration,  \* the generation mark_ready_with_next_generation returned
    state,          \* statuses[chat].state
    generation,     \* statuses[chat].generation
    registered,     \* registered
    brokerToken,    \* broker_tokens: 0 for no entry
    authSeen,       \* sandbox_auth_states
    acceptedToken,  \* the broker registry's token for a chat: 0 for none
    session,        \* the router's session generation for a chat: 0 for none
    turns,          \* chats of which a turn is under way, of whichever session
    overtaken,      \* HISTORY: chats whose session was last marked stale during a turn
    container,      \* docker: the chat's container
    baked,          \* docker: the credential the container was created with
    workspace,      \* docker: what the chat's volume holds: data written "before" the
                    \* chat's session was last marked stale, data written "since"
    inside,         \* docker: chats whose container has a process that a turn began
    minted,         \* broker tokens generated so far, by every daemon process
    process,        \* the number of the running daemon process
    dockerFailed,   \* HISTORY: chats for which a docker command of this process failed
    ops,            \* operations requested so far (only for the bound)
    served          \* HISTORY: generations this process has given the router

lockVars      == <<phase, chat>>
taskVars      == <<op, step, credential, newGeneration>>
statusVars    == <<state, generation>>
authVars      == <<brokerToken, authSeen, minted>>
dockerVars    == <<container, baked, workspace, inside>>
routerVars    == <<session, served, turns, overtaken>>
processVars   == <<process, dockerFailed>>
vars == <<lockVars, taskVars, statusVars, registered, authVars, acceptedToken,
          routerVars, dockerVars, processVars, ops>>

Mutex == INSTANCE ChatMutex

-----------------------------------------------------------------------------

Init ==
    /\ phase = [t \in Tasks |-> "idle"]
    /\ op    = [t \in Tasks |-> "ensure"]
    /\ step  = [t \in Tasks |-> "idle"]
    /\ credential    = [t \in Tasks |-> 0]
    /\ newGeneration = [t \in Tasks |-> 0]
    /\ state         = [c \in Chats |-> "not_started"]
    /\ generation    = [c \in Chats |-> 0]
    /\ registered    = {}
    /\ brokerToken   = [c \in Chats |-> 0]
    /\ authSeen      = {}
    /\ acceptedToken = [c \in Chats |-> 0]
    /\ session       = [c \in Chats |-> 0]
    /\ served        = [c \in Chats |-> {}]
    /\ chat \in [Tasks -> Chats]
    /\ container = [c \in Chats |-> "missing"]
    /\ baked     = [c \in Chats |-> 0]
    /\ workspace = [c \in Chats |-> {}]
    /\ inside    = {}
    /\ turns     = {}
    /\ overtaken = {}
    /\ minted    = 0
    /\ process   = 1
    /\ dockerFailed = {}
    /\ ops       = 0

-----------------------------------------------------------------------------
(* Calls and the lifecycle lock. *)

At(t, s) == phase[t] = "running" /\ step[t] = s

Go(t, s) == step' = [step EXCEPT ![t] = s]

Call(t, c, o) ==
    /\ Mutex!Request(t, c)
    /\ ops < MaxOps
    /\ ops' = ops + 1
    /\ op' = [op EXCEPT ![t] = o]
    /\ UNCHANGED <<step, credential, newGeneration, statusVars, registered,
                   authVars, acceptedToken, routerVars, dockerVars, processVars>>

Enter(t) ==
    /\ Mutex!Enter(t)
    /\ Go(t, "begin")
    /\ UNCHANGED <<op, credential, newGeneration, statusVars, registered,
                   authVars, acceptedToken, routerVars, dockerVars, processVars, ops>>

\* The operation returns and with_chat_lifecycle_lock drops the guard.
Return(t) ==
    /\ Mutex!Leave(t)
    /\ Go(t, "idle")

SetState(c, s) == state' = [state EXCEPT ![c] = s]

-----------------------------------------------------------------------------
(* ensure_unregistered_chat_runtime and replace_chat_session. *)

\* An ensure of a registered chat returns at once.
EnsureRegistered(t) ==
    /\ At(t, "begin")
    /\ op[t] = "ensure"
    /\ chat[t] \in registered
    /\ Return(t)
    /\ UNCHANGED <<op, credential, newGeneration, statusVars, registered,
                   authVars, acceptedToken, routerVars, dockerVars, processVars, ops>>

EnsureUnregistered(t) ==
    /\ At(t, "begin")
    /\ op[t] = "ensure"
    /\ chat[t] \notin registered
    /\ SetState(chat[t], "starting")
    /\ Go(t, "spec")
    /\ UNCHANGED <<lockVars, op, credential, newGeneration, generation, registered,
                   authVars, acceptedToken, routerVars, dockerVars, processVars, ops>>

BeginReplace(t) ==
    /\ At(t, "begin")
    /\ op[t] # "ensure"
    /\ SetState(chat[t], "starting")
    /\ Go(t, "mark_stale")
    /\ UNCHANGED <<lockVars, op, credential, newGeneration, generation, registered,
                   authVars, acceptedToken, routerVars, dockerVars, processVars, ops>>

\* MUTANT of MarkStale: the old session stays in the router.
MarkStaleForgotten(t) ==
    /\ At(t, "mark_stale")
    /\ Go(t, "deregister")
    /\ UNCHANGED <<lockVars, op, credential, newGeneration, statusVars, registered,
                   authVars, acceptedToken, routerVars, dockerVars, processVars, ops>>

\* router.mark_session_stale: no turn of the old session begins from here on; one
\* under way goes on.  (workspace': what the volume holds is from before.)
MarkStale(t) ==
    LET c == chat[t] IN
    /\ At(t, "mark_stale")
    /\ session'   = [session EXCEPT ![c] = 0]
    /\ workspace' = [workspace EXCEPT ![c] = IF @ = {} THEN {} ELSE {"before"}]
    /\ overtaken' = IF c \in turns THEN overtaken \cup {c} ELSE overtaken \ {c}
    /\ Go(t, "deregister")
    /\ UNCHANGED <<lockVars, op, credential, newGeneration, statusVars, registered, authVars,
                   acceptedToken, served, turns, container, baked, inside, processVars, ops>>

\* MUTANT of Deregister: registered keeps the chat of the replaced session.
DeregisterForgotten(t) ==
    /\ At(t, "deregister")
    /\ Go(t, IF RotatesToken(op[t]) THEN "rotate" ELSE "spec")
    /\ UNCHANGED <<lockVars, op, credential, newGeneration, statusVars, registered,
                   authVars, acceptedToken, routerVars, dockerVars, processVars, ops>>

Deregister(t) ==
    /\ At(t, "deregister")
    /\ registered' = registered \ {chat[t]}
    /\ Go(t, IF RotatesToken(op[t]) THEN "rotate" ELSE "spec")
    /\ UNCHANGED <<lockVars, op, credential, newGeneration, statusVars,
                   authVars, acceptedToken, routerVars, dockerVars, processVars, ops>>

\* rotate_broker_token_for_chat
Rotate(t) ==
    /\ At(t, "rotate")
    /\ minted' = minted + 1
    /\ brokerToken' = [brokerToken EXCEPT ![chat[t]] = minted']
    /\ Go(t, "unregister")
    /\ UNCHANGED <<lockVars, op, credential, newGeneration, statusVars, registered,
                   authSeen, acceptedToken, routerVars, dockerVars, processVars, ops>>

\* MUTANT of Unregister: the broker goes on accepting the rotated token.
UnregisterForgotten(t) ==
    /\ At(t, "unregister")
    /\ Go(t, "spec")
    /\ UNCHANGED <<lockVars, op, credential, newGeneration, statusVars, registered,
                   authVars, acceptedToken, routerVars, dockerVars, processVars, ops>>

\* broker_registry.unregister_chat (module Broker has its two halves)
Unregister(t) ==
    /\ At(t, "unregister")
    /\ acceptedToken' = [acceptedToken EXCEPT ![chat[t]] = 0]
    /\ Go(t, "spec")
    /\ UNCHANGED <<lockVars, op, credential, newGeneration, statusVars, registered,
                   authVars, routerVars, dockerVars, processVars, ops>>

\* MUTANT of MustRecreate: should_recreate_sandbox_for_auth_state says no.
NeverRecreate(o, generated) == o \in {"reset_clear", "rebuild", "rebuild_clear"}

\* Which operations call docker.rebuild rather than ensure_started or restart.
MustRecreate(o, generated) == generated \/ o \in {"reset_clear", "rebuild", "rebuild_clear"}

\* The first docker command of an operation once its spec is known.
FirstDockerStep(o, generated) ==
    IF MustRecreate(o, generated) THEN "remove"
    ELSE IF o = "restart" THEN "restart" ELSE "inspect"

\* spec_for_chat_with_auth_state: a token, or the mark of a first use of the
\* auth file, is made now if the chat has none.
BuildSpec(t) ==
    LET c == chat[t]
        generated == IF AuthMode = "broker_api_key" THEN brokerToken[c] = 0
                                                    ELSE c \notin authSeen
    IN  /\ At(t, "spec")
        /\ IF AuthMode = "broker_api_key"
           THEN /\ minted' = IF generated THEN minted + 1 ELSE minted
                /\ brokerToken' = [brokerToken EXCEPT ![c] = IF generated THEN minted' ELSE @]
                /\ credential' = [credential EXCEPT ![t] = brokerToken'[c]]
                /\ UNCHANGED authSeen
           ELSE /\ authSeen' = authSeen \cup {c}
                /\ credential' = [credential EXCEPT ![t] = process]
                /\ UNCHANGED <<minted, brokerToken>>
        /\ Go(t, FirstDockerStep(op[t], generated))
        /\ UNCHANGED <<lockVars, op, newGeneration, statusVars, registered, acceptedToken,
                       routerVars, dockerVars, processVars, ops>>

-----------------------------------------------------------------------------
(* docker.rs.  The container and the volume belong to the docker daemon. *)

dockerStepUnchanged ==
    UNCHANGED <<lockVars, op, credential, newGeneration, statusVars, registered,
                authVars, acceptedToken, routerVars, processVars, ops>>

\* Any docker command, the inspection, the path check in front of them and the
\* PTY may fail, with nothing done.
DockerSteps == {"remove", "clear_volume", "inspect", "start", "run", "restart", "spawn"}

DockerFails(t) ==
    /\ "docker" \in Faults
    /\ phase[t] = "running"
    /\ step[t] \in DockerSteps
    /\ Go(t, "failed")
    /\ dockerFailed' = dockerFailed \cup {chat[t]}
    /\ UNCHANGED <<lockVars, op, credential, newGeneration, statusVars, registered,
                   authVars, acceptedToken, routerVars, dockerVars, process, ops>>

\* docker rm -f, a missing container being fine: what ran in it is gone
RemoveContainer(t) ==
    /\ At(t, "remove")
    /\ container' = [container EXCEPT ![chat[t]] = "missing"]
    /\ baked'     = [baked     EXCEPT ![chat[t]] = 0]
    /\ inside'    = inside \ {chat[t]}
    /\ Go(t, IF ClearsWorkspace(op[t]) THEN "clear_volume" ELSE "inspect")
    /\ UNCHANGED workspace
    /\ dockerStepUnchanged

\* MUTANT of ClearVolume: the volume is still in use and stays.
ClearVolumeIgnoringErrors(t) ==
    /\ At(t, "clear_volume")
    /\ Go(t, "inspect")
    /\ UNCHANGED dockerVars
    /\ dockerStepUnchanged

\* docker volume rm
ClearVolume(t) ==
    /\ At(t, "clear_volume")
    /\ workspace' = [workspace EXCEPT ![chat[t]] = {}]
    /\ Go(t, "inspect")
    /\ UNCHANGED <<container, baked, inside>>
    /\ dockerStepUnchanged

\* container_running: what ensure_started does next
Inspect(t) ==
    /\ At(t, "inspect")
    /\ Go(t, CASE container[chat[t]] = "running" -> "spawn"
               [] container[chat[t]] = "stopped" -> "start"
               [] container[chat[t]] = "missing" -> "run")
    /\ UNCHANGED dockerVars
    /\ dockerStepUnchanged

\* docker start
StartContainer(t) ==
    /\ At(t, "start")
    /\ container' = [container EXCEPT ![chat[t]] = "running"]
    /\ Go(t, "spawn")
    /\ UNCHANGED <<baked, workspace, inside>>
    /\ dockerStepUnchanged

\* docker run: the credential is baked in when the container is created.
RunContainer(t) ==
    /\ At(t, "run")
    /\ container' = [container EXCEPT ![chat[t]] = "running"]
    /\ baked'     = [baked     EXCEPT ![chat[t]] = credential[t]]
    /\ Go(t, "spawn")
    /\ UNCHANGED <<workspace, inside>>
    /\ dockerStepUnchanged

\* docker run that created the container and could not start it
RunCreatesOnly(t) ==
    /\ "docker" \in Faults
    /\ At(t, "run")
    /\ container' = [container EXCEPT ![chat[t]] = "stopped"]
    /\ baked'     = [baked     EXCEPT ![chat[t]] = credential[t]]
    /\ Go(t, "failed")
    /\ dockerFailed' = dockerFailed \cup {chat[t]}
    /\ UNCHANGED <<lockVars, op, credential, newGeneration, statusVars, registered,
                   authVars, acceptedToken, routerVars, workspace, inside, process, ops>>

\* docker restart, which needs a container
RestartContainer(t) ==
    /\ At(t, "restart")
    /\ IF container[chat[t]] = "missing"
       THEN /\ Go(t, "failed")
            /\ UNCHANGED <<container, inside>>
       ELSE /\ Go(t, "spawn")
            /\ container' = [container EXCEPT ![chat[t]] = "running"]
            /\ inside' = inside \ {chat[t]}
    /\ UNCHANGED <<baked, workspace>>
    /\ dockerStepUnchanged

-----------------------------------------------------------------------------
(* spawn_and_register_session and record_lifecycle_result. *)

\* codex_session_for_spec
SpawnSession(t) ==
    /\ At(t, "spawn")
    /\ Go(t, IF AuthMode = "broker_api_key" THEN "register_token" ELSE "mark_ready")
    /\ UNCHANGED dockerVars
    /\ dockerStepUnchanged

\* broker_registry.register_token
RegisterToken(t) ==
    /\ At(t, "register_token")
    /\ acceptedToken' = [acceptedToken EXCEPT ![chat[t]] = credential[t]]
    /\ Go(t, "mark_ready")
    /\ UNCHANGED <<lockVars, op, credential, newGeneration, statusVars, registered,
                   authVars, routerVars, dockerVars, processVars, ops>>

\* mark_ready_with_next_generation: the status says ready from here on, before
\* the router has the session.
MarkReady(t) ==
    LET c == chat[t] IN
    /\ At(t, "mark_ready")
    /\ generation' = [generation EXCEPT ![c] = @ + 1]
    /\ SetState(c, "ready")
    /\ newGeneration' = [newGeneration EXCEPT ![t] = generation'[c]]
    /\ Go(t, "register_session")
    /\ UNCHANGED <<lockVars, op, credential, registered,
                   authVars, acceptedToken, routerVars, dockerVars, processVars, ops>>

\* router.register_session
RegisterSession(t) ==
    LET c == chat[t] IN
    /\ At(t, "register_session")
    /\ session' = [session EXCEPT ![c] = newGeneration[t]]
    /\ served'  = [served  EXCEPT ![c] = @ \cup {newGeneration[t]}]
    /\ Go(t, "insert")
    /\ UNCHANGED <<lockVars, op, credential, newGeneration, statusVars, registered,
                   authVars, acceptedToken, turns, overtaken, dockerVars, processVars, ops>>

InsertRegistered(t) ==
    /\ At(t, "insert")
    /\ registered' = registered \cup {chat[t]}
    /\ Go(t, "succeeded")
    /\ UNCHANGED <<lockVars, op, credential, newGeneration, statusVars,
                   authVars, acceptedToken, routerVars, dockerVars, processVars, ops>>

\* record_lifecycle_result(Ok)
RecordSuccess(t) ==
    /\ At(t, "succeeded")
    /\ IF chat[t] \in registered THEN SetState(chat[t], "ready") ELSE UNCHANGED state
    /\ Return(t)
    /\ UNCHANGED <<op, credential, newGeneration, generation, registered,
                   authVars, acceptedToken, routerVars, dockerVars, processVars, ops>>

\* MUTANT of RecordFailure: the error is returned and not recorded.
RecordFailureForgotten(t) ==
    /\ At(t, "failed")
    /\ Return(t)
    /\ UNCHANGED <<op, credential, newGeneration, statusVars, registered,
                   authVars, acceptedToken, routerVars, dockerVars, processVars, ops>>

\* record_lifecycle_result(Err)
RecordFailure(t) ==
    /\ At(t, "failed")
    /\ SetState(chat[t], "degraded")
    /\ Return(t)
    /\ UNCHANGED <<op, credential, newGeneration, generation, registered,
                   authVars, acceptedToken, routerVars, dockerVars, processVars, ops>>

-----------------------------------------------------------------------------
(* The router's workers and the environment. *)

\* A worker takes an item and finds its session current (worker_is_stale).
BeginTurn(c) ==
    /\ session[c] # 0
    /\ turns' = turns \cup {c}
    /\ UNCHANGED <<lockVars, taskVars, statusVars, registered, authVars, acceptedToken,
                   session, served, overtaken, dockerVars, processVars, ops>>

\* The last turn under way ends, whether its session was replaced or not.
EndTurn(c) ==
    /\ c \in turns
    /\ turns' = turns \ {c}
    /\ UNCHANGED <<lockVars, taskVars, statusVars, registered, authVars, acceptedToken,
                   session, served, overtaken, dockerVars, processVars, ops>>

\* A turn's docker exec, or what it began and left running, writes to the volume.  The
\* exec names the container: a turn of a replaced session finds the new one.
Work(c) ==
    /\ c \in turns \cup inside
    /\ container[c] = "running"
    /\ workspace' = [workspace EXCEPT ![c] = @ \cup {"since"}]
    /\ inside' = inside \cup {c}
    /\ UNCHANGED <<lockVars, taskVars, statusVars, registered, authVars, acceptedToken,
                   routerVars, container, baked, processVars, ops>>

\* A container exits, or the host's docker is restarted.
ContainerStops(c) ==
    /\ "stop" \in Faults
    /\ container[c] = "running"
    /\ container' = [container EXCEPT ![c] = "stopped"]
    /\ inside' = inside \ {c}
    /\ UNCHANGED <<lockVars, taskVars, statusVars, registered, authVars, acceptedToken,
                   routerVars, baked, workspace, processVars, ops>>

\* The daemon dies, between any two steps, and is started again: no map of the
\* new process has an entry.  A docker exec it has spawned outlives it (turns).
Crash ==
    /\ "crash" \in Faults
    /\ process <= MaxCrashes
    /\ process' = process + 1
    /\ dockerFailed' = {}
    /\ phase' = [t \in Tasks |-> "idle"]
    /\ op'    = [t \in Tasks |-> "ensure"]
    /\ step'  = [t \in Tasks |-> "idle"]
    /\ credential'    = [t \in Tasks |-> 0]
    /\ newGeneration' = [t \in Tasks |-> 0]
    /\ state'         = [c \in Chats |-> "not_started"]
    /\ generation'    = [c \in Chats |-> 0]
    /\ registered'    = {}
    /\ brokerToken'   = [c \in Chats |-> 0]
    /\ authSeen'      = {}
    /\ acceptedToken' = [c \in Chats |-> 0]
    /\ session'       = [c \in Chats |-> 0]
    /\ served'        = [c \in Chats |-> {}]
    /\ UNCHANGED <<chat, turns, overtaken, dockerVars, minted, ops>>

OperationStep(t) ==
    \/ Enter(t)
    \/ EnsureRegistered(t) \/ EnsureUnregistered(t)
    \/ BeginReplace(t) \/ MarkStale(t) \/ Deregister(t)
    \/ Rotate(t) \/ Unregister(t) \/ BuildSpec(t)
    \/ RemoveContainer(t) \/ ClearVolume(t) \/ Inspect(t)
    \/ StartContainer(t) \/ RunContainer(t) \/ RestartContainer(t)
    \/ SpawnSession(t) \/ RegisterToken(t) \/ MarkReady(t)
    \/ RegisterSession(t) \/ InsertRegistered(t)
    \/ RecordSuccess(t) \/ RecordFailure(t)

Next ==
    \/ \E t \in Tasks :
          \/ \E c \in Chats, o \in Ops : Call(t, c, o)
          \/ OperationStep(t)
          \/ DockerFails(t)
          \/ RunCreatesOnly(t)
    \/ \E c \in Chats : BeginTurn(c) \/ EndTurn(c) \/ Work(c) \/ ContainerStops(c)
    \/ Crash

Spec == Init /\ [][Next]_vars

\* A called operation keeps running.  For the docker commands this assumes that
\* the docker CLI answers: docker.rs waits for it without a timeout.
Fairness ==
    \A t \in Tasks : WF_vars(OperationStep(t) \/ DockerFails(t) \/ RunCreatesOnly(t))

FairSpec == Spec /\ Fairness

-----------------------------------------------------------------------------
(* Properties. *)

Steps == {"idle", "begin", "mark_stale", "deregister", "rotate", "unregister", "spec",
          "register_token", "mark_ready", "register_session", "insert",
          "succeeded", "failed"} \cup DockerSteps

\* Types of the daemon's maps, of docker's state and of the tasks.
TypeOK ==
    /\ Mutex!TypeOK
    /\ op            \in [Tasks -> Ops]
    /\ step          \in [Tasks -> Steps]
    /\ credential    \in [Tasks -> Nat]
    /\ newGeneration \in [Tasks -> Nat]
    /\ state         \in [Chats -> {"not_started", "starting", "ready", "degraded"}]
    /\ generation    \in [Chats -> Nat]
    /\ registered    \in SUBSET Chats
    /\ brokerToken   \in [Chats -> Nat]
    /\ authSeen      \in SUBSET Chats
    /\ acceptedToken \in [Chats -> Nat]
    /\ session       \in [Chats -> Nat]
    /\ container     \in [Chats -> {"missing", "stopped", "running"}]
    /\ baked         \in [Chats -> Nat]
    /\ workspace     \in [Chats -> SUBSET {"before", "since"}]
    /\ inside        \in SUBSET Chats
    /\ turns         \in SUBSET Chats
    /\ overtaken     \in SUBSET Chats
    /\ minted        \in Nat
    /\ process       \in Nat
    /\ dockerFailed  \in SUBSET Chats
    /\ ops           \in Nat
    /\ served        \in [Chats -> SUBSET Nat]
    /\ \A t \in Tasks : step[t] = "idle" <=> phase[t] # "running"

\* Whenever no operation of a chat is running, the daemon's three views of it
\* agree: the status, the set of registered chats and the router's session (of
\* the generation the status shows); and the broker accepts exactly the token
\* the daemon holds for a registered chat.
QuiescentAgreement ==
    \A c \in Chats :
        Mutex!Running(c) = {} =>
            /\ c \in registered <=> session[c] # 0
            /\ c \in registered <=> state[c] = "ready"
            /\ c \in registered => session[c] = generation[c]
            /\ state[c] # "starting"
            /\ c \in registered /\ AuthMode = "broker_api_key" =>
                  acceptedToken[c] = brokerToken[c] /\ brokerToken[c] # 0

\* No turn can be queued for a sandbox that is being removed, restarted or
\* recreated: the router has no session for the chat while docker commands run.
NoSessionDuringReplacement ==
    \A t \in Tasks : step[t] \in DockerSteps => session[chat[t]] = 0

\* The router never gets a generation twice from one process, so a worker of a
\* replaced session can tell that it is stale by comparing numbers.
GenerationsAreFresh ==
    [][\A c \in Chats :
          session'[c] # session[c] /\ session'[c] # 0
              => session'[c] \notin served[c]]_vars

\* The broker accepts only the chat's latest token: an older one is accepted at
\* most between its rotation and its unregistration.
AcceptedTokenIsLatest ==
    \A c \in Chats :
        \/ acceptedToken[c] \in {0, brokerToken[c]}
        \/ \E t \in Mutex!Running(c) : step[t] = "unregister"

\* From the clearing of a volume to its new session, nothing written before the old
\* session was marked stale is in the volume, whatever failed, crashed or was retried
\* before; and nothing at all, unless a turn was under way when it was marked stale.
NothingSurvivesClearing ==
    \A t \in Tasks :
        ClearsWorkspace(op[t]) /\ step[t] \in {"spawn", "register_token", "mark_ready", "register_session"}
            => workspace[chat[t]] \subseteq (IF chat[t] \in overtaken THEN {"since"} ELSE {})

\* The credential a chat's sandbox has to have.
CurrentCredential(c) == IF AuthMode = "broker_api_key" THEN brokerToken[c] ELSE process

\* What docs/reference/sandbox.md says of new credentials: the container is
\* recreated with them.  A registered chat's container carries the credential
\* the daemon works with.
SandboxHasCurrentCredential ==
    \A c \in registered :
        Mutex!Running(c) = {} /\ container[c] # "missing" => baked[c] = CurrentCredential(c)

\* The same, as far as it holds: unless a docker command for the chat failed in
\* this process, whatever stopped, crashed or was retried, a registered chat's
\* container carries the credential the daemon works with.
CredentialReachesSandbox ==
    \A c \in registered \ dockerFailed :
        Mutex!Running(c) = {} /\ container[c] # "missing" => baked[c] = CurrentCredential(c)

\* Every operation settles: a chat does not stay "starting" for ever.
StartingSettles ==
    \A c \in Chats : state[c] = "starting" ~> state[c] # "starting"
=============================================================================
