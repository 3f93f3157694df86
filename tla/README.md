# telellm in TLA+

telellm is a Telegram bot daemon: each chat gets a Codex session in a Docker
sandbox of its own, and the daemon in between keeps the sessions, the queues, the
credentials and the chat's memory. This directory holds TLA+ models of the parts
of the daemon that run concurrently or can fail half-way, the TLC configurations
that check them, and TLAPS proofs of their main properties.

Run TLC on an `MC*.tla` with one of the `.cfg` files (`tlc -config Router.cfg
MCRouter`), `tlapm` on a `*Proofs.tla`. Source references are to `src/`.

## The system

| component | state | operations | talks to |
|---|---|---|---|
| Broker (`broker.rs`) | token -> chat, token -> limiter entry, requests in flight | register, rotate, unregister; authorise, admit, proxy, release | runtime (calls), sandboxes (HTTP), upstream API |
| Lifecycle locks (`runtime.rs`) | chat -> shared lock, made and removed on demand | take, release, remove if unused | runtime |
| Runtime manager (`runtime.rs`) | status, registered chats, broker tokens, auth files seen | ensure, reset, restart, rebuild, status, import | broker, router, docker |
| Docker backend (`sandbox/docker.rs`) | containers and volumes (outside the daemon) | ensure started, rebuild, restart, copy | docker CLI |
| Router (`router.rs`) | chat -> session, chat -> worker, a bounded queue per worker | register, mark stale, enqueue; the worker loop | session, Telegram, speech |
| Application core (`app.rs`) | none of its own between messages | handle a message, host-side commands, spoken replies | everything above |
| Rolling buffer (`memory/rolling.rs`) | chat -> newest messages | push, recent | app |
| Codex sessions (`codex/exec.rs`, `codex/pty.rs`) | a child process or a terminal | send a prompt, stream snapshots | router, sandbox |
| Audio (`audio/mod.rs`) | a child process, a temporary file | transcribe, synthesize | app, router |
| Output collection (`output.rs`, `runtime.rs`) | temporary files | list, export, send, remove | docker CLI, router |
| Telegram (`bot/*`) | a streamed message per turn (with the router) | dispatch, send in chunks, edit, retry | Telegram API |
| URL preparation (`url/mod.rs`) | none | extract, fetch, import | app, HTTP |
| Durable memory (`memory/sqlite.rs`, `context.rs`) | SQLite tables | remember, forget, settings; render a prompt | app |
| Configuration (`config.rs`) | the file, read once | load, default, validate | doctor, start, every component |
| Doctor and start (`doctor.rs`, `main.rs`, `app.rs`) | a report; what the daemon is made of | check, start | docker CLI, environment, everything above |

What is hard here:

* Every component keeps its maps under separate async locks, and an operation
  crosses many of them with awaits in between. Requests, workers, streaming
  previews, spoken replies and lifecycle operations run at the same time.
* Docker, the upstream API, Codex, Telegram and the store all fail one step at a
  time, and the daemon may be restarted between any two steps; containers and
  volumes survive it, the maps do not.
* A session is replaced while its worker runs. Nothing is cancelled; workers find
  out by comparing generations, before and after each await.
* Child processes may stop reading, stop writing, fork or never exit. A Codex
  process behind a terminal does not even say when its answer is over.
* A text is delivered in several requests, each of which Telegram may accept,
  refuse, delay, or carry out while its answer is lost.
* What was checked before the start is relied on for as long as the daemon runs.

`PROJECT.json` lists each hazard at its line and the properties about it.

## Modules

| module | models | made of |
|---|---|---|
| `Broker` | the token registry, the limiter and requests | |
| `ChatMutex` | abstract: one mutex per chat | |
| `LifecycleLock` | the map of locks and its removal test | implements `ChatMutex` |
| `Runtime` | the runtime manager and the docker commands it runs | uses `ChatMutex` |
| `ChatQueue` | abstract: what a chat's router promises | |
| `Router` | sessions, workers and the steps of their turns | implements `ChatQueue` |
| `Conversation` | a chat's messages through the application core | uses `ChatQueue` |
| `Delivery` | one turn's answer: snapshots, files, messages, speech | session, worker and sink together |
| `Subprocess` | a Codex turn and a speech command as child processes | |
| `PtySession` | the turns of one Codex process behind a terminal | call, reader thread and process together |
| `Startup` | configuration, doctor, start, first request | |
| `*Proofs` | the proofs about the module they are named after | |
| `SharedMapsProofs` | the proofs about `Broker` and `LifecycleLock` | |
| `MC*` | constants and symmetry for TLC | |

The two abstract modules are where the models meet. `Runtime` does not repeat the
lock map: it takes its lock from `ChatMutex`, which `LifecycleLock` is proved to
implement. `Conversation` takes its router from `ChatQueue`, which `Router` is
proved to implement provided the calls for one chat come one at a time; in
`Conversation` they do, because teloxide's dispatcher (`bot/telegram.rs:541-566`)
hands over the messages of a chat in order.

### Broker

State: `activeTokens` and the limiter entries are the two maps of
`BrokerTokenRegistryInner`; a request handler is a task with a program counter.
The registry lock and the limiter lock are different, so replacing a token is two
steps (`ReplaceToken`, `RemoveLimitStates`) and so is letting a request in
(`Authorize`, then `Admit` or `Refuse`). `FinishUpstream` is the end of
`proxy_to_upstream`, in success, failure or when the handler is dropped, with
`DropPermit` for the permit's destructor. `Tick` lets the window pass. History:
`forgotten` counts the live permits whose entry a registration removed.

### LifecycleLock and ChatMutex

A caller clones the `Arc` from the map (making it if needed), waits, runs, drops
the guard, and removes the entry if the strong count says nobody else has it, then
drops its clone. The count is computed from the references in the state
(`StrongCount`), never stored. Lock addresses may be used again once free. Its
specification is named `LockSpec`, with `LockInit` and so on, because one module
extends it and `Broker` together.

### Runtime

One action per await of `ensure`, `reset`, `restart` and `rebuild`: the change of
each map is a step, each docker command is a step that may fail (`DockerFails`) or
half-succeed (`RunCreatesOnly`), and `Crash` restarts the daemon at any point and
empties its maps. `container`, `baked` and `workspace` are docker's state of a
chat: the container, the credential it was created with, and whether the volume has
data from `before` the chat's session was last marked stale or from `since` then.
`ContainerStops` and `Work` are what happens outside the daemon. A turn is under way
from `BeginTurn` (the worker's check that its session is not stale) to `EndTurn`, also
when its session is replaced meanwhile, and its `docker exec` names the container, so
that it finds the new one: `Work` needs a running container and a turn, or a process
that an earlier exec left `inside`. History: `overtaken` are the chats with a turn under
way when their session was last marked stale.

### Router and ChatQueue

One chat. `enqueue` is a call in three steps (look up the session, get or make a
worker, send into the bounded channel), and several may overlap unless
`Serialized`. A worker's loop follows `spawn_chat_worker` await by await: take an
item, check, run the turn with its streaming preview, check, publish, send files,
synthesize, check, send. `RegisterSession` and `MarkSessionStale` each change the
session and then drop the worker's sender. History: `late` counts what a worker
sent after it was replaced.

`ChatQueue` says the same in five actions: a session accepts items up to its
capacity, begins them in order and one at a time, finishes them, or is replaced
and drops what it has left.

### Conversation

One chat's messages, delivered in order, each with a kind: plain chat, a request
with text, a document, audio without or with a text, a link, a command that does not parse,
`/summarize`, `/voice on` and `off`, and a command that is only answered. "reset"
stands for `/restart`, `/reset` and `/rebuild`, which do the same to the chat's
session, "reset_clear" for those given `--clear-workspace`. Audio without a text ends
with its failure; with one the request goes on, and only its note tells of the failure.
`HandleMessage` has a step for each await of `AppCore::handle_message` and its
callees that can fail or be seen from elsewhere; turns and spoken replies of
earlier messages run meanwhile. The runtime appears by what is proved of it: no
session during a replacement, a fresh generation afterwards.

### Delivery

What `Router` counts as "stream", "publish" and "files" is taken apart here, for one
turn. Three parties move: the session's task (`SessionOutput`, `SessionEnds`, then
`CollectFile` for each file the answer mentions, an export having four ways to fail),
the router's worker (`StreamEvent`, `BeginAnswer`, `SendFile`, `Speak`, `SendSpeech`), and
the sink, whose running call is a list `todo` of messages. Each request to Telegram is
one step with five outcomes: `RequestAccepted`, `NotModified`, `RetryAfter`,
`RequestRefused` and `AnswerLost`. A text is counted in units and a message shows an
interval of them, so `chat`, the list of the bot's messages, is what a reader sees.
The limit of a message is in bytes and that of a preview in characters, which is why
a preview may need two messages although its limit is the smaller one. The session
may be replaced at any time.

### Subprocess

The two runners share the pipes and differ in the order: `codex/exec.rs` writes
the prompt, starts to read, waits under the limit and joins the readers;
`run_audio_command` starts to read, writes and waits under the limit and drains the
error output for a short time. The command is external and may do anything:
read or not, write, fork, close its input, exit, hang. A descendant may hold the
pipes open or let them go, and write the audio file as long as it lives: the kill is of
the direct child. History: `outlived`, there was one when the child was reaped. Sizes
are in chunks.

### PtySession

`PtyCodexSession` with its reader thread, the terminal and the process. A call takes
the mutex (`Lock`), drops what the channel holds (`Drain`), writes its prompt in as
many parts as the terminal wants (`WritePart`), and receives chunks (`LoopTop`,
`Receive`, `TimesOut`, `Disconnected`) until one of three limits elapses. A chunk is an
echo of the prompt, a text or a question, which is what `turn_output_is_incomplete`
and `strip_prompt_echo` tell apart. The process may read, echo, answer, ask, fall silent
or exit at any time; how long a silence is, is left open. History: `unsettled` are the
calls that began before the process was through with an earlier prompt.

### Startup

A configuration is a record of every field that `validate` or a later step looks at,
with the values that make a difference; the functions that fill in defaults and the
errors of each mode are operators on it. `telellm doctor` is one action per check, in
its order, with what makes a check skipped; `telellm run` is one action per step that
can stop it, from loading to the polling loop, and then those of the first request
up to its answer. The world (environment, files, docker, port, Telegram, the command a turn
runs, the routes to the broker and upstream) is a record that may change between any two
of them. The doctor's probes run the literal `codex`, a turn the configured command with
its arguments and model, and nothing looks at broker, routes or keys before a turn
needs them.

## What TLC checks

| run | instance | shows |
|---|---|---|
| `Broker` | 2 chats, 3 tokens, 3 requests, limits 2 and 3, 3 registry changes | one token per chat, no leaked slot, requests above the limit are exactly those the limiter was made to forget |
| `LifecycleLock` | 3 callers, 2 chats, 4 locks | implements `ChatMutex`, every waiter runs |
| `Runtime` | 1 chat, 2 callers, 3 operations, 1 restart, all faults | the daemon's views agree at rest, no session during a replacement, the accepted token is the latest, nothing from before a clearing is in the workspace of the session after it, the credential reaches the sandbox unless a docker command failed, operations settle |
| `Router` | 2 overlapping calls, queue of 1, 2 generations | exact active count, only a replacement loses items, accepted items settle, blocked calls return |
| `RouterSerialized` | 3 calls in turn, queue of 1, 3 generations | no temporary file is left, a replaced worker says at most one thing more, implements `ChatQueue` |
| `Conversation` | 3 messages of every kind, buffer of 2, 2 items in the queue, 3 generations | prompts hold the right recent chat, a request finds a session, an offered file is there when the turn begins, no temporary file is left, turning voice off suppresses a reply being made |
| `Delivery` | an answer of up to 3 units, 2 per message, 4 settings, 3 mentions of 2 files, a channel of 1 | the answer is shown once and whole whatever was streamed and refused, speech comes after it, no copy is left but what docker wrote in a failed export, each file arrives or is explained, and delivery ends |
| `Subprocess` | input of 2 chunks, pipes of 1, outputs up to 3, limit 1 | whole answers, nothing left running, no file after a failure unless a descendant writes it, what is under a limit ends |
| `PtySession` | 2 calls, prompts in 2 parts, a terminal of 1 part and 1 chunk, 2 chunks said to a prompt, at most 2 received | prompts are not mixed, an answer is the process's own to its prompt if it began settled, each call returns unless the process stops reading for good |
| `Startup` | both modes with one field changed to each of its values, one thing wrong in the world, one change of it | a doctor's success means every check of the mode passed, the daemon then starts and answers but for what the doctor does not look at, and an accepted configuration lacks nothing its users rely on |

The type invariants of all modules but `Startup` are theorems, and that of `Conversation` is
an invariant of its run as well. The properties of `Broker`, `LifecycleLock`, `Runtime` and
`PtySession` named under "What is proved" that no run lists are theorems only.

Two runs check a sentence of the documentation that the code does not keep, and end
in a counterexample:

| run | the sentence | what happens |
|---|---|---|
| `BrokerConcurrency` | broker.md:53, maximum in-flight requests | `/reset` and `/restart` register the token again, which forgets its requests in flight |
| `RuntimeCredentialLost` | sandbox.md:127, a new token recreates the container | if that fails, the next try takes the token for an old one and keeps the container |

Each has a passing neighbour that says what does hold: `ExcessIsForgotten` and
`CredentialReachesSandbox`. Further sentences the code does not keep are under
"Noticed while modelling", with the properties that do hold.

### Bounds

* Every bound that is not in the code is a constant marked `BOUND`.
  `MaxRegistryChanges`, `MaxOps`, `MaxCrashes`, `MaxGeneration` and `MaxMessages` cap what the
  environment asks for, `MaxOutput` what a command writes.
* Two callers and three operations let an operation run between any two others of
  the same chat; more chats only multiply independent copies, which
  the theorems (`ChatsIndependentHolds` among them), stated for any number of chats, justify. The
  third operation is what a retry after a failed replacement needs.
* A queue of depth 1 with an item running is full with the second item and blocks
  the third. Three generations give a worker that is replaced twice.
* Three messages overflow a buffer of two and fill the queue of two until the third
  blocks, and every property of `Conversation` is broken by a mutant within three
  (a request, the command that interferes, a request after it). The run takes every
  sequence of kinds; the theorems are for any number of messages.
* A pipe of one chunk and an input of two block the writer after the first chunk;
  one chunk more than the limit overflows it and another one is left over.
* In `Delivery` an answer of three units needs two messages, a preview of three units
  as well, and one of two or one does not: the four settings cross streaming, formatting,
  fallback, preview size and speech so that each occurs on and off. A file is
  mentioned twice and another once, with room for two. A channel of one event loses
  snapshots, the final one included.
* In `PtySession` a prompt does not fit into the terminal at once, so a call can block
  half-way and its prompt be cut by an exit; two chunks to a prompt with room for one in
  the terminal leave one in each place output can be stuck (terminal, channel) when the
  next call drains.
* In `Startup` the checks of a field do not depend on other fields, apart from the mode
  and the switch of the field's section, which the two base configurations have in both
  states; one thing wrong and one change are enough to separate any two checks.

Symmetry is used for the requests, callers and items of runs without liveness.
Deadlock is checked where the system never stops (`Broker`, `LifecycleLock`); the
other models end when the environment has used up its bound.

### Fairness

Fairness is weak and on the daemon's own steps: its tokio tasks are polled, its
timers fire, and the operations they call return. `LifecycleLock` adds strong
fairness for taking a lock, as tokio's mutex is first come, first served. In
`Runtime` docker commands end, with success or failure; a hanging docker command is
a listed hazard that no code bounds. In `Router` the end of a turn is strongly
fair, since it competes with the turn's streaming: the sessions limit a turn's time,
but for a command that does not read its prompt, which would block its chat's queue.
Telegram calls return. `Delivery` needs no more than the worker being polled and its
requests ending in some way; the session owes nothing. In `PtySession` the reader
thread and the calls are scheduled and the deadline passes; the process owes nothing,
so `CallsEnd` excepts a process that never reads what blocks the writer. In `Subprocess` a
killed process dies, and the command and its descendants owe nothing at all.

## What is proved

TLAPS checks, for every value of the constants (finiteness is assumed only where
cardinalities occur):

* `SharedMapsProofs`, of `Broker`: types, `OneTokenPerChat`, `AdmittedForItsChat`,
  `NoLeakedSlot`, `ExcessIsForgotten`, `CountersBounded`, `WindowNeverRefunded`. The
  accounting is not inductive alone: dropping a permit of a forgotten entry leaves the
  counter, or decrements that of a later entry. `SlotAccounting` keeps, per token, that the
  counter never exceeds the live permits, that these never exceed counter plus
  forgotten ones, and that a token without an entry counts nothing.
  Of `LifecycleLock`: types, `MutualExclusion`, `ChatsIndependent`, and that the lock map
  implements `ChatMutex` step by step. `LockInv` says that a caller before its
  removal test holds the object the map shows for its chat; it survives a removal
  because the strong count leaves room for no other holder (`SoleUser`).
* `RuntimeProofs`: types, `QuiescentAgreement`, `NoSessionDuringReplacement`,
  `AcceptedTokenIsLatest`, `GenerationsAreFresh`, `CredentialReachesSandbox`,
  `NothingSurvivesClearing`, for both
  authentication modes and any faults. Agreement at rest is not inductive:
  `RunnerInv` says how the views differ at each step of an operation, `ServedInv`
  bounds the generations handed out, and `CredentialInv` says that a container with
  another credential than the daemon's is one about to be recreated; `ClearInv` that
  no turn begins from the marking of the session until its successor is made, and only a
  turn from before the marking writes to the new volume until then.
  `UsesChatMutex` says that, between restarts, the operations do with their lock what
  `ChatMutex` allows.
* `RouterProofs`, for calls that overlap or not: types and bounds, `ActiveItemsAgree`,
  `NoTempFileLeft`, `SaysAtMostOneThingLate`, `OnlyReplacementDrops`. `RouterInv` adds to
  these that generations only grow and a session is the newest or none
  (`GenerationInv`: once replaced, always replaced), what a call between two locks may
  rely on (`CallInv`), and that a worker which said something late is past its last
  check (`LateInv`). For `OnlyReplacementDrops`, `RouteInv` says that a call whose worker
  has left was made for a session that is no longer the chat's. With one call at a time
  (`Serialized`) it also proves `ImplementsChatQueue`: a chat's call is the only one
  (`OneCallInv`), goes to the session in `senders` (`RoutedInv`), which has one worker
  (`OneWorkerInv`), so each step is an operation of the queue or leaves it as it is.
* `ConversationProofs`: types, `PromptIsFaithful`, `EnqueueFindsSession`,
  `FileIsThereWhenTurnBegins`, `NoTempFileLeft`, `SpokenOnlyIfAllowed`, for any kinds of
  messages, buffer, queue and number of sessions, and that all the conversation does to the
  router are steps of `ChatQueue` (`UsesChatQueue`). All rests on one message being under
  way, the last that was delivered (`FlowInv`). From `ensure` to the queue a request
  has a session, since what would take it away is another message (`SessionInv`). The
  buffer holds the newest of what was recorded, each of the rest being older than the
  first of a full buffer (`KeptOf`), which a push keeps and a prompt inherits (`BufferInv`,
  `PromptInv`). A file that a prompt offers is in the workspace while the message is under
  way (`OfferedInv`) and while the prompt waits at the present session (`WaitingInv`); a
  prompt left at a replaced one can no longer begin.
* `SubprocessProofs`: types, `AnswerIsWhole`, `NothingLeftRunning`, `FileMatchesOutcome`.
  The invariant says where each byte is: what a reader kept, the pipe and what was
  lost add up to what the command wrote (`FlowInv`), which readers can still be
  running at each step (`StepInv`, `ReaderInv`), and that nobody writes the audio file
  once the child is reaped unless something outlived it (`FileInv`).
* `DeliveryProofs`: types, `OnlyDockerLeavesFiles`, `FilesAccountedFor`,
  `SpokenAfterText`, `AnswerShownOnce`, for any answer, limits and files. For the first,
  a temporary file is docker's leftover or still in the list to be sent (`TempInv`), and
  the list is final when the worker leaves the turn (`TurnInv`). For the second, each of
  the first files is in `FileRefs`, and from then on to be exported, to be sent, or
  settled (`AccountInv`). For the third, each message of the answer is in the chat or
  among those still to be sent (`AnswerInv`), through edits, retries, fallbacks and lost
  answers. For the fourth, `ShownInv` gives the chat message by message: a preview that
  fits is the only message until the first of the answer takes its place, then what is
  shown is the answer up to a message and what is to be sent the rest, and files and
  speech come behind. That the chunks of a text show each unit once is arithmetic of its
  own (`ChunksShowAll`), and that without trouble the sink gives up nothing but a
  preview is `SinkUntroubled`.
* `PtySessionProofs`: types, `PromptsArriveWhole`, `AnswerIsOwn`, and that no two calls
  are inside a turn. Only the holder of the mutex writes, and a prompt stays unfinished
  only once the process is gone (`HolderInv`, `WrittenInv`); a settled process has
  nothing of an earlier prompt left to say, in the terminal or in the channel after the
  drain (`OwnInv`).
* `StartupProofs`: `VerdictIsWhole`, `AcceptedIsComplete`, `GoodVerdictStarts`, for any
  configurations, worlds and changes. `VerdictInv` says which checks have a verdict at
  each step of the doctor; `LoadedInv` that past loading there are no errors, from which
  `ErrorsFree` draws what the later steps take for granted. `GoodVerdictInv` says that,
  as long as the world has not changed since the doctor began, what has passed is so
  (`Fact`); a whole verdict then leaves the daemon's steps only causes the doctor does
  not look at (`DaemonCauses`), which `NotDoctored` lists.

The assumptions are those the modules name (`BrokerAssumption`,
`LifecycleLockAssumption`, `RuntimeAssumption`, `RouterAssumption`, `ConversationAssumption`,
`SubprocessAssumption`,
`DeliveryAssumption`, `PtyAssumption`, `StartupAssumption`); TLC evaluates them in the runs.

Checked by TLC only: liveness (`EveryWaiterRuns`, `StartingSettles`,
`AcceptedItemsSettle`, `EnqueueReturns`, `SpokenReplyEnds`, `PromptedTurnEnds`,
`DeliveryEnds`, `CallsEnd`), since fairness is out of the prover's reach. Every other
property of a passing run is a theorem.

## Noticed while modelling

Differences between text and code that no run pins down, because a passing property
says what holds instead, or because they are a matter of wording:

* manage-group-runtime.md:78 says messages cannot overlap in a chat's Codex runtime. A
  replacement does not wait for the turn that runs: the old session finishes it beside
  the first turn of the new one (`router.rs:172`). `SaysAtMostOneThingLate` bounds what
  the chat sees of it, and within one session `ImplementsChatQueue` keeps turns apart.
  That turn's next `docker exec` finds the new container and may write to the workspace
  that was cleared, before the new session begins: `NothingSurvivesClearing` says that
  what is there then is at least not from before the command.
* A speech command that fails is killed, what it started is not (`audio/mod.rs:334`): a
  descendant may write the reply's file after it was removed, or change the one that is
  sent. `FileMatchesOutcome` is about commands that nothing outlives.
* memory-model.md:11 says recent chat is populated on delivery. A request whose runtime
  or audio fails is left before it is recorded (`app.rs:267`), and so is a command that
  does not parse. `PromptIsFaithful` is about what was recorded.
* validate-and-troubleshoot.md:117 says `codex_max_turn_secs` bounds the full Codex
  process. The prompt is written before the limit starts (`codex/exec.rs:57`), and after
  a failed write the child is not killed. `PromptedTurnEnds` is what holds.
* Previews are limited in characters and messages in bytes, and `validate` relates the
  two limits in no way: a long preview takes two messages, of which only the first is
  edited later. `AnswerShownOnce` asks for a preview that fits.
* A final edit that fails for good leaves the preview beside the answer, which is then
  sent whole. The plain fallback is tried after any error, so an answer that was lost
  repeats a chunk (`bot/telegram.rs:192`).
* An upload that Telegram refuses is logged, and the chat hears nothing of it. An
  answer without text sends no message.
* architecture.md:62 says `codex exec` does not stream; it emits snapshots
  (`codex/exec.rs:159`).
* In a terminal session, a turn that is cut by its deadline during a silence is returned
  as complete, and the rest of its answer may be taken for that to the next prompt
  (`codex/pty.rs:145`): `AnswerIsOwn` is about calls that began settled. An answer that
  contains the words of Codex's own question makes its turn time out. The child is not
  killed when the session is dropped.
* The doctor refuses an environment variable that is set and empty, the daemon does not.
  It does not look at the port, the base URL or the user agent, which can stop the
  daemon or its first request, nor, with a broker, at whether the sandbox reaches it and
  it reaches the upstream with a key that is taken. Its probes run the literal `codex`
  (`doctor.rs:213`), a turn the configured command, arguments and model
  (`runtime.rs:498`). `NotDoctored` is the whole list;
  validate-and-troubleshoot.md:138 names other limits of the doctor.
* A huge queue depth or turn limit is accepted and panics where it is used
  (`AcceptedIsComplete` says which).
* message-lifecycle.md:65 and manage-group-runtime.md:32 say a stale response is
  suppressed. It is, up to the one message already past its check.
* telegram-commands.md:67: a queue position of 0 is also given while an earlier
  item has been received by the worker and not begun.
* sandbox.md:126 describes ensuring a chat as inspecting its container; a chat that
  is registered is not looked at (`runtime.rs:566`), also when its container has
  stopped.
* telegram-commands.md:62: a chat is reported ready shortly before its session is
  registered (`runtime.rs:452`).
* A request authorised before its token was removed makes the limiter entry again.
* A page that could be written only in part stays in the temporary directory
  (`url/mod.rs:139`): its path is lost with the error. `NoTempFileLeft` says so.

## Not modelled, and why

* Text: parsing of commands, rendering of prompts, summaries and Markdown, notices,
  `docker run` arguments, the cleaning of a text for speech. Their outcome is an input
  where it matters.
* The script that enforces the sandbox network and the checks of it
  (`sandbox/network.rs`): it configures the host, and its effect is not in the code.
* SQLite: single statements behind one connection. That they fail is modelled.
* The typing indicator and queue notices: no other state depends on them.
* The transcript that the speech-to-text command writes beside an attachment: it is
  removed together with it (`app.rs:692`), so that `temp` of `Conversation` stands for both.

## Plan

What is left, the most useful first:

1. `Urls`: the extraction and limits of `url/mod.rs` as a pure algorithm against a
   reference definition.
2. Durable memory in `Conversation`: `/memory` and the memories of a queued prompt.
3. Proofs: that the files of an answer arrive in the order it mentions them, which
   `FilesAccountedFor` leaves open.
4. `Delivery` with the next turn of a replaced session beside it, in one chat.
