-------------------------------- MODULE Router --------------------------------
(***************************************************************************)
(* The Router (src/router.rs) of one chat.  Both maps of the router are    *)
(* keyed by chat id and no step touches two chats.                         *)
(*                                                                         *)
(* A call to enqueue reads `sessions`, releases that lock, takes `senders` *)
(* and reuses or spawns a worker, reads the queue position, and waits for  *)
(* room in the worker's channel.  register_session and mark_session_stale  *)
(* change the two maps under separate locks as well.  A worker serves its  *)
(* channel turn by turn and looks at `sessions` before each thing it says  *)
(* to the chat, to find out whether its generation has been replaced.      *)
(*                                                                         *)
(* A call of enqueue spawns at most one worker: a worker goes by the name  *)
(* of the item whose call spawned it.                                      *)
(***************************************************************************)
EXTENDS Naturals, Sequences, FiniteSets

CONSTANTS
    Items,        \* work items: each is enqueued at most once
    NoWorker,     \* no entry in `senders`
    Depth,        \* queue_depth; Router::new makes it at least 1
    Serialized,   \* are the calls for the chat made one after the other, as the
                  \* dispatcher of src/bot/telegram.rs makes them?
    MaxGeneration \* BOUND: sessions registered

ASSUME RouterAssumption ==
    /\ NoWorker \notin Items
    /\ Depth \in Nat \ {0}
    /\ Serialized \in BOOLEAN
    /\ MaxGeneration \in Nat

Workers == Items

VARIABLES
    session,     \* sessions[chat].generation: 0 for no entry
    sender,      \* senders[chat]: a worker
    latest,      \* the newest generation that was registered
    lifecycle,   \* where a register_session or mark_session_stale is
    status,      \* where an item is
    seen,        \* the generation sender_for_chat read for an item
    route,       \* the worker whose sender the item's call holds
    position,    \* the item's queue_position
    generation,  \* a worker's generation
    wpc,         \* where a worker is
    queue,       \* a worker's channel
    current,     \* the item a worker is working on
    active,      \* a worker's active_items
    turn,        \* what became of a worker's turn
    preview,     \* has the turn a streamed message?
    temp,        \* temporary files a worker has on the host
    late         \* HISTORY: what a worker said to the chat after it was replaced

callVars   == <<status, seen, route, position>>
mapVars    == <<session, sender, latest, lifecycle>>
turnVars   == <<current, turn, preview, temp>>
workerVars == <<generation, wpc, queue, active, turnVars, late>>
vars == <<callVars, mapVars, workerVars>>

Calling == {"lookup", "route", "count", "count_active", "send"}

Init ==
    /\ session = 0
    /\ sender = NoWorker
    /\ latest = 0
    /\ lifecycle = "idle"
    /\ status     = [i \in Items |-> "new"]
    /\ seen       = [i \in Items |-> 0]
    /\ route      = [i \in Items |-> NoWorker]
    /\ position   = [i \in Items |-> 0]
    /\ generation = [w \in Workers |-> 0]
    /\ wpc        = [w \in Workers |-> "none"]
    /\ queue      = [w \in Workers |-> <<>>]
    /\ current    = [w \in Workers |-> NoWorker]
    /\ active     = [w \in Workers |-> 0]
    /\ turn       = [w \in Workers |-> "none"]
    /\ preview    = [w \in Workers |-> FALSE]
    /\ temp       = [w \in Workers |-> {}]
    /\ late       = [w \in Workers |-> 0]

NoCallRuns == lifecycle = "idle" /\ \A i \in Items : status[i] \notin Calling

\* May a call for the chat begin?
MayCall == Serialized => NoCallRuns

-----------------------------------------------------------------------------
(* register_session and mark_session_stale. *)

RegisterSession ==
    /\ lifecycle = "idle"
    /\ MayCall
    /\ latest < MaxGeneration
    /\ latest' = latest + 1
    /\ session' = latest'
    /\ lifecycle' = "drop_sender"
    /\ UNCHANGED <<callVars, sender, workerVars>>

MarkSessionStale ==
    /\ lifecycle = "idle"
    /\ MayCall
    /\ session # 0
    /\ session' = 0
    /\ lifecycle' = "drop_sender"
    /\ UNCHANGED <<callVars, sender, latest, workerVars>>

\* senders.remove, the second half of both
DropSender ==
    /\ lifecycle = "drop_sender"
    /\ sender' = NoWorker
    /\ lifecycle' = "idle"
    /\ UNCHANGED <<callVars, session, latest, workerVars>>

-----------------------------------------------------------------------------
(* enqueue. *)

SetStatus(i, s) == status' = [status EXCEPT ![i] = s]

Enqueue(i) ==
    /\ status[i] = "new"
    /\ MayCall
    /\ SetStatus(i, "lookup")
    /\ UNCHANGED <<seen, route, position, mapVars, workerVars>>

\* sender_for_chat, under the lock of `sessions`
LookUpSession(i) ==
    /\ status[i] = "lookup"
    /\ seen' = [seen EXCEPT ![i] = session]
    /\ SetStatus(i, IF session = 0 THEN "missing_session" ELSE "route")
    /\ UNCHANGED <<route, position, mapVars, workerVars>>

\* MUTANT of Reusable: every item gets a worker of its own.
ReusableNever(i) == FALSE

\* The sender in `senders` is of the generation that was read before.
Reusable(i) == sender # NoWorker /\ generation[sender] = seen[i]

\* sender_for_chat, under the lock of `senders`
ReuseWorker(i) ==
    /\ status[i] = "route"
    /\ Reusable(i)
    /\ route' = [route EXCEPT ![i] = sender]
    /\ SetStatus(i, "count")
    /\ UNCHANGED <<seen, position, mapVars, workerVars>>

SpawnWorker(i) ==
    /\ status[i] = "route"
    /\ ~ Reusable(i)
    /\ sender' = i
    /\ generation' = [generation EXCEPT ![i] = seen[i]]
    /\ wpc'   = [wpc   EXCEPT ![i] = "recv"]
    /\ route' = [route EXCEPT ![i] = i]
    /\ SetStatus(i, "count")
    /\ UNCHANGED <<seen, position, session, latest, lifecycle, queue, active, turnVars, late>>

\* queue_position: the channel's buffered items, then active_items
CountBuffered(i) ==
    /\ status[i] = "count"
    /\ position' = [position EXCEPT ![i] = Len(queue[route[i]])]
    /\ SetStatus(i, "count_active")
    /\ UNCHANGED <<seen, route, mapVars, workerVars>>

CountActive(i) ==
    /\ status[i] = "count_active"
    /\ position' = [position EXCEPT ![i] = @ + active[route[i]]]
    /\ SetStatus(i, "send")
    /\ UNCHANGED <<seen, route, mapVars, workerVars>>

\* MUTANT of HasRoom: a queue_depth of 1 leaves no room at all.
HasRoomForOneLess(w) == Len(queue[w]) < Depth - 1

HasRoom(w) == Len(queue[w]) < Depth

\* sender.send: waits for room; the worker's receiver may be gone.
Send(i) ==
    LET w == route[i] IN
    /\ status[i] = "send"
    /\ wpc[w] # "done"
    /\ HasRoom(w)
    /\ queue' = [queue EXCEPT ![w] = Append(@, i)]
    /\ SetStatus(i, "accepted")
    /\ UNCHANGED <<seen, route, position, mapVars, generation, wpc, active, turnVars, late>>

SendFails(i) ==
    /\ status[i] = "send"
    /\ wpc[route[i]] = "done"
    /\ SetStatus(i, "queue_closed")
    /\ UNCHANGED <<seen, route, position, mapVars, workerVars>>

-----------------------------------------------------------------------------
(* The worker: spawn_chat_worker and run_session_with_streaming. *)

At(w, s) == wpc[w] = s
Go(w, s) == wpc' = [wpc EXCEPT ![w] = s]

\* MUTANT of Stale: a new session of the chat is taken for the worker's own.
StaleIfUnregistered(w) == session = 0

\* worker_is_stale
Stale(w) == session # generation[w]

\* What is said to the chat is recorded if it comes after the replacement; an
\* answer and the files that go with it are one thing.
RecordLateness(w) ==
    late' = [late EXCEPT ![w] = IF session = generation[w] THEN @ ELSE @ + 1]

\* break: the receiver is dropped, with everything it still buffers.
Break(w) ==
    /\ Go(w, "done")
    /\ queue' = [queue EXCEPT ![w] = <<>>]

Buffered(w) == {queue[w][k] : k \in DOMAIN queue[w]}

\* The items that are gone when w breaks off.
DropItems(w) ==
    status' = [i \in Items |-> IF i \in Buffered(w) \cup {current[w]} THEN "dropped"
                                                                      ELSE status[i]]

\* finish_item
FinishItem(w) ==
    /\ active' = [active EXCEPT ![w] = @ - 1]
    /\ current' = [current EXCEPT ![w] = NoWorker]
    /\ turn' = [turn EXCEPT ![w] = "none"]
    /\ preview' = [preview EXCEPT ![w] = FALSE]

\* The end of an item in the loop's body: everything that was to be sent was.
NextItem(w) ==
    /\ FinishItem(w)
    /\ SetStatus(current[w], "answered")
    /\ Go(w, "recv")

\* rx.recv
Receive(w) ==
    /\ At(w, "recv")
    /\ queue[w] # <<>>
    /\ current' = [current EXCEPT ![w] = Head(queue[w])]
    /\ queue'   = [queue   EXCEPT ![w] = Tail(@)]
    /\ Go(w, "check")
    /\ UNCHANGED <<callVars, mapVars, generation, active, turn, preview, temp, late>>

\* MUTANT of ChannelClosed: the worker ends as soon as its sender is dropped.
ChannelClosedEarly(w) ==
    /\ At(w, "recv")
    /\ sender # w
    /\ \A i \in Items : route[i] = w => status[i] \notin Calling
    /\ Go(w, "done")
    /\ UNCHANGED <<callVars, mapVars, generation, queue, active, turnVars, late>>

\* rx.recv returns None: the queue is empty and every sender has been dropped.
ChannelClosed(w) ==
    /\ At(w, "recv")
    /\ queue[w] = <<>>
    /\ sender # w
    /\ \A i \in Items : route[i] = w => status[i] \notin Calling
    /\ Go(w, "done")
    /\ UNCHANGED <<callVars, mapVars, generation, queue, active, turnVars, late>>

\* The stale check before a turn, and begin_item.
BeginTurn(w) ==
    /\ At(w, "check")
    /\ ~ Stale(w)
    /\ active' = [active EXCEPT ![w] = @ + 1]
    /\ SetStatus(current[w], "running")
    /\ Go(w, "turn")
    /\ UNCHANGED <<seen, route, position, mapVars, generation, queue, turnVars, late>>

AbandonItem(w) ==
    /\ At(w, "check")
    /\ Stale(w)
    /\ DropItems(w)
    /\ Break(w)
    /\ current' = [current EXCEPT ![w] = NoWorker]
    /\ UNCHANGED <<seen, route, position, mapVars, generation, active, turn, preview, temp, late>>

\* handle_streaming_event, up to the lock of `sessions`: a snapshot to be sent
StreamSnapshot(w) ==
    /\ At(w, "turn")
    /\ ~ Stale(w)
    /\ Go(w, "stream")
    /\ UNCHANGED <<callVars, mapVars, generation, queue, active, turnVars, late>>

\* StreamingState::update: sends the preview or edits it, and either may fail.
UpdatePreview(w) ==
    /\ At(w, "stream")
    /\ preview' = [preview EXCEPT ![w] = TRUE]
    /\ RecordLateness(w)
    /\ Go(w, "turn")
    /\ UNCHANGED <<callVars, mapVars, generation, queue, active, current, turn, temp>>

UpdatePreviewFails(w) ==
    /\ At(w, "stream")
    /\ RecordLateness(w)
    /\ Go(w, "turn")
    /\ UNCHANGED <<callVars, mapVars, generation, queue, active, turnVars>>

\* The session task returns: an output, perhaps with generated files, or an error.
EndTurn(w) ==
    /\ At(w, "turn")
    /\ \/ /\ turn' = [turn EXCEPT ![w] = "ok"]
          /\ \E files \in {{}, {"generated"}} : temp' = [temp EXCEPT ![w] = files]
       \/ /\ turn' = [turn EXCEPT ![w] = "failed"]
          /\ UNCHANGED temp
    /\ Go(w, "ended")
    /\ UNCHANGED <<callVars, mapVars, generation, queue, active, current, preview, late>>

\* The stale check after a turn.
KeepResult(w) ==
    /\ At(w, "ended")
    /\ ~ Stale(w)
    /\ Go(w, "publish")
    /\ UNCHANGED <<callVars, mapVars, generation, queue, active, turnVars, late>>

\* MUTANT of SuppressResult: the generated files are left behind.
SuppressResultOnly(w) ==
    /\ At(w, "ended")
    /\ Stale(w)
    /\ DropItems(w)
    /\ Break(w)
    /\ FinishItem(w)
    /\ UNCHANGED <<seen, route, position, mapVars, generation, temp, late>>

\* MUTANT of SuppressResult: active_items is not counted down.
SuppressResultStillActive(w) ==
    /\ At(w, "ended")
    /\ Stale(w)
    /\ DropItems(w)
    /\ Break(w)
    /\ temp' = [temp EXCEPT ![w] = {}]
    /\ current' = [current EXCEPT ![w] = NoWorker]
    /\ UNCHANGED <<seen, route, position, mapVars, generation, active, turn, preview, late>>

SuppressResult(w) ==
    /\ At(w, "ended")
    /\ Stale(w)
    /\ DropItems(w)
    /\ Break(w)
    /\ temp' = [temp EXCEPT ![w] = {}]
    /\ FinishItem(w)
    /\ UNCHANGED <<seen, route, position, mapVars, generation, late>>

\* The answer, with finish_streamed_message or as a new message.
PublishText(w) ==
    /\ At(w, "publish")
    /\ turn[w] = "ok"
    /\ \E outcome \in {"sent", "unsent"} : turn' = [turn EXCEPT ![w] = outcome]
    /\ RecordLateness(w)
    /\ Go(w, "files")
    /\ UNCHANGED <<callVars, mapVars, generation, queue, active, current, preview, temp>>

\* MUTANT of PublishFailure: a failed turn ends the worker.
PublishFailureAndExit(w) ==
    /\ At(w, "publish")
    /\ turn[w] = "failed"
    /\ RecordLateness(w)
    /\ FinishItem(w)
    /\ DropItems(w)
    /\ Break(w)
    /\ UNCHANGED <<seen, route, position, mapVars, generation, temp>>

\* "Codex session failed", whether it can be sent or not
PublishFailure(w) ==
    /\ At(w, "publish")
    /\ turn[w] = "failed"
    /\ RecordLateness(w)
    /\ NextItem(w)
    /\ UNCHANGED <<seen, route, position, mapVars, generation, queue, temp>>

\* send_generated_files sends and removes each; a spoken reply may follow.
SendFiles(w) ==
    /\ At(w, "files")
    /\ temp' = [temp EXCEPT ![w] = {}]
    /\ \/ turn[w] = "sent" /\ Go(w, "audio") /\ UNCHANGED <<status, active, current, turn, preview>>
       \/ NextItem(w)
    /\ UNCHANGED <<seen, route, position, mapVars, generation, queue, late>>

\* send_audio_reply: a stale check, the synthesis, a stale check, the message.
BeginSynthesis(w) ==
    /\ At(w, "audio")
    /\ ~ Stale(w)
    /\ Go(w, "synthesize")
    /\ UNCHANGED <<callVars, mapVars, generation, queue, active, turnVars, late>>

SkipAudio(w) ==
    /\ \/ At(w, "audio") /\ Stale(w)
       \/ At(w, "synthesize")   \* nothing to say, or the synthesis failed
    /\ NextItem(w)
    /\ UNCHANGED <<seen, route, position, mapVars, generation, queue, temp, late>>

Synthesize(w) ==
    /\ At(w, "synthesize")
    /\ temp' = [temp EXCEPT ![w] = {"audio"}]
    /\ Go(w, "synthesized")
    /\ UNCHANGED <<callVars, mapVars, generation, queue, active, current, turn, preview, late>>

KeepAudio(w) ==
    /\ At(w, "synthesized")
    /\ ~ Stale(w)
    /\ Go(w, "send_audio")
    /\ UNCHANGED <<callVars, mapVars, generation, queue, active, turnVars, late>>

DiscardAudio(w) ==
    /\ At(w, "synthesized")
    /\ Stale(w)
    /\ temp' = [temp EXCEPT ![w] = {}]
    /\ NextItem(w)
    /\ UNCHANGED <<seen, route, position, mapVars, generation, queue, late>>

SendAudio(w) ==
    /\ At(w, "send_audio")
    /\ RecordLateness(w)
    /\ temp' = [temp EXCEPT ![w] = {}]
    /\ NextItem(w)
    /\ UNCHANGED <<seen, route, position, mapVars, generation, queue>>

-----------------------------------------------------------------------------

CallStep(i) ==
    \/ LookUpSession(i) \/ ReuseWorker(i) \/ SpawnWorker(i)
    \/ CountBuffered(i) \/ CountActive(i) \/ Send(i) \/ SendFails(i)

WorkerStep(w) ==
    \/ Receive(w) \/ ChannelClosed(w) \/ BeginTurn(w) \/ AbandonItem(w)
    \/ StreamSnapshot(w) \/ UpdatePreview(w) \/ UpdatePreviewFails(w)
    \/ EndTurn(w) \/ KeepResult(w) \/ SuppressResult(w)
    \/ PublishText(w) \/ PublishFailure(w) \/ SendFiles(w)
    \/ BeginSynthesis(w) \/ SkipAudio(w) \/ Synthesize(w)
    \/ KeepAudio(w) \/ DiscardAudio(w) \/ SendAudio(w)

Next ==
    \/ RegisterSession \/ MarkSessionStale \/ DropSender
    \/ \E i \in Items : Enqueue(i) \/ CallStep(i)
    \/ \E w \in Workers : WorkerStep(w)

Spec == Init /\ [][Next]_vars

\* Tokio runs every task that can run.  A turn ends however often it streams:
\* the Codex sessions limit its time, but for what module Subprocess shows of a
\* command that does not read its prompt or leaves a descendant.
Fairness ==
    /\ WF_vars(DropSender)
    /\ \A i \in Items : WF_vars(CallStep(i))
    /\ \A w \in Workers : WF_vars(WorkerStep(w)) /\ SF_vars(EndTurn(w))

FairSpec == Spec /\ Fairness

-----------------------------------------------------------------------------
(* Properties. *)

InTurn(w) == wpc[w] \in {"turn", "stream"}

\* Between begin_item and finish_item.
Begun(w) == InTurn(w) \/ wpc[w] \in {"ended", "publish", "files", "audio", "synthesize",
                                   "synthesized", "send_audio"}

\* Types, and no queue longer than its channel.
TypeOK ==
    /\ session \in Nat /\ latest \in Nat
    /\ sender \in Workers \cup {NoWorker}
    /\ lifecycle \in {"idle", "drop_sender"}
    /\ status \in [Items -> Calling \cup {"new", "missing_session", "queue_closed",
                                         "accepted", "running", "answered", "dropped"}]
    /\ seen \in [Items -> Nat]
    /\ route \in [Items -> Workers \cup {NoWorker}]
    /\ position \in [Items -> 0..Depth + 1]
    /\ generation \in [Workers -> Nat]
    /\ \A w \in Workers : Begun(w) \/ wpc[w] \in {"none", "recv", "check", "done"}
    /\ \A w \in Workers : Len(queue[w]) <= Depth /\ Buffered(w) \subseteq Items
    /\ current \in [Workers -> Items \cup {NoWorker}]
    /\ active \in [Workers -> Nat]
    /\ turn \in [Workers -> {"none", "ok", "failed", "sent", "unsent"}]
    /\ preview \in [Workers -> BOOLEAN]
    /\ temp \in [Workers -> SUBSET {"generated", "audio"}]
    /\ late \in [Workers -> Nat]

\* queue_position counts no ghosts: active_items is 1 exactly between
\* begin_item and finish_item, on every way out of the loop's body.
ActiveItemsAgree ==
    \A w \in Workers : active[w] = IF Begun(w) THEN 1 ELSE 0

\* A worker that is done with an item has removed the item's files from the
\* host's temporary directory, also when the answer was suppressed.
NoTempFileLeft ==
    \A w \in Workers : temp[w] # {} => Begun(w)

\* A replaced worker gets at most one more thing out: the one it had checked
\* just before it was replaced.
SaysAtMostOneThingLate ==
    \A w \in Workers : late[w] <= 1

\* An accepted item is dropped without an answer only if the session it was
\* accepted for is no longer the chat's.
OnlyReplacementDrops ==
    [][\A i \in Items :
          status'[i] = "dropped" /\ status[i] # "dropped" => session # generation[route[i]]]_vars

\* An accepted item is answered in the end, or dropped.
AcceptedItemsSettle ==
    \A i \in Items : status[i] = "accepted" ~> status[i] \in {"answered", "dropped"}

\* A call of enqueue returns in the end, however full the queue is and even if
\* the session is replaced while it waits.
EnqueueReturns ==
    \A i \in Items : status[i] \in Calling ~> status[i] \notin Calling

-----------------------------------------------------------------------------
(* The abstract queue: module ChatQueue. *)

ServedBy(g) == {w \in Workers : wpc[w] # "none" /\ generation[w] = g}

\* A received item that is not begun is still in the abstract queue.
WaitingAt(w) == (IF wpc[w] = "check" THEN <<current[w]>> ELSE <<>>) \o queue[w]

\* What an item has become, seen from outside.
Fate == [i \in Items |-> IF status[i] \in {"accepted", "running", "answered", "dropped"}
                         THEN status[i] ELSE "new"]

Waiting == [g \in 1..MaxGeneration |->
               IF ServedBy(g) = {} THEN <<>> ELSE WaitingAt(CHOOSE w \in ServedBy(g) : TRUE)]

Serving == [g \in 1..MaxGeneration |-> {current[w] : w \in {x \in ServedBy(g) : Begun(x)}}]

Queue == INSTANCE ChatQueue WITH
    Generations <- 1..MaxGeneration,
    Capacity    <- Depth + 1,
    now         <- session,
    newest      <- latest,
    fate        <- Fate,
    waiting     <- Waiting,
    serving     <- Serving

\* When the calls for a chat are made one after the other, a chat's router is a
\* first-come first-served queue per session, one item being served at a time.
ImplementsChatQueue == Queue!Spec
=============================================================================
