----------------------------- MODULE Conversation -----------------------------
(***************************************************************************)
(* One chat's messages on their way through AppCore (src/app.rs): the      *)
(* rolling buffer (src/memory/rolling.rs), the preparation of attachments, *)
(* the prompt, the host-side commands that change the session or the voice *)
(* setting, and the spoken reply that is made while further messages       *)
(* arrive.                                                                 *)
(*                                                                         *)
(* The chat's router is taken from module ChatQueue, which module Router   *)
(* is checked to implement when its calls do not overlap; the dispatcher   *)
(* hands a chat's messages to AppCore one after the other, so they do not. *)
(* The runtime appears by what Runtime proves of it: no session while its  *)
(* sandbox is replaced, and a new generation afterwards.  Here "reset"     *)
(* stands for every command that replaces it and keeps the workspace       *)
(* (/restart, /reset, /rebuild), "reset_clear" for those that clear it.    *)
(***************************************************************************)
EXTENDS Naturals, Sequences, FiniteSets, SequencesExt

CONSTANTS
    MaxMessages,    \* BOUND: messages Telegram delivers are 1 .. MaxMessages
    Kinds,          \* kinds of message: see AllKinds
    Capacity,       \* limits.recent_buffer_messages
    QueueCapacity,  \* items a session can hold: per_group_queue_depth + 1
    MaxGeneration   \* BOUND: session generations

AllKinds == {"ambient", "text", "document", "link",           \* not a command
             "voice", "captioned",                            \* audio without and with a text
             "malformed",                                     \* a command that does not parse
             "summarize", "reset", "reset_clear", "voice_on", "voice_off",
             "other"}                                         \* a command that is only answered

ASSUME ConversationAssumption ==
    /\ MaxMessages \in Nat
    /\ Kinds \subseteq AllKinds
    /\ Capacity \in Nat \ {0}
    /\ QueueCapacity \in Nat \ {0}
    /\ MaxGeneration \in Nat

Messages == 1..MaxMessages

VARIABLES
    delivered,  \* the number of messages delivered so far
    kind,       \* what kind of message it turned out to be
    pc,         \* where AppCore::handle_message is with a message
    recent,     \* the chat's rolling buffer
    prompt,     \* the recent chat in a message's prompt
    offered,    \* messages whose prompt names a file: an attachment with a
                \* workspace_path, or a saved page
    transcribed,\* messages with a transcript
    files,      \* docker: messages whose file is in the workspace volume
    temp,       \* the host: a message's temporary file, and the transcript beside it,
                \* which is removed with it
    voice,      \* chat_settings: spoken replies are on
    speech,     \* where send_audio_reply is with a message's spoken reply
    recorded,   \* HISTORY: messages ever pushed to the rolling buffer
    allowed,    \* HISTORY: spoken replies with voice on at some time since they were made
    now, newest, fate, waiting, serving  \* the router: see ChatQueue

Queue == INSTANCE ChatQueue WITH
    Items       <- Messages,
    Generations <- 1..MaxGeneration,
    Capacity    <- QueueCapacity

messageVars == <<delivered, kind>>
promptVars  == <<recent, prompt, recorded>>
fileVars    == <<offered, transcribed, files, temp>>
voiceVars   == <<voice, speech, allowed>>
queueVars   == <<now, newest, fate, waiting, serving>>
vars == <<messageVars, pc, promptVars, fileVars, voiceVars, queueVars>>

Init ==
    /\ delivered = 0
    /\ kind = [m \in Messages |-> "ambient"]
    /\ pc   = [m \in Messages |-> "undelivered"]
    /\ recent = <<>>
    /\ prompt = [m \in Messages |-> <<>>]
    /\ offered = {}
    /\ transcribed = {}
    /\ files = {}
    /\ temp = [m \in Messages |-> "none"]
    /\ voice = TRUE
    /\ speech = [m \in Messages |-> "none"]
    /\ recorded = {}
    /\ allowed = {}
    /\ Queue!Init

-----------------------------------------------------------------------------
(* Delivery and the rolling buffer. *)

Commands == {"summarize", "reset", "reset_clear", "voice_on", "voice_off", "other"}

IsAudio(m) == kind[m] \in {"voice", "captioned"}

BringsFile(m) == kind[m] \in {"document", "link"} \/ IsAudio(m)

\* How handle_message ends: without a word, with a notice or a reply, or with
\* the message's prompt in the queue.
Ended == {"silent", "replied", "queued"}

Go(m, s) == pc' = [pc EXCEPT ![m] = s]

\* A voice message without a text may be refused at once: audio is disabled or
\* not configured, or its file is too large.
Preflight(m, k) == k = "voice" /\ Go(m, "replied")

\* MUTANT of DispatcherFree: the messages of a chat are handled concurrently.
DispatcherAlwaysFree == TRUE

\* The dispatcher handles a chat's messages one after the other.
DispatcherFree == \A m \in 1..delivered : pc[m] \in Ended

\* The next message arrives and is parsed.
Deliver(k) ==
    LET m == delivered + 1 IN
    /\ m \in Messages
    /\ DispatcherFree
    /\ delivered' = m
    /\ kind' = [kind EXCEPT ![m] = k]
    /\ \/ k = "malformed" /\ Go(m, "silent")
       \/ k \in Commands \cup {"ambient"} /\ Go(m, "record")
       \/ k \in {"text", "document", "voice", "captioned", "link"} /\ Go(m, "ensure")
       \/ Preflight(m, k)
    /\ UNCHANGED <<promptVars, fileVars, voiceVars, queueVars>>

\* MUTANT of Newest: the buffer keeps one message too many.
NewestOneMore(s) == IF Len(s) > Capacity + 1 THEN Tail(s) ELSE s

Newest(s) == IF Len(s) > Capacity THEN Tail(s) ELSE s

Push(m) ==
    /\ recent' = Newest(Append(recent, m))
    /\ recorded' = recorded \cup {m}

RecordAmbient(m) ==
    /\ pc[m] = "record"
    /\ kind[m] = "ambient"
    /\ Push(m)
    /\ Go(m, "silent")
    /\ UNCHANGED <<messageVars, prompt, fileVars, voiceVars, queueVars>>

\* MUTANT of RecordCommand: the summary is made of what the buffer holds once
\* the command itself is in it.
RecordCommandFirst(m) ==
    /\ pc[m] = "record"
    /\ kind[m] \in Commands
    /\ Push(m)
    /\ prompt' = [prompt EXCEPT ![m] = SelectSeq(recent', LAMBDA x : x # m)]
    /\ Go(m, "command")
    /\ UNCHANGED <<messageVars, fileVars, voiceVars, queueVars>>

\* The recent chat of a summary is taken before the command is pushed.
RecordCommand(m) ==
    /\ pc[m] = "record"
    /\ kind[m] \in Commands
    /\ prompt' = [prompt EXCEPT ![m] = IF kind[m] = "summarize" THEN recent ELSE <<>>]
    /\ Push(m)
    /\ Go(m, "command")
    /\ UNCHANGED <<messageVars, fileVars, voiceVars, queueVars>>

-----------------------------------------------------------------------------
(* Requests: ensure the runtime, prepare attachments, render the prompt.    *)

\* ensure_chat_runtime, which registers a session if there is none.
Ensure(m) ==
    /\ pc[m] = "ensure"
    /\ IF now = 0 THEN /\ Queue!Replace
                       /\ now' = newest + 1
                  ELSE UNCHANGED queueVars
    /\ Go(m, CASE kind[m] = "summarize" -> "enqueue"
               [] BringsFile(m)         -> "download"
               [] OTHER                 -> "record_trigger")
    /\ UNCHANGED <<messageVars, promptVars, fileVars, voiceVars>>

\* Starting the runtime fails, which the chat is told.
EnsureFails(m) ==
    /\ pc[m] = "ensure"
    /\ now = 0
    /\ Go(m, "replied")
    /\ UNCHANGED <<messageVars, promptVars, fileVars, voiceVars, queueVars>>

\* download_file_to_path, which creates the file before it fills it.  Nothing is
\* downloaded of what is disabled or declared too large.
Download(m) ==
    /\ pc[m] = "download"
    /\ kind[m] # "link"
    /\ \/ temp' = [temp EXCEPT ![m] = "whole"] /\ Go(m, "import")
       \/ temp' \in {temp, [temp EXCEPT ![m] = "partial"]} /\ Go(m, "cleanup")
    /\ UNCHANGED <<messageVars, promptVars, offered, transcribed, files, voiceVars, queueVars>>

\* fetch_snapshot saves the page, or fails, at the latest when it writes the
\* file, whose path is lost then.
FetchSnapshot(m) ==
    /\ pc[m] = "download"
    /\ kind[m] = "link"
    /\ \/ temp' = [temp EXCEPT ![m] = "whole"] /\ Go(m, "import")
       \/ temp' \in {temp, [temp EXCEPT ![m] = "partial"]} /\ Go(m, "record_trigger")
    /\ UNCHANGED <<messageVars, promptVars, offered, transcribed, files, voiceVars, queueVars>>

\* docker exec mkdir, docker cp, docker exec chown: a failure may come too late
\* to keep the file out of the workspace.
CopyToWorkspace(m, next, failed) ==
    /\ \/ /\ files' = files \cup {m}
          /\ offered' = offered \cup {m}
          /\ Go(m, next)
       \/ /\ files' \in {files, files \cup {m}}
          /\ UNCHANGED offered
          /\ Go(m, failed)
    /\ UNCHANGED <<messageVars, promptVars, transcribed, temp, voiceVars, queueVars>>

\* MUTANT of Import: an error leaves import_attachment before the file is removed.
ImportOrGiveUp(m) ==
    /\ pc[m] = "import"
    /\ kind[m] # "link"
    /\ IF IsAudio(m) THEN CopyToWorkspace(m, "transcribe", "replied")
                     ELSE CopyToWorkspace(m, "cleanup", "record_trigger")

\* import_attachment, import_audio_attachment
Import(m) ==
    /\ pc[m] = "import"
    /\ kind[m] # "link"
    /\ CopyToWorkspace(m, IF IsAudio(m) THEN "transcribe" ELSE "cleanup", "cleanup")

ImportSnapshot(m) ==
    /\ pc[m] = "import"
    /\ kind[m] = "link"
    /\ CopyToWorkspace(m, "cleanup", "cleanup")

Transcribe(m) ==
    /\ pc[m] = "transcribe"
    /\ \/ transcribed' = transcribed \cup {m}
       \/ UNCHANGED transcribed
    /\ Go(m, "cleanup")
    /\ UNCHANGED <<messageVars, promptVars, offered, files, temp, voiceVars, queueVars>>

\* The temporary files go.  A message that is nothing but audio ends here if there
\* is no transcript; one with a text goes on with a note about the failure.
Cleanup(m) ==
    /\ pc[m] = "cleanup"
    /\ temp' = [temp EXCEPT ![m] = "none"]
    /\ Go(m, IF kind[m] = "voice" /\ m \notin transcribed THEN "replied" ELSE "record_trigger")
    /\ UNCHANGED <<messageVars, promptVars, offered, transcribed, files, voiceVars, queueVars>>

\* The chat's voice setting matters to a message with audio, unless the daemon has
\* no audio or no spoken replies at all.
RecordTrigger(m) ==
    /\ pc[m] = "record_trigger"
    /\ Push(m)
    /\ \/ IsAudio(m) /\ Go(m, "settings")
       \/ Go(m, "render")
    /\ UNCHANGED <<messageVars, prompt, fileVars, voiceVars, queueVars>>

\* A message with audio asks for a spoken reply if the chat has them on.
ReadSettings(m) ==
    /\ pc[m] = "settings"
    /\ \/ /\ speech' = [speech EXCEPT ![m] = IF voice THEN "asked" ELSE "none"]
          /\ Go(m, "render")
       \/ /\ Go(m, "silent")  \* the store fails: no notice
          /\ UNCHANGED speech
    /\ UNCHANGED <<messageVars, promptVars, fileVars, voice, allowed, queueVars>>

\* The recent chat is read from the buffer once more, then the memories.
Render(m) ==
    /\ pc[m] = "render"
    /\ prompt' = [prompt EXCEPT ![m] = recent]
    /\ \/ Go(m, "enqueue")
       \/ Go(m, "silent")  \* the store fails: no notice
    /\ UNCHANGED <<messageVars, recent, recorded, fileVars, voiceVars, queueVars>>

\* router.enqueue, which waits while the queue is full
Enqueue(m) ==
    /\ pc[m] = "enqueue"
    /\ IF now # 0 THEN Queue!Accept(m) /\ Go(m, "queued")
                  ELSE Go(m, "replied") /\ UNCHANGED queueVars
    /\ UNCHANGED <<messageVars, promptVars, fileVars, voiceVars>>

-----------------------------------------------------------------------------
(* Host-side commands. *)

Summarize(m) ==
    /\ pc[m] = "command"
    /\ kind[m] = "summarize"
    /\ Go(m, IF \E k \in DOMAIN prompt[m] : kind[prompt[m][k]] # "summarize"
             THEN "ensure" ELSE "replied")
    /\ UNCHANGED <<messageVars, promptVars, fileVars, voiceVars, queueVars>>

\* MUTANT of BeginReset: the old session works on while its sandbox goes.
BeginResetLate(m) ==
    /\ pc[m] = "command"
    /\ kind[m] \in {"reset", "reset_clear"}
    /\ UNCHANGED queueVars
    /\ Go(m, IF kind[m] = "reset_clear" THEN "clear" ELSE "register")
    /\ UNCHANGED <<messageVars, promptVars, fileVars, voiceVars>>

\* mark_session_stale: the chat has no session from here on.
BeginReset(m) ==
    /\ pc[m] = "command"
    /\ kind[m] \in {"reset", "reset_clear"}
    /\ Queue!Replace
    /\ now' = 0
    /\ Go(m, IF kind[m] = "reset_clear" THEN "clear" ELSE "register")
    /\ UNCHANGED <<messageVars, promptVars, fileVars, voiceVars>>

\* docker volume rm, or a failing command, which the chat is told
ClearWorkspace(m) ==
    /\ pc[m] = "clear"
    /\ \/ files' = {} /\ Go(m, "register")
       \/ Go(m, "replied") /\ UNCHANGED files
    /\ UNCHANGED <<messageVars, promptVars, offered, transcribed, temp, voiceVars, queueVars>>

\* The new session is registered, or the runtime could not be started.
FinishReset(m) ==
    /\ pc[m] = "register"
    /\ \/ Queue!Replace /\ now' = newest + 1
       \/ UNCHANGED queueVars
    /\ Go(m, "replied")
    /\ UNCHANGED <<messageVars, promptVars, fileVars, voiceVars>>

\* Replies that were made and not yet checked may be sent if voice is on now.
SetVoice(m) ==
    /\ pc[m] = "command"
    /\ kind[m] \in {"voice_on", "voice_off"}
    /\ \/ /\ voice' = (kind[m] = "voice_on")
          /\ allowed' = IF voice' THEN allowed \cup {i \in Messages : speech[i] = "made"} ELSE allowed
          /\ Go(m, "replied")
       \/ /\ Go(m, "silent")  \* the store fails: no notice
          /\ UNCHANGED <<voice, allowed>>
    /\ UNCHANGED <<messageVars, promptVars, fileVars, speech, queueVars>>

\* Every other command (/help, /status, /memory, /remember, /forget, /voice
\* status) is answered, unless the store or Telegram fails.
OtherCommand(m) ==
    /\ pc[m] = "command"
    /\ kind[m] = "other"
    /\ Go(m, "replied") \/ Go(m, "silent")
    /\ UNCHANGED <<messageVars, promptVars, fileVars, voiceVars, queueVars>>

-----------------------------------------------------------------------------
(* The router's side of a request, and the spoken reply. *)

Generation(i) == CHOOSE g \in 1..MaxGeneration : i \in serving[g]

Stale(i) == Generation(i) # now

Settled == {"none", "skipped", "sent"}

BeginTurn ==
    /\ Queue!Begin
    /\ UNCHANGED <<messageVars, pc, promptVars, fileVars, voiceVars>>

\* A stale worker also abandons the spoken reply it has not begun.
FinishTurn(i) ==
    /\ fate[i] = "running"
    /\ \/ speech[i] \in Settled
       \/ speech[i] = "asked" /\ Stale(i)
    /\ \/ Queue!Finish(Generation(i), i)
       \/ Queue!Drop(Generation(i))
    /\ UNCHANGED <<messageVars, pc, promptVars, fileVars, voiceVars>>

DropQueued ==
    /\ \E g \in 1..MaxGeneration : serving[g] = {} /\ Queue!Drop(g)
    /\ UNCHANGED <<messageVars, pc, promptVars, fileVars, voiceVars>>

Say(i, s) ==
    /\ speech' = [speech EXCEPT ![i] = s]
    /\ UNCHANGED <<messageVars, pc, promptVars, fileVars, voice, queueVars>>

\* What voice_replies_enabled may return: a failing store counts as off.
VoiceEnabled == {voice, FALSE}

\* The first look at the voice setting.
BeginSpeech(i) ==
    /\ fate[i] = "running"
    /\ speech[i] = "asked"
    /\ \E on \in VoiceEnabled : Say(i, IF on /\ ~Stale(i) THEN "synthesizing" ELSE "skipped")
    /\ UNCHANGED allowed

Synthesize(i) ==
    /\ speech[i] = "synthesizing"
    /\ \/ /\ Say(i, "made")
          /\ allowed' = IF voice THEN allowed \cup {i} ELSE allowed
       \/ /\ Say(i, "skipped")
          /\ UNCHANGED allowed

\* MUTANT of KeepOrDiscard: the setting is not read again after the synthesis.
KeepAlways(i) ==
    /\ speech[i] = "made"
    /\ Say(i, "kept")
    /\ UNCHANGED allowed

\* The second look, after the synthesis.
KeepOrDiscard(i) ==
    /\ speech[i] = "made"
    /\ \E on \in VoiceEnabled : Say(i, IF on THEN "kept" ELSE "skipped")
    /\ UNCHANGED allowed

SendSpeech(i) ==
    /\ speech[i] = "kept"
    /\ Say(i, IF Stale(i) THEN "skipped" ELSE "sent")
    /\ UNCHANGED allowed

-----------------------------------------------------------------------------

HandleMessage(m) ==
    \/ RecordAmbient(m) \/ RecordCommand(m)
    \/ Ensure(m) \/ EnsureFails(m)
    \/ Download(m) \/ Import(m) \/ FetchSnapshot(m) \/ ImportSnapshot(m)
    \/ Transcribe(m) \/ Cleanup(m)
    \/ RecordTrigger(m) \/ ReadSettings(m) \/ Render(m) \/ Enqueue(m)
    \/ Summarize(m) \/ BeginReset(m) \/ ClearWorkspace(m) \/ FinishReset(m)
    \/ SetVoice(m) \/ OtherCommand(m)

Work(i) ==
    \/ FinishTurn(i)
    \/ BeginSpeech(i) \/ Synthesize(i) \/ KeepOrDiscard(i) \/ SendSpeech(i)

Next ==
    \/ \E k \in Kinds : Deliver(k)
    \/ \E m \in Messages : HandleMessage(m) \/ Work(m)
    \/ BeginTurn \/ DropQueued

Spec == Init /\ [][Next]_vars

-----------------------------------------------------------------------------
(* Properties. *)

\* Types, and the rolling buffer within limits.recent_buffer_messages.
TypeOK ==
    /\ delivered \in 0..MaxMessages
    /\ kind \in [Messages -> AllKinds]
    /\ pc \in [Messages -> {"undelivered", "record", "command", "ensure", "download", "import",
                            "transcribe", "cleanup", "record_trigger", "settings", "render",
                            "enqueue", "clear", "register"} \cup Ended]
    /\ recent \in Seq(Messages)
    /\ Len(recent) <= Capacity
    /\ prompt \in [Messages -> Seq(Messages)]
    /\ offered \subseteq Messages
    /\ transcribed \subseteq Messages
    /\ files \subseteq Messages
    /\ temp \in [Messages -> {"none", "partial", "whole"}]
    /\ voice \in BOOLEAN
    /\ speech \in [Messages -> {"asked", "synthesizing", "made", "kept"} \cup Settled]
    /\ recorded \subseteq Messages
    /\ allowed \subseteq Messages
    /\ now \in 0..MaxGeneration
    /\ newest \in 0..MaxGeneration

\* The Capacity newest of a set of messages.
NewestOf(s) == {m \in s : Cardinality({x \in s : x > m}) < Capacity}

\* The sequence s is the set of messages S in the order of delivery.
InOrder(s, S) == ToSet(s) = S /\ \A i, j \in DOMAIN s : i < j => s[i] < s[j]

\* The recorded messages that belong into a message's prompt.
Expected(m) == {x \in recorded : x < m} \cup (IF kind[m] = "summarize" THEN {} ELSE {m})

\* The recent chat of a queued prompt is what it has to be: the newest recorded
\* messages in the order of delivery, up to the triggering message itself, or up
\* to but without the /summarize command.
PromptIsFaithful ==
    \A m \in Messages : pc[m] = "queued" => InOrder(prompt[m], NewestOf(Expected(m)))

\* A prompt that is ready finds a session to be queued at: the commands that
\* take the session away are messages of the same chat.
EnqueueFindsSession ==
    \A m \in Messages : pc[m] = "enqueue" => now # 0

\* A turn whose prompt offers the file of its message begins while the file is
\* in the workspace, however many resets clear it in between.
FileIsThereWhenTurnBegins ==
    [][\A m \in offered : fate[m] # "running" /\ fate'[m] = "running" => m \in files]_vars

\* When a message has been handled nothing of it is left in the host's temporary
\* directory, wherever its preparation failed, but for a page that could be
\* written only in part.
NoTempFileLeft ==
    \A m \in 1..delivered :
        pc[m] \in Ended =>
            \/ temp[m] = "none"
            \/ kind[m] = "link" /\ temp[m] = "partial"

\* A spoken reply is sent only if the chat had voice on at some time after the
\* reply was made: turning it off during the synthesis is enough to suppress it.
SpokenOnlyIfAllowed == \A m \in Messages : speech[m] = "sent" => m \in allowed
=============================================================================
