------------------------------- MODULE Delivery -------------------------------
(***************************************************************************)
(* How the answer to one turn reaches the chat: the session's task with    *)
(* its output collection (src/runtime.rs, src/output.rs,                   *)
(* src/sandbox/docker.rs), the streaming and the delivery of the router's  *)
(* worker (src/router.rs), and the Telegram sink (src/bot/telegram.rs),    *)
(* which cuts a text into messages and sends or edits them one by one.     *)
(*                                                                         *)
(* A text is counted in units and a message shows an interval of units, so *)
(* what a reader of the chat sees can be put together.  The size of a text *)
(* in bytes is what limits a message, its characters are what limits a     *)
(* preview: a preview of the same answer may need two messages.            *)
(*                                                                         *)
(* Telegram is external.  It may accept a request, refuse it, ask to wait, *)
(* find a formatted text malformed, or accept it and its answer gets lost. *)
(***************************************************************************)
EXTENDS Naturals, Sequences, FiniteSets, SequencesExt

CONSTANTS
    Settings,   \* telegram_ux, a record: streaming, rich (formatting_mode is not
                \* plain), fallback (formatting_fallback_to_plain), keep (the units
                \* of a preview), speak (the turn asks for a spoken reply)
    Mentions,   \* the files an answer may mention, as a sequence
    MaxFiles,   \* max_files_per_response
    ChunkLimit, \* telegram_chunk_chars, in units
    EventRoom,  \* capacity of the channel of turn events
    MaxUnits    \* BOUND: units of an answer

ASSUME DeliveryAssumption ==
    /\ Settings \subseteq [streaming : BOOLEAN, rich : BOOLEAN, fallback : BOOLEAN,
                           keep : Nat \ {0}, speak : BOOLEAN]
    /\ \A m \in Mentions : m \in Seq(ToSet(m))
    /\ MaxFiles \in Nat \ {0}
    /\ ChunkLimit \in Nat \ {0}
    /\ EventRoom \in Nat \ {0}
    /\ MaxUnits \in Nat

VARIABLES
    setting,   \* the telegram_ux in force
    session,   \* where the session's task is
    size,      \* units of the output
    mentioned, \* the files it mentions
    toExport,  \* the file references not yet exported
    warned,    \* files the output says could not be attached
    files,     \* the exported files still to be sent
    events,    \* the channel of turn events
    pc,        \* where the worker is
    stale,     \* the session has been replaced
    preview,   \* StreamingState: message_id (0: none), last_sent_chars, and what
               \* the latter will be after the running update
    todo,      \* messages still to be sent by the running call of the sink
    first,     \* the first message that call sent, 0 if none
    attempt,   \* how the request for Head(todo) is made
    sent,      \* whether the text was delivered, as far as the worker knows
    chat,      \* the bot's messages in the chat
    temp,      \* temporary files on the host
    trouble,   \* HISTORY: a request failed for good, or its answer was lost
    dockerLeft,\* HISTORY: what docker cp wrote although the export failed
    refused    \* HISTORY: files whose upload failed

sessionVars == <<session, size, mentioned, toExport, warned>>
requestVars == <<todo, first, attempt>>
historyVars == <<trouble, dockerLeft, refused>>
vars == <<setting, sessionVars, files, events, pc, stale, preview, requestVars, sent,
          chat, temp, historyVars>>

FirstTry == [plain |-> FALSE, again |-> FALSE]
NoPreview == [message |-> 0, chars |-> 0, next |-> 0]

Init ==
    /\ setting \in Settings
    /\ session = "running"
    /\ size = 0
    /\ mentioned = <<>>
    /\ toExport = <<>>
    /\ warned = {}
    /\ files = <<>>
    /\ events = <<>>
    /\ pc = "turn"
    /\ stale = FALSE
    /\ preview = NoPreview
    /\ todo = <<>>
    /\ first = 0
    /\ attempt = FirstTry
    /\ sent = "none"
    /\ chat = <<>>
    /\ temp = {}
    /\ trouble = FALSE
    /\ dockerLeft = {}
    /\ refused = {}

-----------------------------------------------------------------------------
(* Texts. *)

Smaller(a, b) == IF a < b THEN a ELSE b

\* chunk_for_telegram of a text of n units; the last chunk of a text that was cut
\* short ends in dots.
Chunks(n, cut) ==
    [c \in 1..((n + ChunkLimit - 1) \div ChunkLimit) |->
        [from |-> (c - 1) * ChunkLimit + 1,
         to   |-> Smaller(c * ChunkLimit, n),
         dots |-> cut /\ c * ChunkLimit >= n]]

\* router.rs's streaming_preview
PreviewOf(n) == Chunks(Smaller(n, setting.keep), n > setting.keep)
PreviewChars(n) == IF n > setting.keep THEN setting.keep + 1 ELSE n

FailureText == [from |-> 0, to |-> 0, dots |-> FALSE]
Document(f) == [file |-> f]
Speech == [voice |-> TRUE]

\* MUTANT of FileRefs: a file that is mentioned twice counts twice.
FileRefsWithRepeats(m) == SubSeq(m, 1, Smaller(MaxFiles, Len(m)))

\* extract_file_refs: the first files that are mentioned, each once
FileRefs(m) ==
    LET firsts == {i \in DOMAIN m : \A j \in 1..(i - 1) : m[j] # m[i]}
        Nth(n) == CHOOSE i \in firsts : Cardinality({j \in firsts : j <= i}) = n
    IN  [n \in 1..Smaller(MaxFiles, Cardinality(firsts)) |-> m[Nth(n)]]

-----------------------------------------------------------------------------
(* The session's task: output, then collect_outputs. *)

\* try_send, which drops the event when the channel is full
Emit(n, final) ==
    events' = IF setting.streaming /\ Len(events) < EventRoom
              THEN Append(events, [size |-> n, final |-> final])
              ELSE events

SessionOutput ==
    /\ session = "running"
    /\ size < MaxUnits
    /\ size' = size + 1
    /\ Emit(size', FALSE)
    /\ UNCHANGED <<setting, session, mentioned, toExport, warned, files, pc, stale, preview,
                   requestVars, sent, chat, temp, historyVars>>

\* The final snapshot is emitted before the files are collected.
SessionEnds ==
    /\ session = "running"
    /\ mentioned' \in IF size = 0 THEN {<<>>} ELSE Mentions
    /\ toExport' = FileRefs(mentioned')
    /\ session' = "collect"
    /\ IF size = 0 THEN UNCHANGED events ELSE Emit(size, TRUE)
    /\ UNCHANGED <<setting, size, warned, files, pc, stale, preview, requestVars, sent,
                   chat, temp, historyVars>>

SessionFails ==
    /\ session = "running"
    /\ session' = "failed"
    /\ UNCHANGED <<setting, size, mentioned, toExport, warned, files, events, pc, stale,
                   preview, requestVars, sent, chat, temp, historyVars>>

\* One file of collect: the error of export_file becomes a warning.
NotAttached(f, left) ==
    /\ warned' = warned \cup {f}
    /\ temp' = temp \cup left
    /\ dockerLeft' = dockerLeft \cup left
    /\ UNCHANGED files

\* workspace_file_size refuses the file, or it is too large; nothing was copied
ExportRefused(f) == NotAttached(f, {})

\* docker cp fails, and may have written something
CopyFails(f) == \E left \in {{}, {f}} : NotAttached(f, left)

\* validate_exported_workspace_file: what was copied is not a regular file
NotAFile(f) == NotAttached(f, {f})

\* MUTANT of GrewTooLarge: the copy is refused and stays.
GrewTooLargeKept(f) ==
    /\ warned' = warned \cup {f}
    /\ temp' = temp \cup {f}
    /\ UNCHANGED <<files, dockerLeft>>

\* it has grown since its size was read: the copy is removed
GrewTooLarge(f) == NotAttached(f, {})

Exported(f) ==
    /\ files' = Append(files, f)
    /\ temp' = temp \cup {f}
    /\ UNCHANGED <<warned, dockerLeft>>

CollectFile ==
    /\ session = "collect"
    /\ toExport # <<>>
    /\ LET f == Head(toExport) IN
           \/ ExportRefused(f) \/ CopyFails(f) \/ NotAFile(f) \/ GrewTooLarge(f)
           \/ Exported(f)
    /\ toExport' = Tail(toExport)
    /\ UNCHANGED <<setting, session, size, mentioned, events, pc, stale, preview,
                   requestVars, sent, chat, trouble, refused>>

\* The warnings become the end of the output.
CollectEnds ==
    /\ session = "collect"
    /\ toExport = <<>>
    /\ size' = IF warned = {} THEN size ELSE size + 1
    /\ session' = "answered"
    /\ UNCHANGED <<setting, mentioned, toExport, warned, files, events, pc, stale, preview,
                   requestVars, sent, chat, temp, historyVars>>

-----------------------------------------------------------------------------
(* The sink: the messages of `todo`, one request at a time. *)

Requesting == pc \in {"preview", "finish", "answer", "report"} /\ todo # <<>>

\* Is the request an edit of the streamed message?
Edits == pc = "finish" \/ (pc = "preview" /\ preview.message # 0)

Rich == setting.rich /\ pc # "report" /\ ~attempt.plain

\* MUTANT of FallsBack: plain text is tried again like formatted text.
FallsBackAgain == setting.rich /\ pc # "report" /\ setting.fallback

\* send_chunk_with_fallback and edit_chunk_with_fallback
FallsBack == Rich /\ setting.fallback

Begin(call, texts) ==
    /\ pc' = call
    /\ todo' = texts
    /\ first' = 0
    /\ attempt' = FirstTry

\* The worker's step after the text of the answer: the files.
Deliver(outcome) == sent' = outcome /\ Begin("files", <<>>)

\* StreamingState::update with the result of the call
PreviewShown(message) ==
    /\ preview' = [preview EXCEPT !.message = message, !.chars = preview.next]
    /\ Begin("turn", <<>>)
    /\ UNCHANGED sent

\* The head of todo is in the chat, as the message m: the call goes on.
Advance(m) ==
    LET handle == IF first = 0 THEN m ELSE first IN
    IF pc = "preview" /\ (Edits \/ Len(todo) = 1) THEN PreviewShown(handle)
    ELSE /\ UNCHANGED preview
         /\ IF Len(todo) > 1 /\ pc # "finish"
            THEN todo' = Tail(todo) /\ first' = handle /\ attempt' = FirstTry
                 /\ UNCHANGED <<pc, sent>>
            ELSE CASE pc = "finish" -> /\ IF Len(todo) = 1 THEN Deliver("ok")
                                          ELSE Begin("answer", Tail(todo)) /\ UNCHANGED sent
                   [] pc = "report" -> Begin("done", <<>>) /\ UNCHANGED sent
                   [] OTHER         -> Deliver("ok")

\* MUTANT of GiveUp: a chunk that is refused is left out, the others are sent.
GiveUpOnChunk ==
    IF pc = "answer" /\ Len(todo) > 1
    THEN todo' = Tail(todo) /\ attempt' = FirstTry /\ UNCHANGED <<pc, first, preview, sent>>
    ELSE /\ UNCHANGED preview
         /\ CASE pc = "preview" -> Begin("turn", <<>>) /\ UNCHANGED sent
              [] pc = "finish"  -> Begin("answer", Chunks(size, FALSE)) /\ UNCHANGED sent
              [] pc = "answer"  -> Deliver("ok")
              [] pc = "report"  -> Begin("done", <<>>) /\ UNCHANGED sent

\* The head of todo is given up, and with it the call.  finish_streamed_message
\* sends the whole text then.
GiveUp ==
    /\ UNCHANGED preview
    /\ CASE pc = "preview" -> Begin("turn", <<>>) /\ UNCHANGED sent
         [] pc = "finish"  -> Begin("answer", Chunks(size, FALSE)) /\ UNCHANGED sent
         [] pc = "answer"  -> Deliver("failed")
         [] pc = "report"  -> Begin("done", <<>>) /\ UNCHANGED sent

Show == chat' = IF Edits THEN [chat EXCEPT ![preview.message] = Head(todo)]
                         ELSE Append(chat, Head(todo))
Shown == IF Edits THEN preview.message ELSE Len(chat) + 1

sinkUnchanged == UNCHANGED <<setting, sessionVars, files, events, stale, temp, dockerLeft, refused>>

RequestAccepted ==
    /\ Requesting
    /\ Show
    /\ Advance(Shown)
    /\ UNCHANGED trouble
    /\ sinkUnchanged

\* MUTANT of NotModified: the streamed message is taken for lost.
NotModifiedFails ==
    /\ Requesting
    /\ Edits
    /\ chat[preview.message] = Head(todo)
    /\ GiveUp
    /\ UNCHANGED <<chat, trouble>>
    /\ sinkUnchanged

\* An edit that changes nothing is refused: an error to a preview's update, and
\* as good as done to finish_streamed_message.
NotModified ==
    /\ Requesting
    /\ Edits
    /\ chat[preview.message] = Head(todo)
    /\ IF pc = "finish" THEN Advance(preview.message) ELSE GiveUp
    /\ UNCHANGED <<chat, trouble>>
    /\ sinkUnchanged

\* An error that is not answered by waiting and trying again.
Fail ==
    IF FallsBack
    THEN /\ attempt' = [plain |-> TRUE, again |-> FALSE]
         /\ UNCHANGED <<pc, todo, first, preview, sent>>
    ELSE GiveUp

\* Is it for the formatting that a request is refused, which a plain text mends?
ForItsFormatting == setting.rich /\ setting.fallback /\ pc # "report" /\ ~attempt.plain

\* send_chunk_with_retry and edit_chunk_with_retry wait once.
RetryAfter ==
    /\ Requesting
    /\ IF attempt.again THEN Fail
                        ELSE /\ attempt' = [attempt EXCEPT !.again = TRUE]
                             /\ UNCHANGED <<pc, todo, first, preview, sent>>
    /\ trouble' = (trouble \/ (attempt.again /\ ~ForItsFormatting /\ pc # "preview"))
    /\ UNCHANGED chat
    /\ sinkUnchanged

\* Telegram refuses the request: any, or one whose formatting it cannot parse.
RequestRefused ==
    /\ Requesting
    /\ Fail
    /\ trouble' = (trouble \/ (~ForItsFormatting /\ pc # "preview"))
    /\ UNCHANGED chat
    /\ sinkUnchanged

\* The request is carried out, and the error is that of its answer.
AnswerLost ==
    /\ Requesting
    /\ Show
    /\ Fail
    /\ trouble' = TRUE
    /\ sinkUnchanged

-----------------------------------------------------------------------------
(* The worker. *)

workerUnchanged == UNCHANGED <<setting, sessionVars, stale, trouble, dockerLeft>>

\* The growth StreamingState::should_update asks for is one unit here, and its
\* interval may be over or not.
Grown(e) == preview.message = 0 \/ PreviewChars(e.size) > preview.chars

\* handle_streaming_event
StreamEvent ==
    /\ pc = "turn"
    /\ events # <<>>
    /\ events' = Tail(events)
    /\ LET e == Head(events) IN
       \/ /\ ~(e.final /\ preview.message # 0)
          /\ ~stale
          /\ Grown(e)
          /\ Begin("preview", IF preview.message = 0 THEN PreviewOf(e.size)
                                                     ELSE SubSeq(PreviewOf(e.size), 1, 1))
          /\ preview' = [preview EXCEPT !.next = PreviewChars(e.size)]
       \/ UNCHANGED <<pc, requestVars, preview>>
    /\ UNCHANGED <<files, sent, chat, temp, refused>>
    /\ workerUnchanged

\* run_session_with_streaming returns once the events are used up.
TurnEnds ==
    /\ pc = "turn"
    /\ session \in {"answered", "failed"}
    /\ events = <<>>
    /\ pc' = "ended"
    /\ UNCHANGED <<files, events, preview, requestVars, sent, chat, temp, refused>>
    /\ workerUnchanged

RemoveFiles == temp' = temp \ ToSet(files) /\ files' = <<>>

\* cleanup_generated_files, for a worker that was replaced
SuppressAnswer ==
    /\ pc = "ended"
    /\ stale
    /\ RemoveFiles
    /\ pc' = "done"
    /\ UNCHANGED <<events, preview, requestVars, sent, chat, refused>>
    /\ workerUnchanged

\* A streamed message with nothing to say in its place stays as it is.
BeginAnswer ==
    /\ pc = "ended"
    /\ ~stale
    /\ CASE session = "failed" -> Begin("report", <<FailureText>>) /\ UNCHANGED sent
         [] session = "answered" /\ size = 0 -> Deliver("ok")
         [] OTHER -> /\ Begin(IF preview.message = 0 THEN "answer" ELSE "finish",
                              Chunks(size, FALSE))
                     /\ UNCHANGED sent
    /\ UNCHANGED <<files, events, preview, chat, temp, refused>>
    /\ workerUnchanged

\* send_generated_files: the copy is removed, the upload may have failed
SendFile ==
    /\ pc = "files"
    /\ files # <<>>
    /\ \/ chat' = Append(chat, Document(Head(files))) /\ UNCHANGED refused
       \/ refused' = refused \cup {Head(files)} /\ UNCHANGED chat
    /\ temp' = temp \ {Head(files)}
    /\ files' = Tail(files)
    /\ UNCHANGED <<events, pc, preview, requestVars, sent>>
    /\ workerUnchanged

FilesSent ==
    /\ pc = "files"
    /\ files = <<>>
    /\ pc' = IF setting.speak /\ sent = "ok" THEN "speak" ELSE "done"
    /\ UNCHANGED <<files, events, preview, requestVars, sent, chat, temp, refused>>
    /\ workerUnchanged

\* send_audio_reply: nothing to say, a failure, or a file
Speak ==
    /\ pc = "speak"
    /\ \/ pc' = "done" /\ UNCHANGED temp
       \/ ~stale /\ pc' = "spoken" /\ temp' = temp \cup {Speech}
    /\ UNCHANGED <<files, events, preview, requestVars, sent, chat, refused>>
    /\ workerUnchanged

\* The file is removed whether it was sent, refused, or is out of date.
SendSpeech ==
    /\ pc = "spoken"
    /\ \/ ~stale /\ chat' = Append(chat, Speech)
       \/ UNCHANGED chat
    /\ temp' = temp \ {Speech}
    /\ pc' = "done"
    /\ UNCHANGED <<files, events, preview, requestVars, sent, refused>>
    /\ workerUnchanged

\* The router replaces the session.
Replaced ==
    /\ ~stale
    /\ pc # "done"
    /\ stale' = TRUE
    /\ UNCHANGED <<setting, sessionVars, files, events, pc, preview, requestVars, sent,
                   chat, temp, historyVars>>

-----------------------------------------------------------------------------

Session == SessionOutput \/ SessionEnds \/ SessionFails \/ CollectFile \/ CollectEnds

Sink == RequestAccepted \/ NotModified \/ RetryAfter \/ RequestRefused \/ AnswerLost

Worker ==
    \/ Sink
    \/ StreamEvent \/ TurnEnds \/ SuppressAnswer \/ BeginAnswer
    \/ SendFile \/ FilesSent \/ Speak \/ SendSpeech

Next == Session \/ Worker \/ Replaced

Spec == Init /\ [][Next]_vars

\* The worker is polled, and every request to Telegram is answered or times out in
\* the client.  The session owes nothing.
FairSpec == Spec /\ WF_vars(Worker)

-----------------------------------------------------------------------------
(* Properties. *)

Message == [from : 0..MaxUnits + 1, to : 0..MaxUnits + 1, dots : BOOLEAN]
IsUpload(m) == DOMAIN m = {"file"} \/ m = Speech

\* Types, and that a message the worker edits is there.
TypeOK ==
    /\ setting \in Settings
    /\ session \in {"running", "collect", "answered", "failed"}
    /\ size \in 0..MaxUnits + 1
    /\ session \in {"running", "collect"} => size <= MaxUnits
    /\ mentioned \in Mentions \cup {<<>>}
    /\ Len(toExport) + Len(files) <= MaxFiles
    /\ events \in Seq([size : 1..MaxUnits, final : BOOLEAN])
    /\ Len(events) <= EventRoom
    /\ pc \in {"turn", "preview", "ended", "finish", "answer", "report", "files", "speak",
               "spoken", "done"}
    /\ stale \in BOOLEAN
    /\ preview \in [message : 0..Len(chat), chars : Nat, next : Nat]
    /\ pc = "finish" => preview.message # 0
    /\ first \in 0..Len(chat)
    /\ attempt \in [plain : BOOLEAN, again : BOOLEAN]
    /\ sent \in {"none", "ok", "failed"}
    /\ \A i \in DOMAIN chat : chat[i] \in Message \/ IsUpload(chat[i])
    /\ todo \in Seq(Message)
    /\ trouble \in BOOLEAN

IsText(m) == "from" \in DOMAIN m
TextMessages == {i \in DOMAIN chat : IsText(chat[i])}
UnitsOf(m) == m.from..m.to

\* The chat shows each unit of the answer once, in order and with nothing left of a
\* preview, whatever was streamed before, however often Telegram asked to wait
\* once and whichever formatted texts it refused (what
\* docs/explanation/message-lifecycle.md calls authoritative), unless a preview
\* takes more than one message or plain text was refused.
AnswerShownOnce ==
    sent # "none" /\ ~trouble /\ setting.keep <= ChunkLimit =>
        /\ UNION {UnitsOf(chat[i]) : i \in TextMessages} = 1..size
        /\ \A i, j \in TextMessages :
               i < j => \A u \in UnitsOf(chat[i]), v \in UnitsOf(chat[j]) : u < v
        /\ \A i \in TextMessages : ~chat[i].dots

\* A spoken reply comes after the whole text, message by message, however the text
\* got there.
SpokenAfterText ==
    \A i \in DOMAIN chat : chat[i] = Speech =>
        \A c \in DOMAIN Chunks(size, FALSE) : \E j \in 1..(i - 1) :
            chat[j] = Chunks(size, FALSE)[c]

\* The daemon leaves no exported file and no speech on the host when it is done
\* with a turn, except what docker cp wrote in an export that failed.
OnlyDockerLeavesFiles == pc = "done" => temp \subseteq dockerLeft

\* Each of the first MaxFiles files the answer mentions is uploaded, or the answer
\* says why not, unless Telegram refused the upload, of which the chat hears
\* nothing (docs/how-to/send-generated-files.md).
FilesAccountedFor ==
    pc = "done" /\ sent = "ok" =>
        \A i \in DOMAIN mentioned :
            Cardinality({mentioned[j] : j \in 1..i}) <= MaxFiles =>
                \/ \E k \in DOMAIN chat : chat[k] = Document(mentioned[i])
                \/ mentioned[i] \in warned \cup refused

\* Once the session has answered, the worker is through with the turn in bounded
\* time, whatever Telegram does.
DeliveryEnds == session \in {"answered", "failed"} ~> pc = "done"
=============================================================================
