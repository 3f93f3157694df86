------------------------------ MODULE PtySession ------------------------------
(***************************************************************************)
(* PtyCodexSession of src/codex/pty.rs: turns of one interactive Codex     *)
(* process behind a terminal.                                              *)
(*                                                                         *)
(* A thread reads the terminal into an unbounded channel.  A call holds    *)
(* the session's mutex while it drops what is in the channel, writes its   *)
(* prompt, and takes chunks from the channel until none comes for a while. *)
(* Nothing but silence tells that a turn is over: what the process says    *)
(* later is taken for the answer to the next prompt.                       *)
(*                                                                         *)
(* The Codex process and the kernel's terminal are external: they read the *)
(* prompt when they like or never, echo it or not, and may exit any time.  *)
(* Of a chunk only its kind is kept and the prompt it is for.  How long    *)
(* the limits on silence are is left open: one may elapse whenever nothing *)
(* is in the channel.                                                      *)
(***************************************************************************)
EXTENDS Naturals, Sequences

CONSTANTS
    Calls,      \* calls of send_with_events, each made once
    None,       \* no call
    Parts,      \* writes it takes the terminal to accept one prompt
    InputRoom,  \* parts the terminal holds until the process reads them
    TtyRoom,    \* chunks of output the terminal holds
    MaxOutput,  \* max_output_bytes, in chunks
    MaxSaid     \* BOUND: chunks the process says to one prompt

ASSUME PtyAssumption ==
    /\ None \notin Calls
    /\ Parts \in Nat \ {0}
    /\ InputRoom \in Nat \ {0}
    /\ TtyRoom \in Nat \ {0}
    /\ MaxOutput \in Nat
    /\ MaxSaid \in Nat

VARIABLES
    child,     \* is the process running?
    written,   \* HISTORY: the parts of prompts that reached the terminal
    taken,     \* how many of them the process has read
    queue,     \* prompts it has read and not finished
    said,      \* chunks it said to the first of them
    tty,       \* output in the terminal
    reader,    \* is the reader thread running?
    chan,      \* the channel output_rx
    holder,    \* the call that holds the mutex
    pc,        \* where each call is
    wrote,     \* parts of its prompt the holder has written
    output,    \* chunks the holder has received
    late,      \* the holder's deadline has passed
    answer,    \* what each call returned
    unsettled  \* HISTORY: the calls that began while the process was not through
               \* with an earlier prompt or its output not yet in the channel

childVars == <<child, taken, queue, said, tty>>
callVars == <<holder, pc, wrote, output, late, answer, unsettled>>
vars == <<childVars, written, reader, chan, callVars>>

Kinds == {"echo", "text", "question"}
Chunk == [of : Calls \cup {None}, kind : Kinds]
Part == [of : Calls, part : 1..Parts]

\* Codex may begin with a question, before any prompt.
Init ==
    /\ child = "runs"
    /\ written = <<>>
    /\ taken = 0
    /\ queue = <<>>
    /\ said = 0
    /\ tty \in {<<>>, <<[of |-> None, kind |-> "question"]>>}
    /\ reader = "reads"
    /\ chan = <<>>
    /\ holder = None
    /\ pc = [c \in Calls |-> "idle"]
    /\ wrote = 0
    /\ output = <<>>
    /\ late = FALSE
    /\ answer = [c \in Calls |-> <<>>]
    /\ unsettled = {}

-----------------------------------------------------------------------------
(* The process, the terminal and the reader thread. *)

Emit(kind, c) == tty' = Append(tty, [of |-> c, kind |-> kind])

\* The terminal or Codex may echo the prompt.
ChildReads ==
    /\ child = "runs"
    /\ taken < Len(written)
    /\ taken' = taken + 1
    /\ LET p == written[taken'] IN
           /\ queue' = IF p.part = Parts THEN Append(queue, p.of) ELSE queue
           /\ \/ p.part = Parts /\ Len(tty) < TtyRoom /\ Emit("echo", p.of)
              \/ UNCHANGED tty
    /\ UNCHANGED <<child, said, written, reader, chan, callVars>>

ChildSays ==
    /\ child = "runs"
    /\ queue # <<>>
    /\ said < MaxSaid
    /\ Len(tty) < TtyRoom
    /\ \E kind \in {"text", "question"} : Emit(kind, Head(queue))
    /\ said' = said + 1
    /\ UNCHANGED <<child, taken, queue, written, reader, chan, callVars>>

ChildIsThrough ==
    /\ child = "runs"
    /\ queue # <<>>
    /\ queue' = Tail(queue)
    /\ said' = 0
    /\ UNCHANGED <<child, taken, tty, written, reader, chan, callVars>>

ChildExits ==
    /\ child = "runs"
    /\ child' = "gone"
    /\ UNCHANGED <<taken, queue, said, tty, written, reader, chan, callVars>>

\* spawn_reader_thread
ReaderReads ==
    /\ reader = "reads"
    /\ tty # <<>>
    /\ tty' = Tail(tty)
    /\ chan' = Append(chan, Head(tty))
    /\ UNCHANGED <<child, taken, queue, said, written, reader, callVars>>

\* The end of the file, or an error; the channel is disconnected then.
ReaderEnds ==
    /\ reader = "reads"
    /\ child = "gone"
    /\ tty = <<>>
    /\ reader' = "ended"
    /\ UNCHANGED <<childVars, written, chan, callVars>>

-----------------------------------------------------------------------------
(* Calls of send_with_events. *)

processUnchanged == UNCHANGED <<childVars, reader>>

Call(c) ==
    /\ pc[c] = "idle"
    /\ pc' = [pc EXCEPT ![c] = "lock"]
    /\ UNCHANGED <<written, chan, holder, wrote, output, late, answer, unsettled>>
    /\ processUnchanged

\* MUTANT of Lock: the session is used without its mutex.
LockNothing(c) ==
    /\ pc[c] = "lock"
    /\ holder' = c
    /\ pc' = [pc EXCEPT ![c] = "drain"]
    /\ UNCHANGED <<written, chan, wrote, output, late, answer, unsettled>>
    /\ processUnchanged

Lock(c) ==
    /\ pc[c] = "lock"
    /\ holder = None
    /\ holder' = c
    /\ pc' = [pc EXCEPT ![c] = "drain"]
    /\ UNCHANGED <<written, chan, wrote, output, late, answer, unsettled>>
    /\ processUnchanged

\* Is the process through with every prompt, and all it said in the channel?
Settled == taken = Len(written) /\ queue = <<>> /\ tty = <<>>

\* MUTANT of Drain: only one chunk is dropped.
DrainOne(c) ==
    /\ pc[c] = "drain"
    /\ chan' = IF chan = <<>> THEN chan ELSE Tail(chan)
    /\ pc' = [pc EXCEPT ![c] = "write"]
    /\ unsettled' = IF Settled THEN unsettled ELSE unsettled \cup {c}
    /\ UNCHANGED <<written, holder, wrote, output, late, answer>>
    /\ processUnchanged

\* drain_stale_output: until the channel is found empty
Drain(c) ==
    /\ pc[c] = "drain"
    /\ IF chan # <<>>
       THEN chan' = Tail(chan) /\ UNCHANGED <<pc, unsettled>>
       ELSE /\ pc' = [pc EXCEPT ![c] = "write"]
            /\ unsettled' = IF Settled THEN unsettled ELSE unsettled \cup {c}
            /\ UNCHANGED chan
    /\ UNCHANGED <<written, holder, wrote, output, late, answer>>
    /\ processUnchanged

\* write_all blocks while the terminal is full of what the process has not read.
\* The terminal may swallow what is written for a process that is gone.
WritePart(c) ==
    /\ pc[c] = "write"
    /\ \/ /\ child = "runs"
          /\ Len(written) - taken < InputRoom
          /\ written' = Append(written, [of |-> c, part |-> wrote + 1])
       \/ child = "gone" /\ UNCHANGED written
    /\ wrote' = wrote + 1
    /\ pc' = IF wrote' = Parts THEN [pc EXCEPT ![c] = "loop"] ELSE pc
    /\ UNCHANGED <<chan, holder, output, late, answer, unsettled>>
    /\ processUnchanged

\* The call returns, and with it the mutex guard goes.
Return(c, outcome, text) ==
    /\ pc' = [pc EXCEPT ![c] = outcome]
    /\ answer' = [answer EXCEPT ![c] = text]
    /\ holder' = None
    /\ wrote' = 0
    /\ output' = <<>>
    /\ late' = FALSE
    /\ UNCHANGED unsettled

Fails(c) == Return(c, "error", <<>>)

WriteFails(c) ==
    /\ pc[c] = "write"
    /\ child = "gone"
    /\ Fails(c)
    /\ UNCHANGED <<written, chan>>
    /\ processUnchanged

IsEchoOf(c, chunk) == chunk = [of |-> c, kind |-> "echo"]

\* clean_pty_output: the echo of the prompt is stripped from the beginning
Cleaned(c, chunks) ==
    IF IsEchoOf(c, Head(chunks)) THEN Tail(chunks) ELSE chunks

\* turn_output_is_incomplete: nothing but echo, or a question to the user
Incomplete(c, chunks) ==
    \/ \A i \in DOMAIN chunks : IsEchoOf(c, chunks[i])
    \/ \E i \in DOMAIN chunks : chunks[i].kind = "question"

\* The rest of read_turn_output.  MUTANT of LoopTop: the deadline only shortens
\* the wait.
LoopTopForever(c) ==
    /\ pc[c] = "loop"
    /\ pc' = [pc EXCEPT ![c] = "receive"]
    /\ UNCHANGED <<written, chan, holder, wrote, output, late, answer, unsettled>>
    /\ processUnchanged

LoopTop(c) ==
    /\ pc[c] = "loop"
    /\ IF late THEN Fails(c)
       ELSE /\ pc' = [pc EXCEPT ![c] = "receive"]
            /\ UNCHANGED <<holder, wrote, output, late, answer, unsettled>>
    /\ UNCHANGED <<written, chan>>
    /\ processUnchanged

\* Instant::now() reaches the deadline.
DeadlinePasses(c) ==
    /\ pc[c] \in {"loop", "receive"}
    /\ ~late
    /\ late' = TRUE
    /\ UNCHANGED <<written, chan, holder, pc, wrote, output, answer, unsettled>>
    /\ processUnchanged

\* recv_timeout returned a chunk: the turn fails once the answer is too long.
Receive(c) ==
    /\ pc[c] = "receive"
    /\ chan # <<>>
    /\ chan' = Tail(chan)
    /\ IF Len(output) + 1 > MaxOutput THEN Fails(c)
       ELSE /\ output' = Append(output, Head(chan))
            /\ pc' = [pc EXCEPT ![c] = "loop"]
            /\ UNCHANGED <<holder, wrote, late, answer, unsettled>>
    /\ UNCHANGED written
    /\ processUnchanged

\* recv_timeout gives up: the limit for the first chunk, the limit on silence, or
\* the deadline, whichever is first.  Without an answer the loop goes on.
TimesOut(c) ==
    /\ pc[c] = "receive"
    /\ chan = <<>>
    /\ reader = "reads"
    /\ CASE output = <<>>          -> Fails(c)
         [] output # <<>> /\ Incomplete(c, output) ->
                /\ pc' = [pc EXCEPT ![c] = "loop"]
                /\ UNCHANGED <<holder, wrote, output, late, answer, unsettled>>
         [] OTHER                  -> Return(c, "ok", Cleaned(c, output))
    /\ UNCHANGED <<written, chan>>
    /\ processUnchanged

Disconnected(c) ==
    /\ pc[c] = "receive"
    /\ chan = <<>>
    /\ reader = "ended"
    /\ IF Incomplete(c, output) THEN Fails(c)
                                ELSE Return(c, "ok", Cleaned(c, output))
    /\ UNCHANGED <<written, chan>>
    /\ processUnchanged

-----------------------------------------------------------------------------

Child == ChildReads \/ ChildSays \/ ChildIsThrough \/ ChildExits

Reader == ReaderReads \/ ReaderEnds

Turn(c) ==
    \/ Lock(c) \/ Drain(c) \/ WritePart(c) \/ WriteFails(c)
    \/ LoopTop(c) \/ Receive(c) \/ TimesOut(c) \/ Disconnected(c)

Next ==
    \/ Child \/ Reader
    \/ \E c \in Calls : Call(c) \/ Turn(c) \/ DeadlinePasses(c)

Spec == Init /\ [][Next]_vars

\* The threads run and time passes.  The process owes nothing.
FairSpec ==
    /\ Spec
    /\ WF_vars(Reader)
    /\ \A c \in Calls : WF_vars(Turn(c)) /\ WF_vars(DeadlinePasses(c))

-----------------------------------------------------------------------------
(* Properties. *)

States == {"idle", "lock", "drain", "write", "loop", "receive", "ok", "error"}

\* Types, and that the output of a call keeps to its limit.
TypeOK ==
    /\ child \in {"runs", "gone"}
    /\ written \in Seq(Part)
    /\ taken \in 0..Len(written)
    /\ queue \in Seq(Calls)
    /\ said \in 0..MaxSaid
    /\ tty \in Seq(Chunk) /\ Len(tty) <= TtyRoom
    /\ reader \in {"reads", "ended"}
    /\ chan \in Seq(Chunk)
    /\ holder \in Calls \cup {None}
    /\ pc \in [Calls -> States]
    /\ wrote \in 0..Parts
    /\ output \in Seq(Chunk)
    /\ late \in BOOLEAN
    /\ unsettled \subseteq Calls
    /\ Len(output) <= MaxOutput

\* The prompts of calls that overlap do not mix: the process reads each of them
\* whole and one after the other, whatever fails (tests/pty_session.rs and the
\* mutex around PtyInner).
PromptsArriveWhole ==
    \A i \in DOMAIN written :
        IF written[i].part > 1
        THEN i > 1 /\ written[i - 1] = [of |-> written[i].of, part |-> written[i].part - 1]
        ELSE i > 1 => written[i - 1].part = Parts

\* A call that began when the process was through with everything before returns
\* what was said to its own prompt, and more than an echo or a question, whatever
\* earlier calls left in the channel and however its own turn was cut short.
AnswerIsOwn ==
    \A c \in Calls : pc[c] = "ok" /\ c \notin unsettled =>
        /\ \A i \in DOMAIN answer[c] : answer[c][i].of = c /\ answer[c][i].kind # "question"
        /\ \E i \in DOMAIN answer[c] : answer[c][i].kind = "text"

\* The terminal is full of what the process does not read.
Blocked ==
    /\ \E c \in Calls : pc[c] = "write"
    /\ child = "runs"
    /\ Len(written) - taken >= InputRoom

\* Each call returns, whatever the process says, asks or leaves unsaid, unless the
\* process stops reading its terminal for good: the write has no limit.
CallsEnd ==
    \A c \in Calls : <>[]Blocked \/ (pc[c] = "lock" ~> pc[c] \in {"ok", "error"})
=============================================================================
