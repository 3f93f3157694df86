------------------------------ MODULE Subprocess ------------------------------
(***************************************************************************)
(* The host commands the daemon runs for a turn: one Codex turn of         *)
(* CommandCodexSession (src/codex/exec.rs) and one spoken reply of LocalTts *)
(* (src/audio/mod.rs).  Both give the command its input through a pipe,    *)
(* read its output through pipes of a fixed size and limit its time, in    *)
(* different orders, which is what matters here.                           *)
(*                                                                         *)
(* The command is external.  It may read or not, write any output, close   *)
(* its input, start a descendant that inherits its pipes and outlives it,  *)
(* keeping the pipes or not, exit with any status or never exit.  Input    *)
(* and output are counted in chunks; what they say is left out, and so are *)
(* failures of the calls that wait, read and remove a file.                *)
(***************************************************************************)
EXTENDS Naturals

CONSTANTS
    Runners,   \* which of the runners to model: "codex", "tts"
    Input,     \* chunks of the prompt, or of the text to speak
    PipeSize,  \* chunks a pipe holds
    MaxKept,   \* codex_max_output_bytes, in chunks
    MaxOutput  \* BOUND: chunks the command writes to one stream

ASSUME SubprocessAssumption ==
    /\ Runners \subseteq {"codex", "tts"}
    /\ Input \in Nat
    /\ PipeSize \in Nat \ {0}
    /\ MaxKept \in Nat
    /\ MaxOutput \in Nat

VARIABLES
    runner,     \* which of the two runs
    pc,         \* where it is
    outcome,    \* what it returned, or will return
    toWrite,    \* chunks of input not yet in the pipe
    reader,     \* [stream -> state of the task that reads it]
    kept,       \* [stream -> chunks that task has read]
    child,      \* the child process
    status,     \* its exit status
    descendant, \* a descendant of the command "holds" the pipes it was given, only
                \* "lives", or there is "none"
    outlived,   \* HISTORY: there was one when the child was reaped
    listening,  \* the command has its standard input open
    stdin,      \* chunks in the input pipe
    unread,     \* [stream -> chunks in its pipe]
    output,     \* [stream -> chunks the command wrote into the pipe]
    file        \* the audio file the command was told to write

runnerVars  == <<runner, pc, outcome, toWrite>>
readerVars  == <<reader, kept>>
processVars == <<child, status, descendant, outlived, listening>>
pipeVars    == <<stdin, unread, output>>
vars == <<runnerVars, readerVars, processVars, pipeVars, file>>

Streams == {"stdout", "stderr"}

Init ==
    /\ runner \in Runners
    /\ pc = "spawn"
    /\ outcome = "none"
    /\ toWrite \in (IF runner = "tts" THEN {0, Input} ELSE {Input})  \* stdin_text
    /\ reader = [s \in Streams |-> "none"]
    /\ kept = [s \in Streams |-> 0]
    /\ child = "none"
    /\ status = "none"
    /\ descendant = "none"
    /\ outlived = FALSE
    /\ listening = TRUE
    /\ stdin = 0
    /\ unread = [s \in Streams |-> 0]
    /\ output = [s \in Streams |-> 0]
    /\ file = "none"

-----------------------------------------------------------------------------
(* The command.                                                             *)

Live == child = "running" \/ descendant = "holds"

\* Somebody has the other end of the pipes.
Held == child \in {"running", "killed"} \/ descendant = "holds"

CommandReads ==
    /\ Live
    /\ listening
    /\ stdin > 0
    /\ stdin' = stdin - 1
    /\ UNCHANGED <<runnerVars, readerVars, processVars, unread, output, file>>

\* A full pipe blocks the command, a closed one loses what it writes.
CommandWrites(s) ==
    /\ Live
    /\ runner = "codex" \/ s = "stderr"  \* the other's stdout is /dev/null
    /\ reader[s] \in {"none", "reading"}
    /\ unread[s] < PipeSize
    /\ output[s] < MaxOutput
    /\ unread' = [unread EXCEPT ![s] = @ + 1]
    /\ output' = [output EXCEPT ![s] = @ + 1]
    /\ UNCHANGED <<runnerVars, readerVars, processVars, stdin, file>>

\* The command, or what it has started, writes or deletes the file; the path is in
\* its arguments.  An empty or oversized file is "bad".
CommandWritesFile ==
    /\ child = "running" \/ descendant # "none"
    /\ runner = "tts"
    /\ file' \in {"none", "bad", "good"}
    /\ UNCHANGED <<runnerVars, readerVars, processVars, pipeVars>>

CommandForks ==
    /\ child = "running"
    /\ descendant' = "holds"
    /\ UNCHANGED <<runnerVars, readerVars, child, status, outlived, listening, pipeVars, file>>

DescendantLetsGo ==
    /\ descendant = "holds"
    /\ descendant' = "lives"
    /\ UNCHANGED <<runnerVars, readerVars, child, status, outlived, listening, pipeVars, file>>

DescendantExits ==
    /\ descendant # "none"
    /\ descendant' = "none"
    /\ UNCHANGED <<runnerVars, readerVars, child, status, outlived, listening, pipeVars, file>>

CommandClosesStdin ==
    /\ child = "running"
    /\ listening' = FALSE
    /\ UNCHANGED <<runnerVars, readerVars, child, status, descendant, outlived, pipeVars, file>>

CommandExits ==
    /\ child = "running"
    /\ child' = "exited"
    /\ status' \in {"success", "failure"}
    /\ UNCHANGED <<runnerVars, readerVars, descendant, outlived, listening, pipeVars, file>>

KilledExits ==
    /\ child = "killed"
    /\ child' = "exited"
    /\ status' = "failure"
    /\ UNCHANGED <<runnerVars, readerVars, descendant, outlived, listening, pipeVars, file>>

-----------------------------------------------------------------------------
(* The tasks that read the command's output.                                *)

ReadChunk(s) ==
    /\ reader[s] = "reading"
    /\ unread[s] > 0
    /\ unread' = [unread EXCEPT ![s] = @ - 1]
    /\ kept' = [kept EXCEPT ![s] = @ + 1]

\* Too much output ends the task of a Codex turn and closes the pipe; the other
\* runner keeps the last STDERR_TAIL_BYTES instead.
Read(s) ==
    /\ ReadChunk(s)
    /\ reader' = IF runner = "codex" /\ kept'[s] > MaxKept
                 THEN [reader EXCEPT ![s] = "too_long"]
                 ELSE reader

\* End of file, once everything is read and nobody can write any more.
ReadEnd(s) ==
    /\ reader[s] = "reading"
    /\ unread[s] = 0
    /\ ~Held
    /\ reader' = [reader EXCEPT ![s] = "end"]
    /\ UNCHANGED <<unread, kept>>

ReaderStep(s) ==
    /\ Read(s) \/ ReadEnd(s)
    /\ UNCHANGED <<runnerVars, processVars, stdin, output, file>>

\* MUTANT of Aborted: the handle is dropped, which detaches the task.
Detached(S) == reader

\* Tasks that run are aborted, which closes their pipes.
Aborted(S) == [s \in Streams |-> IF s \in S /\ reader[s] = "reading" THEN "aborted" ELSE reader[s]]

-----------------------------------------------------------------------------
(* The runner.                                                              *)

Return(o) == pc' = "done" /\ outcome' = o

\* run_audio_command starts to read before it writes, exec.rs does not.
ReadersAtSpawn == IF runner = "tts" THEN [reader EXCEPT !["stderr"] = "reading"] ELSE reader

Spawn ==
    /\ pc = "spawn"
    /\ \/ /\ child' = "running"
          /\ pc' = "write"
          /\ reader' = ReadersAtSpawn
          /\ UNCHANGED outcome
       \/ /\ IF runner = "tts" THEN pc' = "remove" /\ outcome' = "spawn_error"
                               ELSE Return("spawn_error")
          /\ UNCHANGED <<child, reader>>
    /\ UNCHANGED <<runner, toWrite, kept, status, descendant, outlived, listening, pipeVars, file>>

StdinBroken == ~(listening /\ Held)

WriteChunk ==
    /\ pc = "write"
    /\ toWrite > 0
    /\ ~StdinBroken
    /\ stdin < PipeSize
    /\ stdin' = stdin + 1
    /\ toWrite' = toWrite - 1
    /\ UNCHANGED <<runner, pc, outcome, readerVars, processVars, unread, output, file>>

\* The error leaves exec.rs at once, which drops the child but does not kill it.
WriteFails ==
    /\ pc = "write"
    /\ toWrite > 0
    /\ StdinBroken
    /\ IF runner = "codex"
       THEN Return("stdin_error") /\ reader' = [s \in Streams |-> "aborted"]
       ELSE pc' = "reap" /\ outcome' = "stdin_error" /\ UNCHANGED reader
    /\ UNCHANGED <<runner, toWrite, kept, processVars, pipeVars, file>>

CloseStdin ==
    /\ pc = "write"
    /\ toWrite = 0
    /\ pc' = "wait"
    /\ reader' = IF runner = "codex" THEN [s \in Streams |-> "reading"] ELSE reader
    /\ UNCHANGED <<runner, outcome, toWrite, kept, processVars, pipeVars, file>>

Reap ==
    /\ child = "exited"
    /\ child' = "reaped"
    /\ outlived' = (descendant # "none")

\* child.wait(), in time: the child is reaped and its status known.
WaitEnds ==
    /\ pc \in {"wait", "reap"}
    /\ Reap
    /\ pc' = IF runner = "codex" THEN "join_stdout" ELSE "drain"
    /\ UNCHANGED <<runner, outcome, toWrite, readerVars, status, descendant, listening, pipeVars, file>>

\* MUTANT of TimeLimited: the time limit is on the wait.
WaitLimited == pc \in {"wait", "reap"}

\* MUTANT of TimeLimited: there is no limit on a Codex turn.
SpokenReplyLimited == runner = "tts" /\ pc \in {"write", "wait", "reap"}

\* What runs under a time limit.  Waiting after a failed write has a short
\* limit of its own.
TimeLimited ==
    \/ pc \in {"wait", "reap"}
    \/ pc = "write" /\ runner = "tts"

TimeElapses ==
    /\ TimeLimited
    /\ child' = IF child = "running" THEN "killed" ELSE child
    /\ pc' = "kill"
    /\ outcome' = IF pc = "reap" THEN outcome ELSE "timeout"
    /\ UNCHANGED <<runner, toWrite, readerVars, status, descendant, outlived, listening,
                   pipeVars, file>>

\* The kill is of the child alone, which is waited for without a limit.
KillEnds ==
    /\ pc = "kill"
    /\ Reap
    /\ IF runner = "codex" THEN Return(outcome) /\ reader' = Aborted(Streams)
                           ELSE pc' = "drain" /\ UNCHANGED <<outcome, reader>>
    /\ UNCHANGED <<runner, toWrite, kept, status, descendant, listening, pipeVars, file>>

\* MUTANT of Joined: an output is what has been read when the child is reaped.
JoinedEarly(s) == TRUE

Joined(s) == reader[s] = "end"

\* join_reader: no limit on the time.  An error drops the handle of the other
\* task, which runs on.
Join(s, next) ==
    /\ pc = IF s = "stdout" THEN "join_stdout" ELSE "join_stderr"
    /\ \/ /\ Joined(s)
          /\ next
       \/ /\ reader[s] = "too_long"
          /\ Return("too_long")
    /\ UNCHANGED <<runner, toWrite, readerVars, processVars, pipeVars, file>>

JoinStdout == Join("stdout", pc' = "join_stderr" /\ UNCHANGED outcome)

JoinStderr == Join("stderr", Return(IF status = "success" THEN "ok" ELSE "exit_error"))

\* collect_stderr_after_reap, which waits for the end of the output for a short
\* time; and what the error is after a failed write
Drain ==
    /\ pc = "drain"
    /\ reader' = Aborted({"stderr"})
    /\ outcome' = IF outcome # "timeout" /\ status = "failure" THEN "exit_error" ELSE outcome
    /\ pc' = IF outcome' = "none" THEN "check" ELSE "remove"
    /\ UNCHANGED <<runner, toWrite, kept, processVars, pipeVars, file>>

CheckOutput ==
    /\ pc = "check"
    /\ IF file = "good" THEN Return("ok")
                        ELSE pc' = "remove" /\ outcome' = "bad_output"
    /\ UNCHANGED <<runner, toWrite, readerVars, processVars, pipeVars, file>>

\* MUTANT of RemoveOutput: an output that was refused is left behind.
RemoveOutputOfFailure ==
    /\ pc = "remove"
    /\ file' = IF outcome = "bad_output" THEN file ELSE "none"
    /\ Return(outcome)
    /\ UNCHANGED <<runner, toWrite, readerVars, processVars, pipeVars>>

\* remove_temp_audio_reply, after any error
RemoveOutput ==
    /\ pc = "remove"
    /\ file' = "none"
    /\ Return(outcome)
    /\ UNCHANGED <<runner, toWrite, readerVars, processVars, pipeVars>>

-----------------------------------------------------------------------------

Command ==
    \/ CommandReads
    \/ \E s \in Streams : CommandWrites(s)
    \/ CommandWritesFile
    \/ CommandForks \/ DescendantLetsGo \/ DescendantExits \/ CommandClosesStdin \/ CommandExits

RunnerStep ==
    \/ Spawn \/ WriteChunk \/ WriteFails \/ CloseStdin
    \/ WaitEnds \/ TimeElapses \/ KillEnds
    \/ JoinStdout \/ JoinStderr
    \/ Drain \/ CheckOutput \/ RemoveOutput

Next == Command \/ KilledExits \/ (\E s \in Streams : ReaderStep(s)) \/ RunnerStep

Spec == Init /\ [][Next]_vars

\* The daemon's tasks are polled and its timers fire, and a process that was sent
\* SIGKILL dies.  The command owes nothing.
Fairness ==
    /\ WF_vars(RunnerStep)
    /\ \A s \in Streams : WF_vars(ReaderStep(s))
    /\ WF_vars(KilledExits)

FairSpec == Spec /\ Fairness

-----------------------------------------------------------------------------
(* Properties. *)

\* Types, and what a Codex turn keeps of an output within codex_max_output_bytes
\* and one read more.
TypeOK ==
    /\ runner \in Runners
    /\ pc \in {"spawn", "write", "wait", "reap", "kill", "join_stdout", "join_stderr",
               "drain", "check", "remove", "done"}
    /\ outcome \in {"none", "ok", "spawn_error", "stdin_error", "timeout", "exit_error",
                    "too_long", "bad_output"}
    /\ toWrite \in 0..Input
    /\ reader \in [Streams -> {"none", "reading", "end", "too_long", "aborted"}]
    /\ kept \in [Streams -> 0..MaxOutput]
    /\ runner = "codex" => \A s \in Streams : kept[s] <= MaxKept + 1
    /\ child \in {"none", "running", "killed", "exited", "reaped"}
    /\ status \in {"none", "success", "failure"}
    /\ descendant \in {"none", "lives", "holds"}
    /\ outlived \in BOOLEAN
    /\ listening \in BOOLEAN
    /\ stdin \in 0..PipeSize
    /\ unread \in [Streams -> 0..PipeSize]
    /\ output \in [Streams -> 0..MaxOutput]
    /\ file \in {"none", "bad", "good"}

\* The answer of a Codex turn is all the command wrote, within the limit, also
\* what a descendant wrote after the child had exited.
AnswerIsWhole ==
    runner = "codex" /\ outcome = "ok" =>
        /\ kept["stdout"] = output["stdout"]
        /\ kept["stdout"] <= MaxKept

\* A call that has ended leaves no child that runs or is not reaped, unless it is
\* a Codex turn whose prompt could not be written, and no task that reads, unless
\* it is a Codex turn with too much output.
NothingLeftRunning ==
    pc = "done" =>
        /\ \/ child \in {"none", "reaped"}
           \/ runner = "codex" /\ outcome = "stdin_error"
        /\ \/ \A s \in Streams : reader[s] # "reading"
           \/ runner = "codex" /\ outcome = "too_long"

\* A spoken reply that failed leaves no file and one that succeeded a good one, and
\* so it stays, whatever the command did before it was reaped: unless something it
\* started outlived it (the kill is of the direct child), which may write still.
FileMatchesOutcome ==
    runner = "tts" /\ pc = "done" /\ ~outlived => file = IF outcome = "ok" THEN "good" ELSE "none"

\* The command that makes a spoken reply is over in bounded time whatever it
\* does, what docs/reference/configuration.md says of timeout_secs.
SpokenReplyEnds == runner = "tts" ~> pc = "done"

\* Once it has taken its prompt, a Codex turn ends whatever the command does,
\* unless a descendant keeps its output open.
PromptedTurnEnds == (runner = "codex" /\ pc = "wait" ~> pc = "done") \/ []<>(descendant = "holds")
=============================================================================
