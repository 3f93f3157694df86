--------------------------- MODULE SubprocessProofs ---------------------------
(***************************************************************************)
(* Proofs about Subprocess, for any length of the input, any size of the   *)
(* pipes and any limits: what a call that has ended returns and leaves     *)
(* behind, whatever the command did.                                       *)
(***************************************************************************)
EXTENDS Subprocess, TLAPS

ReaderStates == {"none", "reading", "end", "too_long", "aborted"}

\* TypeOK without the bounds that follow from what is counted.
Types ==
    /\ runner \in Runners
    /\ pc \in {"spawn", "write", "wait", "reap", "kill", "join_stdout", "join_stderr",
               "drain", "check", "remove", "done"}
    /\ outcome \in {"none", "ok", "spawn_error", "stdin_error", "timeout", "exit_error",
                    "too_long", "bad_output"}
    /\ toWrite \in 0..Input
    /\ reader \in [Streams -> ReaderStates]
    /\ kept \in [Streams -> Nat]
    /\ child \in {"none", "running", "killed", "exited", "reaped"}
    /\ status \in {"none", "success", "failure"}
    /\ descendant \in {"none", "lives", "holds"}
    /\ outlived \in BOOLEAN
    /\ listening \in BOOLEAN
    /\ stdin \in 0..PipeSize
    /\ unread \in [Streams -> 0..PipeSize]
    /\ output \in [Streams -> 0..MaxOutput]
    /\ file \in {"none", "bad", "good"}

\* Nothing is lost between the command and a reader, and a reader that came to the end
\* has read everything.
FlowInv ==
    \A s \in Streams :
        /\ kept[s] + unread[s] = output[s]
        /\ reader[s] = "end" => unread[s] = 0
        /\ runner = "codex" => /\ kept[s] <= MaxKept + 1
                               /\ reader[s] # "too_long" => kept[s] <= MaxKept
        /\ reader[s] = "none" => kept[s] = 0

\* What is known of the child and the outcome at each step of the runner.
StepInv ==
    /\ pc = "spawn" => child = "none" /\ ~outlived /\ file = "none"
    /\ pc \in {"join_stdout", "join_stderr", "drain", "check"} => child = "reaped"
    /\ pc = "remove" => child \in {"none", "reaped"}
    /\ pc \in {"spawn", "write", "wait", "join_stdout", "join_stderr", "check"}
           => outcome = "none"
    /\ pc \in {"reap", "kill", "remove"} => outcome \notin {"none", "ok"}
    /\ pc = "drain" => outcome # "ok"
    /\ pc \in {"join_stdout", "join_stderr"} => runner = "codex"
    /\ pc \in {"reap", "drain", "check", "remove"} => runner = "tts"
    /\ pc = "done" => \/ child \in {"none", "reaped"}
                      \/ runner = "codex" /\ outcome = "stdin_error"
    /\ outcome = "ok" => pc = "done"

\* What is known of the readers.
ReaderInv ==
    /\ pc = "spawn" => \A s \in Streams : reader[s] = "none"
    /\ runner = "tts" => reader["stdout"] = "none"
    /\ runner = "tts" /\ pc \in {"check", "remove", "done"} => reader["stderr"] # "reading"
    /\ runner = "codex" /\ pc = "write" => \A s \in Streams : reader[s] = "none"
    /\ runner = "codex" /\ pc = "join_stderr" => reader["stdout"] = "end"
    /\ runner = "codex" /\ outcome = "ok" => \A s \in Streams : reader[s] = "end"
    /\ runner = "codex" /\ pc = "done" /\ outcome # "too_long"
           => \A s \in Streams : reader[s] # "reading"

\* What the child has started is gone once the child is reaped, unless it outlived it;
\* after that nothing can start again, so the file stays as the call leaves it.
FileInv ==
    /\ child \in {"none", "reaped"} /\ ~outlived => descendant = "none"
    /\ FileMatchesOutcome

CallInv == Types /\ FlowInv /\ StepInv /\ ReaderInv /\ FileInv

LEMMA TypesStep ==
    ASSUME CallInv, [Next]_vars
    PROVE  Types'
<1> USE SubprocessAssumption DEF CallInv, Types, Streams, ReaderStates
<1>1. ASSUME NEW s \in Streams, CommandWrites(s)
      PROVE  Types'
  BY <1>1 DEF CommandWrites, Live, runnerVars, readerVars, processVars, pipeVars
<1>2. ASSUME NEW s \in Streams, ReaderStep(s)
      PROVE  Types'
  BY <1>2 DEF Held, Read, ReadChunk, ReadEnd, ReaderStep, runnerVars, readerVars, processVars,
          pipeVars
<1>3. CASE CommandReads
  BY <1>3 DEF CommandReads, Live, runnerVars, readerVars, processVars, pipeVars
<1>4. CASE CommandWritesFile
  BY <1>4 DEF CommandWritesFile, runnerVars, readerVars, processVars, pipeVars
<1>5. CASE CommandForks
  BY <1>5 DEF CommandForks, runnerVars, readerVars, processVars, pipeVars
<1>6. CASE CommandClosesStdin
  BY <1>6 DEF CommandClosesStdin, runnerVars, readerVars, processVars, pipeVars
<1>7. CASE CommandExits
  BY <1>7 DEF CommandExits, runnerVars, readerVars, processVars, pipeVars
<1>8. CASE KilledExits
  BY <1>8 DEF KilledExits, runnerVars, readerVars, processVars, pipeVars
<1>9. CASE DescendantLetsGo \/ DescendantExits
  BY <1>9 DEF DescendantLetsGo, DescendantExits, runnerVars, readerVars, pipeVars
<1>10. CASE Spawn \/ WriteChunk \/ WriteFails \/ CloseStdin
  BY <1>10 DEF CloseStdin, ReadersAtSpawn, Return, Spawn, StdinBroken, WriteChunk, WriteFails,
          runnerVars, readerVars, processVars, pipeVars
<1>11. CASE WaitEnds \/ TimeElapses \/ KillEnds \/ JoinStdout
  <2>1. outlived' \in BOOLEAN
    BY <1>11 DEF WaitEnds, TimeElapses, KillEnds, JoinStdout, Join, Reap, processVars
  <2>2. CASE WaitEnds
    BY <2>1, <2>2 DEF WaitEnds, Reap, readerVars, pipeVars
  <2>3. CASE TimeElapses
    BY <2>1, <2>3 DEF TimeElapses, TimeLimited, readerVars, pipeVars
  <2>4. CASE KillEnds
    BY <2>1, <2>4 DEF Aborted, KillEnds, Reap, Return, readerVars, pipeVars
  <2>5. CASE JoinStdout
    BY <2>5 DEF Join, JoinStdout, Joined, Return, readerVars, processVars, pipeVars
  <2> QED BY <1>11, <2>2, <2>3, <2>4, <2>5
<1>12. CASE JoinStderr \/ Drain \/ CheckOutput \/ RemoveOutput
  BY <1>12 DEF Aborted, CheckOutput, Drain, Join, JoinStderr, Joined, RemoveOutput, Return,
          runnerVars, readerVars, processVars, pipeVars
<1>13. CASE UNCHANGED vars
  BY <1>13 DEF vars, runnerVars, readerVars, processVars, pipeVars
<1> QED BY <1>1, <1>2, <1>3, <1>4, <1>5, <1>6, <1>7, <1>8, <1>9, <1>10, <1>11, <1>12, <1>13
           DEF Next, Command, RunnerStep

LEMMA FlowStep ==
    ASSUME CallInv, [Next]_vars
    PROVE  FlowInv'
<1> USE SubprocessAssumption DEF CallInv, Types, FlowInv, ReaderInv, StepInv, Streams,
             ReaderStates
<1>1. ASSUME NEW s \in Streams, CommandWrites(s)
      PROVE  FlowInv'
  BY <1>1 DEF CommandWrites, Live, runnerVars, readerVars, processVars, pipeVars
<1>2. ASSUME NEW s \in Streams, ReaderStep(s)
      PROVE  FlowInv'
  BY <1>2 DEF Held, Read, ReadChunk, ReadEnd, ReaderStep, runnerVars, readerVars, processVars,
          pipeVars
<1>3. CASE CommandReads \/ CommandWritesFile \/ CommandForks \/ DescendantLetsGo
          \/ DescendantExits \/ CommandClosesStdin \/ CommandExits \/ KilledExits
  BY <1>3 DEF CommandClosesStdin, CommandExits, CommandForks, CommandReads, CommandWritesFile,
          DescendantLetsGo, DescendantExits, KilledExits, Live, runnerVars, readerVars, processVars, pipeVars
<1>4. CASE Spawn \/ WriteChunk \/ WriteFails \/ CloseStdin
  BY <1>4 DEF CloseStdin, ReadersAtSpawn, Return, Spawn, StdinBroken, WriteChunk, WriteFails,
          runnerVars, readerVars, processVars, pipeVars
<1>5. CASE WaitEnds \/ TimeElapses \/ KillEnds \/ JoinStdout
  BY <1>5 DEF Aborted, Join, JoinStdout, Joined, KillEnds, Reap, Return, TimeElapses, TimeLimited,
          WaitEnds, runnerVars, readerVars, processVars, pipeVars
<1>6. CASE JoinStderr \/ Drain \/ CheckOutput \/ RemoveOutput
  BY <1>6 DEF Aborted, CheckOutput, Drain, Join, JoinStderr, Joined, RemoveOutput, Return,
          runnerVars, readerVars, processVars, pipeVars
<1>7. CASE UNCHANGED vars
  BY <1>7 DEF vars, runnerVars, readerVars, processVars, pipeVars
<1> QED BY <1>1, <1>2, <1>3, <1>4, <1>5, <1>6, <1>7
           DEF Next, Command, RunnerStep

LEMMA StepStep ==
    ASSUME CallInv, [Next]_vars
    PROVE  StepInv'
<1> USE SubprocessAssumption DEF CallInv, Types, StepInv, Streams
<1>1. ASSUME NEW s \in Streams, CommandWrites(s)
      PROVE  StepInv'
  BY <1>1 DEF CommandWrites, Live, runnerVars, readerVars, processVars, pipeVars
<1>2. ASSUME NEW s \in Streams, ReaderStep(s)
      PROVE  StepInv'
  BY <1>2 DEF Held, Read, ReadChunk, ReadEnd, ReaderStep, runnerVars, readerVars, processVars,
          pipeVars
<1>3. CASE CommandReads \/ CommandWritesFile \/ CommandForks \/ DescendantLetsGo
          \/ DescendantExits \/ CommandClosesStdin \/ CommandExits \/ KilledExits
  <2>1. CASE CommandReads \/ CommandForks \/ DescendantLetsGo \/ DescendantExits \/ CommandClosesStdin
    BY <2>1 DEF CommandReads, CommandForks, DescendantLetsGo, DescendantExits, CommandClosesStdin,
            runnerVars, readerVars, processVars, pipeVars
  <2>2. CASE CommandWritesFile
    <3>1. UNCHANGED <<runner, pc, outcome, child>>
      BY <2>2 DEF CommandWritesFile, runnerVars, processVars
    <3>2. pc # "spawn"
      BY <2>2 DEF CommandWritesFile, FileInv
    <3> QED BY <3>1, <3>2
  <2>3. CASE CommandExits \/ KilledExits
    BY <2>3 DEF CommandExits, KilledExits, runnerVars, readerVars, pipeVars
  <2> QED BY <1>3, <2>1, <2>2, <2>3
<1>4. CASE Spawn \/ WriteChunk \/ WriteFails \/ CloseStdin
  BY <1>4 DEF CloseStdin, ReadersAtSpawn, Return, Spawn, StdinBroken, WriteChunk, WriteFails,
          runnerVars, readerVars, processVars, pipeVars
<1>5. CASE WaitEnds \/ TimeElapses \/ KillEnds \/ JoinStdout
  <2>1. CASE WaitEnds
    BY <2>1 DEF WaitEnds, Reap, readerVars, pipeVars
  <2>2. CASE TimeElapses
    BY <2>2 DEF TimeElapses, TimeLimited, readerVars, pipeVars
  <2>3. CASE KillEnds
    BY <2>3 DEF Aborted, KillEnds, Reap, Return, readerVars, pipeVars
  <2>4. CASE JoinStdout
    BY <2>4 DEF Join, JoinStdout, Joined, Return, readerVars, processVars, pipeVars
  <2> QED BY <1>5, <2>1, <2>2, <2>3, <2>4
<1>6. CASE JoinStderr \/ Drain \/ CheckOutput \/ RemoveOutput
  BY <1>6 DEF Aborted, CheckOutput, Drain, Join, JoinStderr, Joined, RemoveOutput, Return,
          runnerVars, readerVars, processVars, pipeVars
<1>7. CASE UNCHANGED vars
  BY <1>7 DEF vars, runnerVars, readerVars, processVars, pipeVars
<1> QED BY <1>1, <1>2, <1>3, <1>4, <1>5, <1>6, <1>7
           DEF Next, Command, RunnerStep

LEMMA ReaderInvStep ==
    ASSUME CallInv, [Next]_vars
    PROVE  ReaderInv'
<1> USE SubprocessAssumption DEF CallInv, Types, StepInv, ReaderInv, Streams, ReaderStates
<1>1. ASSUME NEW s \in Streams, CommandWrites(s)
      PROVE  ReaderInv'
  BY <1>1 DEF CommandWrites, Live, runnerVars, readerVars, processVars, pipeVars
<1>2. ASSUME NEW s \in Streams, ReaderStep(s)
      PROVE  ReaderInv'
  BY <1>2 DEF Held, Read, ReadChunk, ReadEnd, ReaderStep, runnerVars, readerVars, processVars,
          pipeVars
<1>3. CASE CommandReads \/ CommandWritesFile \/ CommandForks \/ DescendantLetsGo
          \/ DescendantExits \/ CommandClosesStdin \/ CommandExits \/ KilledExits
  BY <1>3 DEF CommandClosesStdin, CommandExits, CommandForks, CommandReads, CommandWritesFile,
          DescendantLetsGo, DescendantExits, KilledExits, Live, runnerVars, readerVars, processVars, pipeVars
<1>4. CASE Spawn \/ WriteChunk \/ WriteFails \/ CloseStdin
  BY <1>4 DEF CloseStdin, ReadersAtSpawn, Return, Spawn, StdinBroken, WriteChunk, WriteFails,
          runnerVars, readerVars, processVars, pipeVars
<1>5. CASE WaitEnds \/ TimeElapses \/ KillEnds \/ JoinStdout
  BY <1>5 DEF Aborted, Join, JoinStdout, Joined, KillEnds, Reap, Return, TimeElapses, TimeLimited,
          WaitEnds, runnerVars, readerVars, processVars, pipeVars
<1>6. CASE JoinStderr \/ Drain \/ CheckOutput \/ RemoveOutput
  BY <1>6 DEF Aborted, CheckOutput, Drain, Join, JoinStderr, Joined, RemoveOutput, Return,
          runnerVars, readerVars, processVars, pipeVars
<1>7. CASE UNCHANGED vars
  BY <1>7 DEF vars, runnerVars, readerVars, processVars, pipeVars
<1> QED BY <1>1, <1>2, <1>3, <1>4, <1>5, <1>6, <1>7
           DEF Next, Command, RunnerStep

LEMMA FileStep ==
    ASSUME CallInv, [Next]_vars
    PROVE  FileInv'
<1> USE SubprocessAssumption DEF CallInv, Types, StepInv, FileInv, FileMatchesOutcome, Streams
<1>1. ASSUME NEW s \in Streams, CommandWrites(s)
      PROVE  FileInv'
  BY <1>1 DEF CommandWrites, Live, runnerVars, readerVars, processVars, pipeVars
<1>2. ASSUME NEW s \in Streams, ReaderStep(s)
      PROVE  FileInv'
  BY <1>2 DEF Held, Read, ReadChunk, ReadEnd, ReaderStep, runnerVars, readerVars, processVars,
          pipeVars
<1>3. CASE CommandReads \/ CommandWritesFile \/ CommandForks \/ DescendantLetsGo
          \/ DescendantExits \/ CommandClosesStdin \/ CommandExits \/ KilledExits
  BY <1>3 DEF CommandClosesStdin, CommandExits, CommandForks, CommandReads, CommandWritesFile,
          DescendantLetsGo, DescendantExits, KilledExits, Live, runnerVars, readerVars, processVars, pipeVars
<1>4. CASE Spawn \/ WriteChunk \/ WriteFails \/ CloseStdin
  BY <1>4 DEF CloseStdin, ReadersAtSpawn, Return, Spawn, StdinBroken, WriteChunk, WriteFails,
          runnerVars, readerVars, processVars, pipeVars
<1>5. CASE WaitEnds \/ TimeElapses \/ KillEnds \/ JoinStdout
  BY <1>5 DEF Aborted, Join, JoinStdout, Joined, KillEnds, Reap, Return, TimeElapses, TimeLimited,
          WaitEnds, runnerVars, readerVars, processVars, pipeVars
<1>6. CASE JoinStderr \/ Drain \/ CheckOutput \/ RemoveOutput
  BY <1>6 DEF Aborted, CheckOutput, Drain, Join, JoinStderr, Joined, RemoveOutput, Return,
          runnerVars, readerVars, processVars, pipeVars
<1>7. CASE UNCHANGED vars
  BY <1>7 DEF vars, runnerVars, readerVars, processVars, pipeVars
<1> QED BY <1>1, <1>2, <1>3, <1>4, <1>5, <1>6, <1>7
           DEF Next, Command, RunnerStep

LEMMA InitInv == Init => CallInv
<1> SUFFICES ASSUME Init
             PROVE  CallInv
    OBVIOUS
<1>1. Types
  <2>1. outlived = FALSE /\ listening = TRUE
    BY DEF Init
  <2>2. outlived \in BOOLEAN /\ listening \in BOOLEAN
    BY <2>1
  <2>3. toWrite \in 0..Input
    BY SubprocessAssumption DEF Init
  <2> QED BY <2>2, <2>3, SubprocessAssumption DEF Init, Types, Streams, ReaderStates
<1>2. FlowInv
  BY SubprocessAssumption DEF Init, FlowInv
<1>3. StepInv /\ ReaderInv /\ FileInv
  BY DEF Init, StepInv, ReaderInv, FileInv, FileMatchesOutcome, Streams
<1> QED BY <1>1, <1>2, <1>3 DEF CallInv

LEMMA CallInvHolds == Spec => []CallInv
<1>1. CallInv /\ [Next]_vars => CallInv'
  BY TypesStep, FlowStep, StepStep, ReaderInvStep, FileStep DEF CallInv
<1> QED BY InitInv, <1>1, PTL DEF Spec

\* Types, and how much of an output a turn may hold (read_limited_with_events).
THEOREM TypeCorrect == Spec => []TypeOK
<1>1. CallInv => TypeOK
  <2> SUFFICES ASSUME CallInv
               PROVE  TypeOK
      OBVIOUS
  <2>1. kept \in [Streams -> 0..MaxOutput]
    <3>1. \A s \in Streams : kept[s] \in 0..MaxOutput
      BY SubprocessAssumption DEF CallInv, Types, FlowInv
    <3> QED BY <3>1 DEF CallInv, Types
  <2> QED BY <2>1 DEF CallInv, Types, FlowInv, TypeOK, ReaderStates
<1> QED BY CallInvHolds, <1>1, PTL

\* A turn that succeeds returns all that was written to its output (join_reader).
THEOREM AnswerIsWholeHolds == Spec => []AnswerIsWhole
<1>1. CallInv => AnswerIsWhole
  BY SubprocessAssumption DEF CallInv, Types, FlowInv, ReaderInv, AnswerIsWhole, Streams
<1> QED BY CallInvHolds, <1>1, PTL

\* No child and no reader is left, but for the two cases the property names.
THEOREM NothingLeftRunningHolds == Spec => []NothingLeftRunning
<1>1. CallInv => NothingLeftRunning
  BY SubprocessAssumption
     DEF CallInv, Types, StepInv, ReaderInv, NothingLeftRunning, Streams
<1> QED BY CallInvHolds, <1>1, PTL

\* The file of a spoken reply is there exactly if the reply succeeded, for as long as
\* nothing that the command started has outlived it (synthesize_reply).
THEOREM FileMatchesOutcomeHolds == Spec => []FileMatchesOutcome
<1>1. CallInv => FileMatchesOutcome
  BY DEF CallInv, FileInv
<1> QED BY CallInvHolds, <1>1, PTL
=============================================================================
