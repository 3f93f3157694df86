--------------------------- MODULE PtySessionProofs ---------------------------
(***************************************************************************)
(* Proofs about PtySession, for any number of calls and parts and any      *)
(* limits.                                                                 *)
(*                                                                         *)
(* That prompts do not mix rests on who may write: the call that holds the *)
(* mutex, which has written the parts 1 to wrote of its prompt and nothing *)
(* else since it got the mutex.  A prompt stays unfinished only when the   *)
(* process is gone, and then nothing is written after it.                  *)
(***************************************************************************)
EXTENDS PtySession, TLAPS

LastPart == written[Len(written)]

Writing(c) == pc[c] = "write" /\ wrote > 0

\* One call at a time is past the lock, and it has parts left while it writes.
HolderInv ==
    /\ \A c \in Calls : pc[c] \in {"drain", "write", "loop", "receive"} <=> holder = c
    /\ \A c \in Calls : pc[c] = "write" => wrote < Parts
    /\ \A c \in Calls : pc[c] = "drain" => wrote = 0
    /\ holder = None => wrote = 0

\* While the process runs, the last part written is that of the call that is
\* writing, or the end of a prompt.
WrittenInv ==
    /\ PromptsArriveWhole
    /\ child = "runs" =>
          /\ \A c \in Calls : Writing(c) =>
                 written # <<>> /\ LastPart = [of |-> c, part |-> wrote]
          /\ (\A c \in Calls : ~Writing(c)) => written = <<>> \/ LastPart.part = Parts

IInv == TypeOK /\ HolderInv /\ WrittenInv

-----------------------------------------------------------------------------

\* The invariant holds at the start.
LEMMA InitIInv == Init => IInv
<1> SUFFICES ASSUME Init PROVE IInv
    OBVIOUS
<1> USE PtyAssumption
<1>1. tty \in Seq(Chunk) /\ Len(tty) <= TtyRoom
    <2>1. [of |-> None, kind |-> "question"] \in Chunk
        BY DEF Chunk, Kinds
    <2>2. CASE tty = <<>>
        BY <2>2
    <2>3. CASE tty = <<[of |-> None, kind |-> "question"]>>
        BY <2>1, <2>3
    <2> QED
        BY <2>2, <2>3 DEF Init
<1>2. TypeOK
    <2>1. written \in Seq(Part) /\ taken \in 0..Len(written) /\ queue \in Seq(Calls)
        BY DEF Init
    <2>2. chan \in Seq(Chunk) /\ output \in Seq(Chunk) /\ Len(output) <= MaxOutput
        BY DEF Init
    <2>3. pc \in [Calls -> States] /\ late \in BOOLEAN /\ unsettled \subseteq Calls
        BY DEF Init, States
    <2> QED
        BY <1>1, <2>1, <2>2, <2>3 DEF Init, TypeOK
<1>3. HolderInv
    BY DEF Init, HolderInv
<1>4. WrittenInv
    BY DEF Init, WrittenInv, PromptsArriveWhole, Writing
<1> QED
    BY <1>2, <1>3, <1>4 DEF IInv

\* Nothing that leaves the calls and what was written alone breaks HolderInv or
\* WrittenInv: the process can only go.
LEMMA WrittenStays ==
    ASSUME HolderInv, WrittenInv, child' \in {child, "gone"},
           UNCHANGED <<written, holder, pc, wrote>>
    PROVE  HolderInv' /\ WrittenInv'
BY DEF HolderInv, WrittenInv, PromptsArriveWhole, Writing, LastPart

\* A step of the process or of the reader keeps the invariant.
LEMMA ProcessIInv == IInv /\ (Child \/ Reader) => IInv'
<1> SUFFICES ASSUME IInv, Child \/ Reader PROVE IInv'
    OBVIOUS
<1> USE PtyAssumption
<1>1. child' \in {child, "gone"} /\ UNCHANGED <<written, holder, pc, wrote>>
    BY DEF Child, Reader, ChildReads, ChildSays, ChildIsThrough, ChildExits, ReaderReads,
        ReaderEnds, callVars, childVars
<1>2. HolderInv' /\ WrittenInv'
    BY <1>1, WrittenStays DEF IInv
<1>3. TypeOK'
    <2>1. CASE ChildReads
        <3>1. taken + 1 \in 1..Len(written) /\ written[taken + 1] \in Part
            BY <2>1 DEF ChildReads, IInv, TypeOK
        <3>2. queue' \in Seq(Calls)
            BY <2>1, <3>1 DEF ChildReads, IInv, TypeOK, Part
        <3>3. tty' \in Seq(Chunk) /\ Len(tty') <= TtyRoom
            <4>1. [of |-> written[taken + 1].of, kind |-> "echo"] \in Chunk
                BY <3>1 DEF Part, Chunk, Kinds
            <4>2. \/ UNCHANGED tty
                  \/ /\ Len(tty) < TtyRoom
                     /\ tty' = Append(tty, [of |-> written[taken + 1].of, kind |-> "echo"])
                BY <2>1 DEF ChildReads, Emit
            <4> QED
                <5>1. tty \in Seq(Chunk) /\ Len(tty) <= TtyRoom
                    BY DEF IInv, TypeOK
                <5>2. CASE UNCHANGED tty
                    BY <5>1, <5>2
                <5>3. CASE /\ Len(tty) < TtyRoom
                           /\ tty' = Append(tty, [of |-> written[taken + 1].of, kind |-> "echo"])
                    BY <4>1, <5>1, <5>3
                <5> QED
                    BY <4>2, <5>2, <5>3
        <3> QED
            BY <2>1, <3>1, <3>2, <3>3 DEF ChildReads, IInv, TypeOK, callVars
    <2>2. CASE ChildSays
        <3>1. Head(queue) \in Calls
            BY <2>2 DEF ChildSays, IInv, TypeOK
        <3> QED
            BY <2>2, <3>1 DEF ChildSays, IInv, TypeOK, Emit, Chunk, Kinds, callVars
    <2>3. CASE ChildIsThrough
        BY <2>3 DEF ChildIsThrough, IInv, TypeOK, callVars
    <2>4. CASE ChildExits
        BY <2>4 DEF ChildExits, IInv, TypeOK, callVars
    <2>5. CASE ReaderReads
        BY <2>5 DEF ReaderReads, IInv, TypeOK, callVars
    <2>6. CASE ReaderEnds
        BY <2>6 DEF ReaderEnds, IInv, TypeOK, callVars, childVars
    <2> QED
        BY <2>1, <2>2, <2>3, <2>4, <2>5, <2>6 DEF Child, Reader
<1> QED
    BY <1>2, <1>3 DEF IInv

\* A call that returns gives the mutex back, and a prompt is left unfinished only
\* for a process that is gone.
LEMMA ReturnIInv ==
    ASSUME IInv, NEW c \in Calls, pc[c] \in {"write", "loop", "receive"},
           pc[c] = "write" => child = "gone",
           NEW outcome \in {"ok", "error"}, NEW text, Return(c, outcome, text),
           UNCHANGED <<childVars, written, reader>>, chan' \in Seq(Chunk)
    PROVE  IInv'
<1> USE PtyAssumption
<1>1. holder = c /\ holder' = None /\ wrote' = 0 /\ pc' = [pc EXCEPT ![c] = outcome]
    BY DEF Return, IInv, HolderInv
<1>2. TypeOK'
    <2>1. output' = <<>> /\ late' = FALSE /\ UNCHANGED unsettled
        BY DEF Return
    <2>2. output' \in Seq(Chunk) /\ Len(output') <= MaxOutput
        BY <2>1
    <2>3. pc' \in [Calls -> States]
        BY <1>1 DEF IInv, TypeOK, States
    <2> QED
        <3>1. late' \in BOOLEAN
            BY <2>1, Zenon
        <3>2. wrote' \in 0..Parts
            BY <1>1 DEF PtyAssumption
        <3> QED
            BY <1>1, <2>1, <2>2, <2>3, <3>1, <3>2 DEF IInv, TypeOK, childVars
<1>3. HolderInv'
    BY <1>1 DEF IInv, HolderInv, TypeOK
<1>4. \A d \in Calls : ~Writing(d)'
    BY <1>1 DEF Writing
<1>5. child = "runs" => \A d \in Calls : ~Writing(d)
    BY <1>1 DEF Writing, IInv, HolderInv
<1>6. WrittenInv'
    BY <1>4, <1>5 DEF IInv, WrittenInv, PromptsArriveWhole, LastPart, childVars
<1> QED
    BY <1>2, <1>3, <1>6 DEF IInv

\* A step that moves one call without the mutex changing hands keeps HolderInv and
\* WrittenInv, unless it writes.
LEMMA MoveIInv ==
    ASSUME IInv, NEW c \in Calls, NEW from \in States, NEW to \in States,
           pc[c] = from, pc' = [pc EXCEPT ![c] = to],
           \/ from = "drain" /\ to \in {"drain", "write"}
           \/ from \in {"loop", "receive"} /\ to \in {"loop", "receive"}
           \/ from = "idle" /\ to = "lock",
           UNCHANGED <<child, written, holder, wrote>>
    PROVE  HolderInv' /\ WrittenInv'
<1> USE PtyAssumption
<1>1. HolderInv'
    BY DEF IInv, HolderInv, TypeOK
<1>2. \A d \in Calls : Writing(d)' <=> Writing(d)
    BY DEF IInv, HolderInv, TypeOK, Writing
<1>3. WrittenInv'
    BY <1>2 DEF IInv, WrittenInv, PromptsArriveWhole, LastPart
<1> QED
    BY <1>1, <1>3

\* Writing a part of the prompt keeps the invariant.
LEMMA WritePartIInv ==
    ASSUME IInv, NEW c \in Calls, WritePart(c)
    PROVE  IInv'
<1> USE PtyAssumption
<1>1. /\ holder = c /\ pc[c] = "write" /\ wrote \in 0..(Parts - 1) /\ wrote' = wrote + 1
      /\ pc' = [pc EXCEPT ![c] = IF wrote' = Parts THEN "loop" ELSE "write"]
      /\ UNCHANGED <<childVars, reader, chan, holder, output, late, unsettled>>
    <2>1. pc[c] = "write" /\ wrote' = wrote + 1
          /\ UNCHANGED <<childVars, reader, chan, holder, output, late, unsettled>>
        BY DEF WritePart, processUnchanged
    <2>2. holder = c /\ wrote \in 0..(Parts - 1)
        BY <2>1 DEF IInv, HolderInv, TypeOK
    <2>3. pc' = [pc EXCEPT ![c] = IF wrote' = Parts THEN "loop" ELSE "write"]
        <3>1. [pc EXCEPT ![c] = "write"] = pc
            BY <2>1 DEF IInv, TypeOK
        <3> QED
            BY <3>1 DEF WritePart
    <2> QED
        BY <2>1, <2>2, <2>3
<1>2. [of |-> c, part |-> wrote + 1] \in Part
    BY <1>1 DEF Part
<1>3. HolderInv'
    BY <1>1 DEF IInv, HolderInv, TypeOK
<1>4. CASE child = "runs"
    <2>1. written' = Append(written, [of |-> c, part |-> wrote + 1])
        BY <1>4 DEF WritePart
    <2>2. /\ written \in Seq(Part) /\ written' \in Seq(Part)
          /\ Len(written') = Len(written) + 1
          /\ written'[Len(written')] = [of |-> c, part |-> wrote + 1]
          /\ \A i \in 1..Len(written) : written'[i] = written[i]
        BY <2>1, <1>2 DEF IInv, TypeOK
    <2>3. TypeOK'
        BY <1>1, <2>2 DEF IInv, TypeOK, States, childVars
    <2>4. wrote > 0 => written # <<>> /\ LastPart = [of |-> c, part |-> wrote]
        BY <1>1, <1>4 DEF IInv, WrittenInv, Writing
    <2>5. wrote = 0 => written = <<>> \/ LastPart.part = Parts
        BY <1>1, <1>4 DEF IInv, WrittenInv, Writing
    <2>6. PromptsArriveWhole'
        <3> SUFFICES ASSUME NEW i \in 1..Len(written')
                     PROVE  IF written'[i].part > 1
                            THEN /\ i > 1
                                 /\ written'[i - 1] = [of |-> written'[i].of,
                                                       part |-> written'[i].part - 1]
                            ELSE i > 1 => written'[i - 1].part = Parts
            <4>1. DOMAIN written' = 1..Len(written')
                BY <2>2
            <4> QED
                BY <4>1 DEF PromptsArriveWhole
        <3>1. CASE i <= Len(written)
            <4>1. i \in DOMAIN written /\ written'[i] = written[i]
                BY <3>1, <2>2
            <4>2. i > 1 => written'[i - 1] = written[i - 1]
                BY <3>1, <2>2
            <4>3. PromptsArriveWhole
                BY DEF IInv, WrittenInv
            <4> QED
                BY <4>1, <4>2, <4>3 DEF PromptsArriveWhole
        <3>2. CASE i = Len(written) + 1
            <4>1. written'[i] = [of |-> c, part |-> wrote + 1]
                BY <3>2, <2>2
            <4>2. i > 1 => written'[i - 1] = LastPart
                BY <3>2, <2>2 DEF LastPart
            <4>3. written = <<>> <=> i = 1
                BY <3>2, <2>2
            <4>4. CASE wrote > 0
                BY <4>1, <4>2, <4>3, <4>4, <2>2, <2>4, <1>1, <3>2
            <4>5. CASE wrote = 0
                BY <4>1, <4>2, <4>3, <4>5, <2>5, <1>1
            <4> QED
                BY <4>4, <4>5, <1>1
        <3> QED
            BY <3>1, <3>2, <2>2
    <2>7. \A d \in Calls : Writing(d)' <=> d = c /\ wrote' # Parts
        BY <1>1 DEF IInv, HolderInv, TypeOK, Writing
    <2>8. written' # <<>> /\ LastPart' = [of |-> c, part |-> wrote']
        BY <2>2, <1>1 DEF LastPart
    <2>9. WrittenInv'
        BY <2>6, <2>7, <2>8, <1>1 DEF WrittenInv
    <2> QED
        BY <1>3, <2>3, <2>9 DEF IInv
<1>5. CASE child = "gone"
    <2>1. UNCHANGED written /\ child' = "gone"
        BY <1>5, <1>1 DEF WritePart, childVars
    <2>2. TypeOK'
        BY <1>1, <2>1 DEF IInv, TypeOK, States, childVars
    <2>3. WrittenInv'
        BY <2>1 DEF IInv, WrittenInv, PromptsArriveWhole
    <2> QED
        BY <1>3, <2>2, <2>3 DEF IInv
<1> QED
    BY <1>4, <1>5 DEF IInv, TypeOK

\* Every other step of a call keeps the invariant.
LEMMA CallIInv ==
    ASSUME IInv, NEW c \in Calls, Call(c) \/ Turn(c) \/ DeadlinePasses(c)
    PROVE  IInv'
<1> USE PtyAssumption
<1>0. IInv
    OBVIOUS
<1>1. CASE Call(c)
    <2>1. HolderInv' /\ WrittenInv'
        BY <1>1, MoveIInv, "idle" \in States, "lock" \in States
        DEF Call, processUnchanged, childVars, States
    <2>2. TypeOK'
        BY <1>1 DEF Call, IInv, TypeOK, States, processUnchanged, childVars
    <2> QED
        BY <2>1, <2>2 DEF IInv
<1>2. CASE Lock(c)
    <2>1. TypeOK'
        BY <1>2 DEF Lock, IInv, TypeOK, States, processUnchanged, childVars
    <2>2. HolderInv'
        BY <1>2 DEF Lock, IInv, HolderInv, TypeOK
    <2>3. \A d \in Calls : ~Writing(d) /\ ~Writing(d)'
        BY <1>2 DEF Lock, IInv, HolderInv, TypeOK, Writing
    <2>4. WrittenInv'
        BY <1>2, <2>3 DEF Lock, IInv, WrittenInv, PromptsArriveWhole, LastPart,
            processUnchanged, childVars
    <2> QED
        BY <2>1, <2>2, <2>4 DEF IInv
<1>3. CASE Drain(c)
    <2>1. pc[c] = "drain" /\ \E to \in {"drain", "write"} : pc' = [pc EXCEPT ![c] = to]
        BY <1>3 DEF Drain, IInv, TypeOK
    <2>2. PICK to \in {"drain", "write"} : pc' = [pc EXCEPT ![c] = to]
        BY <2>1
    <2>3. HolderInv' /\ WrittenInv'
        BY <1>3, <2>1, <2>2, MoveIInv DEF Drain, processUnchanged, childVars, States
    <2>4. TypeOK'
        <3>1. chan' \in Seq(Chunk)
            <4>1. chan \in Seq(Chunk)
                BY DEF IInv, TypeOK
            <4>2. chan' = chan \/ (chan # <<>> /\ chan' = Tail(chan))
                BY <1>3 DEF Drain
            <4> QED
                BY <4>1, <4>2
        <3>2. pc' \in [Calls -> States]
            BY <2>2 DEF IInv, TypeOK, States
        <3>3. unsettled' \subseteq Calls
            BY <1>3 DEF Drain, IInv, TypeOK
        <3> QED
            BY <1>3, <3>1, <3>2, <3>3 DEF Drain, IInv, TypeOK, processUnchanged, childVars
    <2> QED
        BY <2>3, <2>4 DEF IInv
<1>4. CASE WritePart(c)
    BY <1>4, WritePartIInv
<1>5. CASE WriteFails(c)
    BY <1>5, ReturnIInv DEF WriteFails, Fails, processUnchanged, IInv, TypeOK
<1>6. CASE LoopTop(c)
    <2>1. CASE late
        BY <1>6, <2>1, ReturnIInv DEF LoopTop, Fails, processUnchanged, IInv, TypeOK
    <2>2. CASE ~late
        <3>1. HolderInv' /\ WrittenInv'
            BY <1>6, <2>2, MoveIInv DEF LoopTop, processUnchanged, childVars, States
        <3>2. TypeOK'
            BY <1>6, <2>2 DEF LoopTop, IInv, TypeOK, States, processUnchanged, childVars
        <3> QED
            BY <3>1, <3>2 DEF IInv
    <2> QED
        BY <2>1, <2>2
<1>7. CASE Receive(c)
    <2>1. chan' \in Seq(Chunk) /\ Head(chan) \in Chunk
        BY <1>7 DEF Receive, IInv, TypeOK
    <2>2. CASE Len(output) + 1 > MaxOutput
        BY <1>7, <2>1, <2>2, ReturnIInv DEF Receive, Fails, processUnchanged
    <2>3. CASE ~(Len(output) + 1 > MaxOutput)
        <3>1. HolderInv' /\ WrittenInv'
            BY <1>7, <2>3, MoveIInv DEF Receive, processUnchanged, childVars, States
        <3>2. TypeOK'
            <4>1. /\ output' = Append(output, Head(chan))
                  /\ UNCHANGED <<written, holder, wrote, late, unsettled, childVars, reader>>
                BY <1>7, <2>3 DEF Receive, processUnchanged
            <4>2. output' \in Seq(Chunk) /\ Len(output') <= MaxOutput
                BY <2>1, <2>3, <4>1 DEF IInv, TypeOK
            <4>3. pc' \in [Calls -> States]
                BY <1>7, <2>3 DEF Receive, IInv, TypeOK, States
            <4> QED
                BY <2>1, <4>1, <4>2, <4>3 DEF IInv, TypeOK, childVars
        <3> QED
            BY <3>1, <3>2 DEF IInv
    <2> QED
        BY <2>2, <2>3
<1>8. CASE TimesOut(c)
    <2>1. \/ Fails(c) \/ Return(c, "ok", Cleaned(c, output))
          \/ pc' = [pc EXCEPT ![c] = "loop"] /\ UNCHANGED <<holder, wrote, output, late, unsettled>>
        BY <1>8 DEF TimesOut
    <2>2. CASE Fails(c) \/ Return(c, "ok", Cleaned(c, output))
        BY <1>8, <2>2, ReturnIInv DEF TimesOut, Fails, processUnchanged, IInv, TypeOK
    <2>3. CASE pc' = [pc EXCEPT ![c] = "loop"] /\ UNCHANGED <<holder, wrote, output, late, unsettled>>
        <3>1. HolderInv' /\ WrittenInv'
            BY <1>8, <2>3, MoveIInv DEF TimesOut, processUnchanged, childVars, States
        <3>2. TypeOK'
            BY <1>8, <2>3 DEF TimesOut, IInv, TypeOK, States, processUnchanged, childVars
        <3> QED
            BY <3>1, <3>2 DEF IInv
    <2> QED
        BY <2>1, <2>2, <2>3
<1>9. CASE Disconnected(c)
    BY <1>9, ReturnIInv DEF Disconnected, Fails, processUnchanged, IInv, TypeOK
<1>10. CASE DeadlinePasses(c)
    <2>1. HolderInv' /\ WrittenInv'
        BY <1>10, WrittenStays DEF DeadlinePasses, processUnchanged, childVars, IInv
    <2>2. TypeOK'
        BY <1>10 DEF DeadlinePasses, IInv, TypeOK, processUnchanged, childVars
    <2> QED
        BY <2>1, <2>2 DEF IInv
<1> QED
    BY <1>1, <1>2, <1>3, <1>4, <1>5, <1>6, <1>7, <1>8, <1>9, <1>10 DEF Turn

\* IInv is inductive.
LEMMA StepIInv == IInv /\ [Next]_vars => IInv'
<1> SUFFICES ASSUME IInv, [Next]_vars PROVE IInv'
    OBVIOUS
<1>1. CASE Child \/ Reader
    BY <1>1, ProcessIInv
<1>2. CASE \E c \in Calls : Call(c) \/ Turn(c) \/ DeadlinePasses(c)
    BY <1>2, CallIInv
<1>3. CASE UNCHANGED vars
    BY <1>3 DEF vars, childVars, callVars, IInv, TypeOK, HolderInv, WrittenInv,
        PromptsArriveWhole, Writing, LastPart
<1> QED
    BY <1>1, <1>2, <1>3 DEF Next

LEMMA InvariantHolds == Spec => []IInv
BY InitIInv, StepIInv, PTL DEF Spec

\* Types, and that no turn's output passes its limit (TypeOK of PtySession).
THEOREM TypeCorrect == Spec => []TypeOK
BY InvariantHolds, PTL DEF IInv

\* The process reads whole prompts, one after the other, whichever calls overlap
\* and whatever fails (PtyInner's mutex).
THEOREM PromptsArriveWholeHolds == Spec => []PromptsArriveWhole
<1>1. IInv => PromptsArriveWhole
    BY DEF IInv, WrittenInv
<1> QED
    BY <1>1, InvariantHolds, PTL

\* Never are two calls past the lock of one session.
OneTurnAtATime ==
    \A c, d \in Calls :
        pc[c] \in {"drain", "write", "loop", "receive"}
        /\ pc[d] \in {"drain", "write", "loop", "receive"} => c = d

\* One turn at a time, for any number of calls (PtyInner's mutex is held for the
\* whole turn).
THEOREM OneTurnAtATimeHolds == Spec => []OneTurnAtATime
<1>1. IInv => OneTurnAtATime
    BY DEF IInv, HolderInv, OneTurnAtATime
<1> QED
    BY <1>1, InvariantHolds, PTL

-----------------------------------------------------------------------------
(* A call that began settled gets what was said to its own prompt: from its drain *)
(* on, everything on the way from the process to the call is for this call, since *)
(* nobody else writes.                                                            *)

AllFor(c, chunks) == \A i \in DOMAIN chunks : chunks[i].of = c

LEMMA AppendFor ==
    ASSUME NEW c, NEW s \in Seq(Chunk), AllFor(c, s), NEW e \in Chunk, e.of = c
    PROVE  AllFor(c, Append(s, e))
BY DEF AllFor

LEMMA TailFor ==
    ASSUME NEW c, NEW s \in Seq(Chunk), AllFor(c, s), s # <<>>
    PROVE  AllFor(c, Tail(s)) /\ Head(s) \in Chunk /\ Head(s).of = c
BY DEF AllFor

\* All that is on its way is for the call c.
OnlyFor(c) ==
    /\ \A i \in (taken + 1)..Len(written) : written[i].of = c
    /\ \A i \in DOMAIN queue : queue[i] = c
    /\ AllFor(c, tty)
    /\ AllFor(c, chan)
    /\ AllFor(c, output)

OwnInv ==
    /\ \A c \in Calls : pc[c] \in {"write", "loop", "receive"} /\ c \notin unsettled => OnlyFor(c)
    /\ \A c \in Calls : pc[c] = "drain" => output = <<>>
    /\ holder = None => output = <<>>
    /\ DOMAIN answer = Calls
    /\ AnswerIsOwn

\* The process and the reader pass on what is for one call.
LEMMA ProcessFor ==
    ASSUME IInv, Child \/ Reader, NEW c \in Calls, OnlyFor(c)
    PROVE  OnlyFor(c)'
<1> USE PtyAssumption
<1>1. CASE ChildReads
    <2>1. taken + 1 \in 1..Len(written) /\ written[taken + 1] \in Part
          /\ written[taken + 1].of = c
        BY <1>1 DEF ChildReads, IInv, TypeOK, OnlyFor
    <2>2. \A i \in DOMAIN queue' : queue'[i] = c
        <3>1. queue' = queue \/ queue' = Append(queue, c)
            BY <1>1, <2>1 DEF ChildReads
        <3>2. queue \in Seq(Calls)
            BY DEF IInv, TypeOK
        <3> QED
            BY <3>1, <3>2 DEF OnlyFor
    <2>3. AllFor(c, tty')
        <3>1. [of |-> c, kind |-> "echo"] \in Chunk
            BY DEF Chunk, Kinds
        <3>2. tty' = tty \/ tty' = Append(tty, [of |-> c, kind |-> "echo"])
            BY <1>1, <2>1 DEF ChildReads, Emit
        <3>3. AllFor(c, Append(tty, [of |-> c, kind |-> "echo"]))
            BY <3>1, AppendFor DEF OnlyFor, IInv, TypeOK
        <3> QED
            BY <3>2, <3>3 DEF OnlyFor
    <2> QED
        BY <1>1, <2>1, <2>2, <2>3 DEF ChildReads, OnlyFor, AllFor, callVars, IInv, TypeOK
<1>2. CASE ChildSays
    <2>1. Head(queue) = c
        BY <1>2 DEF ChildSays, OnlyFor, IInv, TypeOK
    <2>2. PICK kind \in Kinds : tty' = Append(tty, [of |-> c, kind |-> kind])
        BY <1>2, <2>1 DEF ChildSays, Emit, Kinds
    <2>3. [of |-> c, kind |-> kind] \in Chunk
        BY <2>2 DEF Chunk
    <2>4. AllFor(c, tty')
        BY <2>2, <2>3, AppendFor DEF OnlyFor, IInv, TypeOK
    <2> QED
        BY <1>2, <2>4 DEF ChildSays, OnlyFor, AllFor, callVars
<1>3. CASE ChildIsThrough
    <2>1. \A i \in DOMAIN queue' : queue'[i] = c
        BY <1>3 DEF ChildIsThrough, OnlyFor, IInv, TypeOK
    <2> QED
        BY <1>3, <2>1 DEF ChildIsThrough, OnlyFor, AllFor, callVars
<1>4. CASE ChildExits
    BY <1>4 DEF ChildExits, OnlyFor, AllFor, callVars
<1>5. CASE ReaderReads
    <2>1. AllFor(c, tty') /\ Head(tty) \in Chunk /\ Head(tty).of = c
        BY <1>5, TailFor DEF ReaderReads, OnlyFor, IInv, TypeOK
    <2>2. AllFor(c, chan')
        BY <1>5, <2>1, AppendFor DEF ReaderReads, OnlyFor, IInv, TypeOK
    <2> QED
        BY <1>5, <2>1, <2>2 DEF ReaderReads, OnlyFor, AllFor, callVars
<1>6. CASE ReaderEnds
    BY <1>6 DEF ReaderEnds, OnlyFor, AllFor, callVars, childVars
<1> QED
    BY <1>1, <1>2, <1>3, <1>4, <1>5, <1>6 DEF Child, Reader

\* What is stripped from an output leaves its texts.
LEMMA CleanedFor ==
    ASSUME NEW c \in Calls, NEW chunks \in Seq(Chunk), chunks # <<>>, AllFor(c, chunks),
           ~Incomplete(c, chunks)
    PROVE  /\ \A i \in DOMAIN Cleaned(c, chunks) :
                  Cleaned(c, chunks)[i].of = c /\ Cleaned(c, chunks)[i].kind # "question"
           /\ \E i \in DOMAIN Cleaned(c, chunks) : Cleaned(c, chunks)[i].kind = "text"
<1>1. PICK k \in DOMAIN chunks : ~IsEchoOf(c, chunks[k])
    BY DEF Incomplete
<1>2. \A i \in DOMAIN chunks : chunks[i].kind # "question"
    BY DEF Incomplete
<1>3. chunks[k].kind = "text"
    <2>1. chunks[k] \in Chunk /\ chunks[k].of = c
        BY <1>1 DEF AllFor
    <2>2. chunks[k] = [of |-> c, kind |-> chunks[k].kind]
        BY <2>1 DEF Chunk
    <2>3. chunks[k].kind \in Kinds /\ chunks[k].kind # "echo"
        BY <2>1, <2>2, <1>1 DEF Chunk, IsEchoOf
    <2> QED
        BY <2>3, <1>2 DEF Kinds
<1>4. CASE IsEchoOf(c, Head(chunks))
    <2>1. Cleaned(c, chunks) = Tail(chunks)
        BY <1>4 DEF Cleaned
    <2>2. k # 1
        BY <1>1, <1>4
    <2>3. /\ k - 1 \in DOMAIN Tail(chunks)
          /\ \A i \in DOMAIN Tail(chunks) : i + 1 \in DOMAIN chunks /\ Tail(chunks)[i] = chunks[i + 1]
        BY <2>2
    <2>4. Tail(chunks)[k - 1] = chunks[k]
        BY <2>3
    <2> QED
        BY <2>1, <2>3, <2>4, <1>2, <1>3 DEF AllFor
<1>5. CASE ~IsEchoOf(c, Head(chunks))
    BY <1>1, <1>2, <1>3, <1>5 DEF Cleaned, AllFor
<1> QED
    BY <1>4, <1>5

\* A call that returns what was said to it, or fails, keeps OwnInv.
LEMMA ReturnFor ==
    ASSUME IInv, OwnInv, NEW c \in Calls, pc[c] \in {"write", "loop", "receive"},
           \/ Fails(c)
           \/ Return(c, "ok", Cleaned(c, output)) /\ output # <<>> /\ ~Incomplete(c, output)
              /\ pc[c] = "receive"
    PROVE  OwnInv'
<1>1. PICK outcome \in {"ok", "error"}, text \in {<<>>, Cleaned(c, output)} :
          /\ Return(c, outcome, text)
          /\ outcome = "ok" => /\ output # <<>> /\ ~Incomplete(c, output) /\ pc[c] = "receive"
                               /\ text = Cleaned(c, output)
    BY DEF Fails
<1>2. /\ pc' = [pc EXCEPT ![c] = outcome] /\ answer' = [answer EXCEPT ![c] = text]
      /\ holder = c /\ output' = <<>> /\ UNCHANGED unsettled
    BY <1>1 DEF Return, IInv, HolderInv
<1>3. \A d \in Calls : pc'[d] \notin {"drain", "write", "loop", "receive"}
    BY <1>2 DEF IInv, HolderInv, TypeOK
<1>4. AnswerIsOwn'
    <2> SUFFICES ASSUME NEW d \in Calls, pc'[d] = "ok", d \notin unsettled'
                 PROVE  /\ \A i \in DOMAIN answer'[d] :
                               answer'[d][i].of = d /\ answer'[d][i].kind # "question"
                        /\ \E i \in DOMAIN answer'[d] : answer'[d][i].kind = "text"
        BY DEF AnswerIsOwn
    <2>1. CASE d = c
        <3>1. outcome = "ok"
            BY <1>2, <2>1 DEF IInv, TypeOK
        <3>2. AllFor(c, output)
            BY <1>1, <1>2, <2>1, <3>1 DEF OwnInv, OnlyFor
        <3>3. output \in Seq(Chunk)
            BY DEF IInv, TypeOK
        <3>4. answer'[c] = Cleaned(c, output)
            BY <1>1, <1>2, <3>1 DEF OwnInv
        <3> QED
            BY <2>1, <3>1, <3>2, <3>3, <3>4, <1>1, CleanedFor
    <2>2. CASE d # c
        <3>1. pc'[d] = pc[d] /\ answer'[d] = answer[d]
            BY <1>2, <2>2 DEF IInv, TypeOK
        <3> QED
            BY <1>2, <3>1 DEF OwnInv, AnswerIsOwn
    <2> QED
        BY <2>1, <2>2
<1> QED
    BY <1>2, <1>3, <1>4 DEF OwnInv

\* A step of the call that holds the mutex, which goes on, keeps OwnInv.
LEMMA MoveFor ==
    ASSUME IInv, OwnInv, NEW c \in Calls, pc[c] \in {"drain", "write", "loop", "receive"},
           NEW to \in {"drain", "write", "loop", "receive"}, pc' = [pc EXCEPT ![c] = to],
           UNCHANGED <<holder, answer>>, unsettled' \in {unsettled, unsettled \cup {c}},
           to = "drain" => output' = <<>>,
           to # "drain" /\ c \notin unsettled' => OnlyFor(c)'
    PROVE  OwnInv'
<1>1. /\ holder = c /\ holder' # None
      /\ \A d \in Calls : pc'[d] = IF d = c THEN to ELSE pc[d]
    BY PtyAssumption DEF IInv, HolderInv, TypeOK
<1>2. \A d \in Calls : d # c => pc'[d] \notin {"drain", "write", "loop", "receive"}
    BY <1>1 DEF IInv, HolderInv
<1>3. AnswerIsOwn'
    <2>1. \A d \in Calls : pc'[d] = "ok" /\ d \notin unsettled' => pc[d] = "ok" /\ d \notin unsettled
        BY <1>1
    <2> QED
        BY <2>1 DEF OwnInv, AnswerIsOwn
<1> QED
    BY <1>1, <1>2, <1>3 DEF OwnInv

LEMMA StepOwnInv == IInv /\ OwnInv /\ [Next]_vars => OwnInv'
<1> SUFFICES ASSUME IInv, OwnInv, [Next]_vars PROVE OwnInv'
    OBVIOUS
<1> USE PtyAssumption
<1>0. /\ IInv /\ OwnInv
      /\ \A c \in Calls : pc[c] \in {"write", "loop", "receive"} /\ c \notin unsettled => OnlyFor(c)
    BY DEF OwnInv
<1>1. CASE Child \/ Reader
    <2>1. UNCHANGED callVars
        BY <1>1 DEF Child, Reader, ChildReads, ChildSays, ChildIsThrough, ChildExits,
            ReaderReads, ReaderEnds
    <2>2. \A c \in Calls : OnlyFor(c) => OnlyFor(c)'
        BY <1>1, ProcessFor
    <2> QED
        BY <2>1, <2>2 DEF OwnInv, AnswerIsOwn, callVars
<1>2. ASSUME NEW c \in Calls, Call(c) PROVE OwnInv'
    <2>1. /\ UNCHANGED <<written, taken, queue, tty, chan, holder, output, answer, unsettled>>
          /\ \A d \in Calls : pc'[d] = IF d = c THEN "lock" ELSE pc[d]
        BY <1>2 DEF Call, processUnchanged, childVars, IInv, TypeOK
    <2> QED
        BY <2>1 DEF OwnInv, AnswerIsOwn, OnlyFor, AllFor
<1>3. ASSUME NEW c \in Calls, Lock(c) PROVE OwnInv'
    <2>1. /\ UNCHANGED <<written, taken, queue, tty, chan, output, answer, unsettled>>
          /\ \A d \in Calls : pc'[d] = IF d = c THEN "drain" ELSE pc[d]
          /\ holder = None /\ holder' = c
        BY <1>3 DEF Lock, processUnchanged, childVars, IInv, TypeOK
    <2> QED
        BY <2>1 DEF OwnInv, AnswerIsOwn, OnlyFor, AllFor
<1>4. ASSUME NEW c \in Calls, Drain(c) PROVE OwnInv'
    <2>1. pc[c] = "drain" /\ output = <<>> /\ UNCHANGED <<holder, output, answer>>
        BY <1>4 DEF Drain, OwnInv
    <2>2. CASE chan # <<>>
        <3>1. pc' = [pc EXCEPT ![c] = "drain"] /\ UNCHANGED unsettled
            BY <1>4, <2>1, <2>2 DEF Drain, IInv, TypeOK
        <3> QED
            BY <2>1, <3>1, MoveFor
    <2>3. CASE chan = <<>>
        <3>1. /\ pc' = [pc EXCEPT ![c] = "write"]
              /\ unsettled' = IF Settled THEN unsettled ELSE unsettled \cup {c}
              /\ UNCHANGED <<written, taken, queue, tty, chan>>
            BY <1>4, <2>3 DEF Drain, processUnchanged, childVars
        <3>2. Settled => OnlyFor(c)'
            BY <2>1, <2>3, <3>1 DEF Settled, OnlyFor, AllFor, IInv, TypeOK
        <3>3. c \notin unsettled' => Settled
            BY <3>1
        <3> QED
            BY <2>1, <3>1, <3>2, <3>3, MoveFor
    <2> QED
        BY <2>2, <2>3
<1>5. ASSUME NEW c \in Calls, WritePart(c) PROVE OwnInv'
    <2>1. /\ pc[c] = "write" /\ UNCHANGED <<holder, answer, unsettled, output, chan, childVars>>
          /\ written' = written \/ written' = Append(written, [of |-> c, part |-> wrote + 1])
        BY <1>5 DEF WritePart, processUnchanged
    <2>2. \E to \in {"write", "loop"} : pc' = [pc EXCEPT ![c] = to]
        BY <1>5, <2>1 DEF WritePart, IInv, TypeOK
    <2>3. OnlyFor(c) => OnlyFor(c)'
        <3>1. written \in Seq(Part) /\ taken \in 0..Len(written)
            BY DEF IInv, TypeOK
        <3>2. (\A i \in (taken + 1)..Len(written) : written[i].of = c)
                  => \A i \in (taken' + 1)..Len(written') : written'[i].of = c
            BY <2>1, <3>1 DEF childVars
        <3> QED
            BY <2>1, <3>2 DEF OnlyFor, AllFor, childVars
    <2> QED
        BY <1>0, <2>1, <2>2, <2>3, MoveFor
<1>6. ASSUME NEW c \in Calls, WriteFails(c) PROVE OwnInv'
    BY <1>0, <1>6, ReturnFor DEF WriteFails
<1>7. ASSUME NEW c \in Calls, LoopTop(c) PROVE OwnInv'
    <2>1. CASE late
        BY <1>0, <1>7, <2>1, ReturnFor DEF LoopTop
    <2>2. CASE ~late
        BY <1>0, <1>7, <2>2, MoveFor DEF LoopTop, processUnchanged, childVars, OnlyFor, AllFor
    <2> QED
        BY <2>1, <2>2
<1>8. ASSUME NEW c \in Calls, Receive(c) PROVE OwnInv'
    <2>1. CASE Len(output) + 1 > MaxOutput
        BY <1>0, <1>8, <2>1, ReturnFor DEF Receive
    <2>2. CASE ~(Len(output) + 1 > MaxOutput)
        <3>1. /\ pc[c] = "receive" /\ pc' = [pc EXCEPT ![c] = "loop"]
              /\ chan # <<>> /\ chan' = Tail(chan) /\ output' = Append(output, Head(chan))
              /\ UNCHANGED <<holder, answer, unsettled, written, taken, queue, tty>>
            BY <1>8, <2>2 DEF Receive, processUnchanged, childVars
        <3>2. ASSUME OnlyFor(c) PROVE OnlyFor(c)'
            <4>1. AllFor(c, chan') /\ Head(chan) \in Chunk /\ Head(chan).of = c
                BY <3>1, <3>2, TailFor DEF OnlyFor, IInv, TypeOK
            <4>2. AllFor(c, output')
                BY <3>1, <3>2, <4>1, AppendFor DEF OnlyFor, IInv, TypeOK
            <4> QED
                BY <3>1, <3>2, <4>1, <4>2 DEF OnlyFor, AllFor
        <3> QED
            BY <1>0, <3>1, <3>2, MoveFor
    <2> QED
        BY <2>1, <2>2
<1>9. ASSUME NEW c \in Calls, TimesOut(c) PROVE OwnInv'
    <2>1. CASE output = <<>>
        BY <1>0, <1>9, <2>1, ReturnFor DEF TimesOut
    <2>2. CASE output # <<>> /\ Incomplete(c, output)
        <3>1. /\ pc[c] = "receive" /\ pc' = [pc EXCEPT ![c] = "loop"]
              /\ UNCHANGED <<holder, answer, unsettled, output, chan, written, taken, queue, tty>>
            BY <1>9, <2>2 DEF TimesOut, processUnchanged, childVars
        <3> QED
            BY <1>0, <3>1, MoveFor DEF OnlyFor, AllFor
    <2>3. CASE output # <<>> /\ ~Incomplete(c, output)
        BY <1>0, <1>9, <2>3, ReturnFor DEF TimesOut
    <2> QED
        BY <2>1, <2>2, <2>3
<1>10. ASSUME NEW c \in Calls, Disconnected(c) PROVE OwnInv'
    <2>1. CASE Incomplete(c, output)
        BY <1>0, <1>10, <2>1, ReturnFor DEF Disconnected
    <2>2. CASE ~Incomplete(c, output)
        <3>1. output # <<>>
            BY <2>2 DEF Incomplete
        <3> QED
            BY <1>0, <1>10, <2>2, <3>1, ReturnFor DEF Disconnected
    <2> QED
        BY <2>1, <2>2
<1>11. ASSUME NEW c \in Calls, DeadlinePasses(c) PROVE OwnInv'
    BY <1>11 DEF DeadlinePasses, processUnchanged, childVars, OwnInv, AnswerIsOwn, OnlyFor, AllFor
<1>12. CASE UNCHANGED vars
    BY <1>12 DEF vars, childVars, callVars, OwnInv, AnswerIsOwn, OnlyFor, AllFor
<1> QED
    BY <1>1, <1>2, <1>3, <1>4, <1>5, <1>6, <1>7, <1>8, <1>9, <1>10, <1>11, <1>12
    DEF Next, Turn

\* A call that began settled returns what was said to its own prompt, for any
\* number of calls and any limits (drain_stale_output, turn_output_is_incomplete).
THEOREM AnswerIsOwnHolds == Spec => []AnswerIsOwn
<1>1. Init => OwnInv
    BY PtyAssumption DEF Init, OwnInv, AnswerIsOwn
<1>2. OwnInv => AnswerIsOwn
    BY DEF OwnInv
<1> QED
    BY <1>1, <1>2, InvariantHolds, StepOwnInv, PTL DEF Spec
=============================================================================
