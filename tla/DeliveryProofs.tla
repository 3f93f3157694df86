---------------------------- MODULE DeliveryProofs ----------------------------
(***************************************************************************)
(* Proofs about Delivery, for any limits, settings and files.              *)
(*                                                                         *)
(* That a spoken reply comes last rests on what a call of the sink still   *)
(* has to do: each message of the answer is in the chat or among those to  *)
(* be sent, and the call ends well only when there is none to be sent.     *)
(* That no file gets lost rests on each being to be exported, to be sent,  *)
(* or settled.  That the answer is shown once rests on what the chat and   *)
(* the messages to be sent are, one by one, at each step of the worker.    *)
(***************************************************************************)
EXTENDS Delivery, SequenceTheorems, FiniteSetTheorems, WellFoundedInduction, TLAPS

IsSeq(s) == \E S : s \in Seq(S)

\* The files and the messages are in sequences, whatever they are.
SeqInv == IsSeq(toExport) /\ IsSeq(files) /\ IsSeq(chat)

\* The output is final when the worker leaves the turn.
TurnInv ==
    /\ pc \notin {"turn", "preview"} => session \in {"answered", "failed"}
    /\ pc = "report" => session = "failed"
    /\ session \in {"running", "failed"} => files = <<>> /\ toExport = <<>>

\* What is in the temporary directory is left by docker or still to be sent.
TempInv ==
    /\ pc \in {"speak", "spoken", "done"} => files = <<>>
    /\ temp \subseteq dockerLeft \cup ToSet(files)
                        \cup (IF pc = "spoken" THEN {Speech} ELSE {})

FileInv == TypeOK /\ SeqInv /\ TurnInv /\ TempInv

Answer == Chunks(size, FALSE)

\* The messages of the answer that are not in the chat are still to be sent.
AnswerInv ==
    /\ pc = "finish" => \A c \in DOMAIN Answer : Answer[c] \in ToSet(todo)
    /\ pc = "answer" => \A c \in DOMAIN Answer : Answer[c] \in ToSet(todo) \cup ToSet(chat)
    /\ pc \in {"files", "speak", "spoken"} /\ sent = "ok" =>
          \A c \in DOMAIN Answer : Answer[c] \in ToSet(chat)
    /\ pc \in {"speak", "spoken"} => sent = "ok"

\* Speech is the last thing a turn does.
SpeechInv == Speech \in ToSet(chat) => pc = "done"

AnswerShownInv == FileInv /\ AnswerInv /\ SpeechInv /\ SpokenAfterText

-----------------------------------------------------------------------------
(* Sequences and chunks. *)

LEMMA AppendSeq ==
    ASSUME NEW s, IsSeq(s), NEW e
    PROVE  /\ IsSeq(Append(s, e))
           /\ Len(s) \in Nat /\ DOMAIN s = 1..Len(s)
           /\ Len(Append(s, e)) = Len(s) + 1
           /\ DOMAIN Append(s, e) = 1..(Len(s) + 1)
           /\ \A i \in 1..Len(s) : Append(s, e)[i] = s[i]
           /\ Append(s, e)[Len(s) + 1] = e
           /\ ToSet(Append(s, e)) = ToSet(s) \cup {e}
<1>1. PICK S : s \in Seq(S)
    BY DEF IsSeq
<1>2. s \in Seq(S \cup {e}) /\ e \in S \cup {e}
    BY <1>1
<1>3. Append(s, e) \in Seq(S \cup {e})
    BY <1>2
<1>4. IsSeq(Append(s, e))
    BY <1>3 DEF IsSeq
<1>5. /\ Len(s) \in Nat /\ DOMAIN s = 1..Len(s)
      /\ Len(Append(s, e)) = Len(s) + 1
      /\ DOMAIN Append(s, e) = 1..(Len(s) + 1)
      /\ \A i \in 1..Len(s) : Append(s, e)[i] = s[i]
      /\ Append(s, e)[Len(s) + 1] = e
    BY <1>2, <1>3
<1>6. ToSet(Append(s, e)) = ToSet(s) \cup {e}
    <2>1. \A i \in DOMAIN Append(s, e) : Append(s, e)[i] \in ToSet(s) \cup {e}
        BY <1>5 DEF ToSet
    <2>2. \A i \in DOMAIN s : s[i] \in ToSet(Append(s, e))
        BY <1>5 DEF ToSet
    <2>3. e \in ToSet(Append(s, e))
        BY <1>5 DEF ToSet
    <2> QED
        BY <2>1, <2>2, <2>3 DEF ToSet
<1> QED
    BY <1>4, <1>5, <1>6

LEMMA TailSeq ==
    ASSUME NEW s, IsSeq(s), s # <<>>
    PROVE  /\ IsSeq(Tail(s))
           /\ Len(s) \in Nat \ {0} /\ Len(Tail(s)) = Len(s) - 1
           /\ ToSet(s) = ToSet(Tail(s)) \cup {Head(s)}
<1>1. PICK S : s \in Seq(S)
    BY DEF IsSeq
<1>2. /\ Tail(s) \in Seq(S) /\ Head(s) = s[1]
      /\ Len(s) \in Nat \ {0} /\ Len(Tail(s)) = Len(s) - 1
      /\ DOMAIN s = 1..Len(s) /\ DOMAIN Tail(s) = 1..(Len(s) - 1)
      /\ \A i \in 1..(Len(s) - 1) : Tail(s)[i] = s[i + 1]
    BY <1>1
<1>3. ToSet(s) = ToSet(Tail(s)) \cup {Head(s)}
    <2>1. \A i \in DOMAIN s : s[i] \in ToSet(Tail(s)) \cup {Head(s)}
        <3> TAKE i \in DOMAIN s
        <3>1. CASE i = 1
            BY <3>1, <1>2
        <3>2. CASE i # 1
            <4>1. i - 1 \in DOMAIN Tail(s) /\ Tail(s)[i - 1] = s[i]
                BY <3>2, <1>2
            <4> QED
                BY <4>1 DEF ToSet
        <3> QED
            BY <3>1, <3>2
    <2>2. \A i \in DOMAIN Tail(s) : Tail(s)[i] \in ToSet(s)
        BY <1>2 DEF ToSet
    <2>3. Head(s) \in ToSet(s)
        BY <1>2 DEF ToSet
    <2> QED
        BY <2>1, <2>2, <2>3 DEF ToSet
<1> QED
    BY <1>2, <1>3 DEF IsSeq

LEMMA EmptySeqs == IsSeq(<<>>) /\ Len(<<>>) = 0 /\ ToSet(<<>>) = {}
<1>1. <<>> \in Seq({})
    OBVIOUS
<1> QED
    BY <1>1 DEF IsSeq, ToSet

LEMMA MessagesAreNotSpeech == \A m \in Message : m # Speech
<1> TAKE m \in Message
<1>1. "from" \in DOMAIN m
    BY DEF Message
<1>2. DOMAIN Speech = {"voice"}
    BY DEF Speech
<1> QED
    BY <1>1, <1>2

\* The chunks of a text show its units, and those of a text are some.
LEMMA ChunksAreMessages ==
    ASSUME NEW n \in 0..(MaxUnits + 1), NEW cut \in BOOLEAN
    PROVE  /\ Chunks(n, cut) \in Seq(Message)
           /\ n = 0 => Chunks(n, cut) = <<>>
           /\ n # 0 => Chunks(n, cut) # <<>>
<1> USE DeliveryAssumption
<1> DEFINE count == (n + ChunkLimit - 1) \div ChunkLimit
<1>1. n \in Nat /\ MaxUnits \in Nat /\ ChunkLimit \in Nat /\ ChunkLimit >= 1
    OBVIOUS
<1>2. count \in Nat /\ count * ChunkLimit <= n + ChunkLimit - 1
                    /\ n + ChunkLimit - 1 < (count + 1) * ChunkLimit
    BY <1>1
<1>3. ASSUME NEW c \in 1..count
      PROVE  /\ (c - 1) * ChunkLimit + 1 \in 0..(MaxUnits + 1)
             /\ Smaller(c * ChunkLimit, n) \in 0..(MaxUnits + 1)
             /\ (cut /\ c * ChunkLimit >= n) \in BOOLEAN
    <2> HIDE DEF count
    <2>1. c * ChunkLimit <= count * ChunkLimit /\ c * ChunkLimit \in Nat
        BY <1>1, <1>2
    <2>2. (c - 1) * ChunkLimit = c * ChunkLimit - ChunkLimit /\ (c - 1) * ChunkLimit \in Nat
        BY <1>1, <1>2
    <2> QED
        BY <2>1, <2>2, <1>1, <1>2 DEF Smaller
<1>4. Chunks(n, cut) \in Seq(Message)
    <2>1. Chunks(n, cut) = [c \in 1..count |->
              [from |-> (c - 1) * ChunkLimit + 1, to |-> Smaller(c * ChunkLimit, n),
               dots |-> cut /\ c * ChunkLimit >= n]]
        BY DEF Chunks
    <2> HIDE DEF count
    <2>2. \A c \in 1..count :
              [from |-> (c - 1) * ChunkLimit + 1, to |-> Smaller(c * ChunkLimit, n),
               dots |-> cut /\ c * ChunkLimit >= n] \in Message
        BY <1>3 DEF Message
    <2>3. Chunks(n, cut) \in [1..count -> Message]
        BY <2>1, <2>2
    <2> QED
        BY <2>3, <1>2, SeqDef
<1>5. Len(Chunks(n, cut)) = count
    <2>1. DOMAIN Chunks(n, cut) = 1..count
        BY DEF Chunks
    <2> QED
        BY <2>1, <1>4, <1>2
<1>6. n = 0 => count = 0
    BY <1>1, <1>2
<1>7. n # 0 => count # 0
    <2> SUFFICES ASSUME n # 0, count = 0 PROVE FALSE
        OBVIOUS
    <2> QED
        BY <1>1, <1>2
<1> QED
    BY <1>4, <1>5, <1>6, <1>7, EmptySeq

-----------------------------------------------------------------------------
(* What a request of the sink does. *)

\* A request that is carried out adds its message to the chat, or puts it in the
\* place of the streamed one.
LEMMA ShowResult ==
    ASSUME FileInv, Requesting, Show
    PROVE  /\ IsSeq(chat')
           /\ Len(chat) \in Nat /\ Len(chat') \in Nat /\ Len(chat') >= Len(chat)
           /\ Shown \in 1..Len(chat')
           /\ Head(todo) \in Message
           /\ \A i \in DOMAIN chat' : chat'[i] \in Message \/ IsUpload(chat'[i])
           /\ Head(todo) \in ToSet(chat')
           /\ Speech \in ToSet(chat') => Speech \in ToSet(chat)
           /\ ~Edits => ToSet(chat) \subseteq ToSet(chat')
<1>1. IsSeq(chat) /\ todo # <<>> /\ todo \in Seq(Message)
    BY DEF FileInv, SeqInv, TypeOK, Requesting
<1>2. Head(todo) \in Message /\ Head(todo) # Speech
    BY <1>1, MessagesAreNotSpeech
<1>3. \A i \in DOMAIN chat : chat[i] \in Message \/ IsUpload(chat[i])
    BY DEF FileInv, TypeOK
<1>4. PICK S : chat \in Seq(S)
    BY <1>1 DEF IsSeq
<1>5. CASE Edits
    <2>1. chat' = [chat EXCEPT ![preview.message] = Head(todo)] /\ Shown = preview.message
        BY <1>5 DEF Show, Shown
    <2>2. preview.message \in 1..Len(chat) /\ Len(chat) \in Nat /\ DOMAIN chat = 1..Len(chat)
        BY <1>4, <1>5 DEF FileInv, TypeOK, Edits
    <2>3. chat \in Seq(S \cup Message)
        BY <1>4
    <2>4. chat' \in Seq(S \cup Message) /\ Len(chat') = Len(chat) /\ DOMAIN chat' = DOMAIN chat
        BY <1>2, <2>1, <2>2, <2>3
    <2>5. \A i \in DOMAIN chat' :
              chat'[i] = IF i = preview.message THEN Head(todo) ELSE chat[i]
        BY <2>1, <2>2
    <2>6. Head(todo) \in ToSet(chat')
        <3>1. chat'[preview.message] = Head(todo) /\ preview.message \in DOMAIN chat'
            BY <2>2, <2>4, <2>5
        <3> QED
            BY <3>1 DEF ToSet
    <2>7. Speech \in ToSet(chat') => Speech \in ToSet(chat)
        BY <1>2, <2>4, <2>5 DEF ToSet
    <2>8. IsSeq(chat')
        BY <2>4 DEF IsSeq
    <2> QED
        BY <1>2, <1>3, <1>5, <2>1, <2>2, <2>4, <2>5, <2>6, <2>7, <2>8
<1>6. CASE ~Edits
    <2>1. chat' = Append(chat, Head(todo)) /\ Shown = Len(chat) + 1
        BY <1>6 DEF Show, Shown
    <2>2. /\ IsSeq(chat') /\ Len(chat) \in Nat /\ DOMAIN chat = 1..Len(chat)
          /\ Len(chat') = Len(chat) + 1 /\ DOMAIN chat' = 1..(Len(chat) + 1)
          /\ \A i \in 1..Len(chat) : chat'[i] = chat[i]
          /\ chat'[Len(chat) + 1] = Head(todo)
        BY <1>1, <2>1, AppendSeq
    <2>3. \A i \in DOMAIN chat' : chat'[i] \in Message \/ IsUpload(chat'[i])
        BY <1>2, <1>3, <2>2
    <2>4. ToSet(chat) \subseteq ToSet(chat')
        BY <2>2 DEF ToSet
    <2>5. Head(todo) \in ToSet(chat') /\ (Speech \in ToSet(chat') => Speech \in ToSet(chat))
        BY <1>2, <2>2 DEF ToSet
    <2> QED
        BY <1>2, <1>6, <2>1, <2>2, <2>3, <2>4, <2>5
<1> QED
    BY <1>5, <1>6

\* Where the call of the sink is after its message is in the chat.
LEMMA AdvanceResult ==
    ASSUME FileInv, Requesting, NEW m \in 1..Len(chat'), Len(chat') \in Nat,
           Len(chat) \in Nat, Len(chat') >= Len(chat), Advance(m)
    PROVE  /\ todo' \in Seq(Message)
           /\ attempt' \in [plain : BOOLEAN, again : BOOLEAN]
           /\ first' \in 0..Len(chat')
           /\ preview' \in [message : 0..Len(chat'), chars : Nat, next : Nat]
           /\ \/ pc = "preview" /\ pc' = "turn" /\ sent' = sent
              \/ pc \in {"preview", "answer", "report"} /\ pc' = pc /\ sent' = sent
                 /\ todo' = Tail(todo)
              \/ pc = "finish" /\ pc' = "files" /\ sent' = "ok" /\ Len(todo) = 1
              \/ pc = "finish" /\ pc' = "answer" /\ sent' = sent /\ todo' = Tail(todo)
              \/ pc = "report" /\ pc' = "done" /\ sent' = sent
              \/ pc = "answer" /\ pc' = "files" /\ sent' = "ok" /\ Len(todo) = 1
<1>1. /\ todo \in Seq(Message) /\ todo # <<>> /\ Tail(todo) \in Seq(Message)
      /\ Len(todo) \in Nat \ {0} /\ <<>> \in Seq(Message)
      /\ pc \in {"preview", "finish", "answer", "report"}
    BY DEF FileInv, TypeOK, Requesting
<1>2. FirstTry \in [plain : BOOLEAN, again : BOOLEAN]
    BY DEF FirstTry
<1>3. /\ preview \in [message : 0..Len(chat'), chars : Nat, next : Nat]
      /\ first \in 0..Len(chat') /\ sent \in {"none", "ok", "failed"}
    BY DEF FileInv, TypeOK
<1> DEFINE handle == IF first = 0 THEN m ELSE first
<1>4. handle \in 0..Len(chat')
    BY <1>3
<1>5. CASE pc = "preview" /\ (Edits \/ Len(todo) = 1)
    <2>1. PreviewShown(handle)
        BY <1>5 DEF Advance
    <2> HIDE DEF handle
    <2>2. preview' = [preview EXCEPT !.message = handle, !.chars = preview.next]
        BY <2>1 DEF PreviewShown
    <2>3. preview' \in [message : 0..Len(chat'), chars : Nat, next : Nat]
        BY <1>3, <1>4, <2>2
    <2>4. pc' = "turn" /\ todo' = <<>> /\ first' = 0 /\ attempt' = FirstTry /\ sent' = sent
        BY <2>1 DEF PreviewShown, Begin
    <2> QED
        BY <1>1, <1>2, <1>5, <2>3, <2>4
<1>6. CASE ~(pc = "preview" /\ (Edits \/ Len(todo) = 1)) /\ Len(todo) > 1 /\ pc # "finish"
    <2>1. /\ todo' = Tail(todo) /\ first' = handle /\ attempt' = FirstTry
          /\ UNCHANGED <<pc, sent, preview>>
        BY <1>6 DEF Advance
    <2> QED
        BY <1>1, <1>2, <1>3, <1>4, <1>6, <2>1
<1>7. CASE ~(pc = "preview" /\ (Edits \/ Len(todo) = 1)) /\ ~(Len(todo) > 1 /\ pc # "finish")
    <2>0. pc # "preview"
        BY <1>1, <1>7
    <2>1. preview' = preview
        BY <1>7 DEF Advance
    <2>2. CASE pc = "finish"
        <3>1. IF Len(todo) = 1 THEN Deliver("ok")
              ELSE Begin("answer", Tail(todo)) /\ UNCHANGED sent
            BY <1>7, <2>0, <2>2 DEF Advance
        <3>2. CASE Len(todo) = 1
            <4>1. sent' = "ok" /\ pc' = "files" /\ todo' = <<>> /\ first' = 0 /\ attempt' = FirstTry
                BY <3>1, <3>2 DEF Deliver, Begin
            <4> QED
                BY <1>1, <1>2, <1>3, <2>1, <2>2, <3>2, <4>1
        <3>3. CASE Len(todo) # 1
            <4>1. /\ sent' = sent /\ pc' = "answer" /\ todo' = Tail(todo) /\ first' = 0
                  /\ attempt' = FirstTry
                BY <3>1, <3>3 DEF Begin
            <4> QED
                BY <1>1, <1>2, <1>3, <2>1, <2>2, <4>1
        <3> QED
            BY <3>2, <3>3
    <2>3. CASE pc = "report"
        <3>1. Begin("done", <<>>) /\ UNCHANGED sent
            BY <1>7, <2>0, <2>3 DEF Advance
        <3> QED
            BY <1>1, <1>2, <1>3, <2>1, <2>3, <3>1 DEF Begin
    <2>4. CASE pc = "answer"
        <3>1. Deliver("ok")
            BY <1>7, <2>0, <2>4 DEF Advance
        <3>2. Len(todo) = 1
            <4>1. Len(todo) \in Nat \ {0} /\ ~(Len(todo) > 1)
                BY <1>1, <1>7, <2>4
            <4> QED
                BY <4>1
        <3> QED
            BY <1>1, <1>2, <1>3, <2>1, <2>4, <3>1, <3>2 DEF Deliver, Begin
    <2> QED
        BY <1>1, <2>0, <2>2, <2>3, <2>4
<1> QED
    BY <1>5, <1>6, <1>7

\* Where the call is after a request that was not carried out.
Retries == /\ attempt' \in [plain : BOOLEAN, again : BOOLEAN]
           /\ UNCHANGED <<pc, todo, first, preview, sent>>

LEMMA GiveUpResult ==
    ASSUME FileInv, Requesting, GiveUp
    PROVE  /\ todo' \in Seq(Message)
           /\ attempt' \in [plain : BOOLEAN, again : BOOLEAN]
           /\ first' = 0
           /\ preview' = preview
           /\ \/ pc = "preview" /\ pc' = "turn" /\ sent' = sent
              \/ pc = "finish" /\ pc' = "answer" /\ sent' = sent /\ todo' = Answer
              \/ pc = "answer" /\ pc' = "files" /\ sent' = "failed"
              \/ pc = "report" /\ pc' = "done" /\ sent' = sent
<1>1. pc \in {"preview", "finish", "answer", "report"} /\ size \in 0..(MaxUnits + 1)
    BY DEF FileInv, TypeOK, Requesting
<1>2. FirstTry \in [plain : BOOLEAN, again : BOOLEAN]
    BY DEF FirstTry
<1>3. Answer \in Seq(Message) /\ <<>> \in Seq(Message)
    <2>1. Chunks(size, FALSE) \in Seq(Message)
        BY <1>1, ChunksAreMessages
    <2>2. <<>> \in Seq(Message)
        OBVIOUS
    <2> QED
        BY <2>1, <2>2 DEF Answer
<1>4. CASE pc = "preview"
    BY <1>2, <1>3, <1>4 DEF GiveUp, Begin
<1>5. CASE pc = "finish"
    BY <1>2, <1>3, <1>5 DEF GiveUp, Begin, Answer
<1>6. CASE pc = "answer"
    BY <1>2, <1>3, <1>6 DEF GiveUp, Begin, Deliver
<1>7. CASE pc = "report"
    BY <1>2, <1>3, <1>7 DEF GiveUp, Begin
<1> QED
    BY <1>1, <1>4, <1>5, <1>6, <1>7

LEMMA FailResult ==
    ASSUME FileInv, Requesting, Fail
    PROVE  GiveUp \/ Retries
<1>1. CASE FallsBack
    <2>1. [plain |-> TRUE, again |-> FALSE] \in [plain : BOOLEAN, again : BOOLEAN]
        OBVIOUS
    <2> QED
        BY <1>1, <2>1 DEF Fail, Retries
<1>2. CASE ~FallsBack
    BY <1>2 DEF Fail
<1> QED
    BY <1>1, <1>2

\* What every step of the sink keeps, however the request ended.
LEMMA SinkKeepsFileInv ==
    ASSUME FileInv, Requesting, sinkUnchanged,
           IsSeq(chat'), Len(chat) \in Nat, Len(chat') \in Nat, Len(chat') >= Len(chat),
           \A i \in DOMAIN chat' : chat'[i] \in Message \/ IsUpload(chat'[i]),
           trouble' \in BOOLEAN, todo' \in Seq(Message),
           attempt' \in [plain : BOOLEAN, again : BOOLEAN], first' \in 0..Len(chat'),
           preview' \in [message : 0..Len(chat'), chars : Nat, next : Nat],
           sent' \in {"none", "ok", "failed"},
           \/ pc' = pc /\ preview' = preview
           \/ pc' = pc /\ pc # "finish"
           \/ pc = "preview" /\ pc' = "turn"
           \/ pc \in {"finish", "answer"} /\ pc' \in {"files", "answer"}
           \/ pc = "report" /\ pc' = "done"
    PROVE  FileInv'
<1>1. pc \in {"preview", "finish", "answer", "report"}
    BY DEF Requesting
<1>2. TypeOK'
    <2>1. /\ setting' \in Settings /\ session' \in {"running", "collect", "answered", "failed"}
          /\ size' \in 0..(MaxUnits + 1)
          /\ session' \in {"running", "collect"} => size' <= MaxUnits
          /\ mentioned' \in Mentions \cup {<<>>}
          /\ Len(toExport') + Len(files') <= MaxFiles
          /\ events' \in Seq([size : 1..MaxUnits, final : BOOLEAN])
          /\ Len(events') <= EventRoom /\ stale' \in BOOLEAN
        BY DEF FileInv, TypeOK, sinkUnchanged, sessionVars
    <2>2. pc' \in {"turn", "preview", "ended", "finish", "answer", "report", "files", "speak",
                   "spoken", "done"}
        BY <1>1
    <2>3. pc' = "finish" => preview'.message # 0
        BY <1>1 DEF FileInv, TypeOK
    <2> QED
        BY <2>1, <2>2, <2>3 DEF TypeOK
<1>3. SeqInv'
    BY DEF FileInv, SeqInv, sinkUnchanged, sessionVars
<1>4. TurnInv'
    <2>1. session' = session /\ files' = files /\ toExport' = toExport
        BY DEF sinkUnchanged, sessionVars
    <2> QED
        BY <1>1, <2>1 DEF FileInv, TurnInv
<1>5. TempInv'
    <2>1. files' = files /\ temp' = temp /\ dockerLeft' = dockerLeft /\ session' = session
        BY DEF sinkUnchanged, sessionVars
    <2>2. pc' \in {"speak", "spoken", "done"} => files' = <<>>
        BY <1>1, <2>1 DEF FileInv, TurnInv
    <2>3. temp' \subseteq dockerLeft' \cup ToSet(files')
        BY <1>1, <2>1 DEF FileInv, TempInv
    <2> QED
        BY <2>2, <2>3 DEF TempInv
<1> QED
    BY <1>2, <1>3, <1>4, <1>5 DEF FileInv

LEMMA SinkFileInv == FileInv /\ Sink => FileInv'
<1> SUFFICES ASSUME FileInv, Sink PROVE FileInv'
    OBVIOUS
<1>1. Requesting /\ sinkUnchanged
    BY DEF Sink, RequestAccepted, NotModified, RetryAfter, RequestRefused, AnswerLost
<1>2. pc \in {"preview", "finish", "answer", "report"}
    BY <1>1 DEF Requesting
<1>3. /\ IsSeq(chat) /\ first \in 0..Len(chat) /\ sent \in {"none", "ok", "failed"}
      /\ preview \in [message : 0..Len(chat), chars : Nat, next : Nat]
      /\ todo \in Seq(Message)
      /\ \A i \in DOMAIN chat : chat[i] \in Message \/ IsUpload(chat[i])
    BY DEF FileInv, SeqInv, TypeOK
<1>4. Len(chat) \in Nat /\ DOMAIN chat = 1..Len(chat)
    BY <1>3, AppendSeq
<1>5. ASSUME IsSeq(chat'), Len(chat') \in Nat, Len(chat') >= Len(chat),
             \A i \in DOMAIN chat' : chat'[i] \in Message \/ IsUpload(chat'[i]),
             trouble' \in BOOLEAN, GiveUp \/ Retries
      PROVE  FileInv'
    <2>1. preview' \in [message : 0..Len(chat'), chars : Nat, next : Nat]
        <3>1. preview' = preview
            BY <1>1, <1>5, GiveUpResult DEF Retries
        <3> QED
            BY <1>3, <1>4, <1>5, <3>1
    <2>2. CASE GiveUp
        <3>1. /\ todo' \in Seq(Message) /\ attempt' \in [plain : BOOLEAN, again : BOOLEAN]
              /\ first' \in 0..Len(chat')
            BY <1>1, <1>5, <2>2, GiveUpResult
        <3>2. sent' \in {"none", "ok", "failed"}
            BY <1>1, <1>3, <2>2, GiveUpResult
        <3>3. \/ pc = "preview" /\ pc' = "turn"
              \/ pc \in {"finish", "answer"} /\ pc' \in {"files", "answer"}
              \/ pc = "report" /\ pc' = "done"
            BY <1>1, <2>2, GiveUpResult
        <3> QED
            BY <1>1, <1>4, <1>5, <2>1, <3>1, <3>2, <3>3, SinkKeepsFileInv
    <2>3. CASE Retries
        <3>1. /\ todo' \in Seq(Message) /\ attempt' \in [plain : BOOLEAN, again : BOOLEAN]
              /\ first' \in 0..Len(chat') /\ sent' \in {"none", "ok", "failed"}
              /\ pc' = pc /\ preview' = preview
            BY <1>3, <1>4, <1>5, <2>3 DEF Retries
        <3> QED
            BY <1>1, <1>4, <1>5, <2>1, <3>1, SinkKeepsFileInv
    <2> QED
        BY <1>5, <2>2, <2>3
<1>6. ASSUME IsSeq(chat'), Len(chat') \in Nat, Len(chat') >= Len(chat),
             \A i \in DOMAIN chat' : chat'[i] \in Message \/ IsUpload(chat'[i]),
             trouble' \in BOOLEAN, NEW m \in 1..Len(chat'), Advance(m)
      PROVE  FileInv'
    <2>1. /\ todo' \in Seq(Message)
          /\ attempt' \in [plain : BOOLEAN, again : BOOLEAN]
          /\ first' \in 0..Len(chat')
          /\ preview' \in [message : 0..Len(chat'), chars : Nat, next : Nat]
        BY <1>1, <1>4, <1>6, AdvanceResult
    <2>2. sent' \in {"none", "ok", "failed"}
        BY <1>1, <1>3, <1>4, <1>6, AdvanceResult
    <2>3. \/ pc' = pc /\ pc # "finish"
          \/ pc = "preview" /\ pc' = "turn"
          \/ pc \in {"finish", "answer"} /\ pc' \in {"files", "answer"}
          \/ pc = "report" /\ pc' = "done"
        BY <1>1, <1>4, <1>6, AdvanceResult
    <2> QED
        BY <1>1, <1>4, <1>6, <2>1, <2>2, <2>3, SinkKeepsFileInv
<1>7. trouble' \in BOOLEAN
    <2>1. trouble \in BOOLEAN
        BY DEF FileInv, TypeOK
    <2> QED
        BY <2>1 DEF Sink, RequestAccepted, NotModified, RetryAfter, RequestRefused, AnswerLost
<1>8. CASE RequestAccepted
    BY <1>1, <1>6, <1>7, <1>8, ShowResult DEF RequestAccepted
<1>9. CASE NotModified
    <2>1. preview.message \in 1..Len(chat) /\ chat' = chat
        BY <1>3, <1>9 DEF NotModified, Edits, FileInv, TypeOK
    <2>2. Advance(preview.message) \/ GiveUp
        BY <1>9 DEF NotModified
    <2> QED
        BY <1>3, <1>4, <1>5, <1>6, <1>7, <2>1, <2>2
<1>10. CASE RetryAfter
    <2>1. chat' = chat
        BY <1>10 DEF RetryAfter
    <2>2. Fail \/ Retries
        <3>1. attempt \in [plain : BOOLEAN, again : BOOLEAN]
            BY DEF FileInv, TypeOK
        <3>2. [attempt EXCEPT !.again = TRUE] \in [plain : BOOLEAN, again : BOOLEAN]
            BY <3>1
        <3> QED
            BY <1>10, <3>2 DEF RetryAfter, Retries
    <2> QED
        BY <1>1, <1>3, <1>4, <1>5, <1>7, <2>1, <2>2, FailResult
<1>11. CASE RequestRefused
    BY <1>1, <1>3, <1>4, <1>5, <1>7, <1>11, FailResult DEF RequestRefused
<1>12. CASE AnswerLost
    BY <1>1, <1>5, <1>7, <1>12, FailResult, ShowResult DEF AnswerLost
<1> QED
    BY <1>8, <1>9, <1>10, <1>11, <1>12 DEF Sink

-----------------------------------------------------------------------------
(* The other steps keep the files in order. *)

LEMMA InitFileInv == Init => FileInv
<1> SUFFICES ASSUME Init PROVE FileInv
    OBVIOUS
<1> USE DeliveryAssumption, EmptySeqs
<1>1. FirstTry \in [plain : BOOLEAN, again : BOOLEAN]
    BY DEF FirstTry
<1>2. NoPreview \in [message : 0..0, chars : Nat, next : Nat]
    BY DEF NoPreview
<1>3. <<>> \in Seq(Message) /\ <<>> \in Seq([size : 1..MaxUnits, final : BOOLEAN])
    OBVIOUS
<1>4. TypeOK
    <2>1. Len(toExport) + Len(files) <= MaxFiles /\ Len(events) <= EventRoom
        BY DEF Init
    <2>2. /\ preview \in [message : 0..Len(chat), chars : Nat, next : Nat]
          /\ first \in 0..Len(chat)
        BY <1>2 DEF Init
    <2>3. DOMAIN chat = {}
        BY DEF Init
    <2>4. trouble \in BOOLEAN /\ stale \in BOOLEAN
        BY DEF Init
    <2>5. /\ attempt \in [plain : BOOLEAN, again : BOOLEAN]
          /\ todo \in Seq(Message) /\ events \in Seq([size : 1..MaxUnits, final : BOOLEAN])
        BY <1>1, <1>3 DEF Init
    <2>6. size \in 0..(MaxUnits + 1) /\ size <= MaxUnits
        BY DEF Init
    <2> QED
        BY <2>1, <2>2, <2>3, <2>4, <2>5, <2>6 DEF Init, TypeOK
<1>5. SeqInv /\ TurnInv /\ TempInv
    BY DEF Init, SeqInv, TurnInv, TempInv
<1> QED
    BY <1>4, <1>5 DEF FileInv

\* The file references of a text: at most MaxFiles.
LEMMA FileRefsBounded ==
    ASSUME NEW m, IsSeq(m)
    PROVE  IsSeq(FileRefs(m)) /\ Len(FileRefs(m)) <= MaxFiles
<1> DEFINE firsts == {i \in DOMAIN m : \A j \in 1..(i - 1) : m[j] # m[i]}
           Nth(n) == CHOOSE i \in firsts : Cardinality({j \in firsts : j <= i}) = n
           count == Smaller(MaxFiles, Cardinality(firsts))
<1>1. PICK S : m \in Seq(S)
    BY DEF IsSeq
<1>2. Len(m) \in Nat /\ DOMAIN m = 1..Len(m)
    BY <1>1
<1>3. IsFiniteSet(firsts)
    <2>1. firsts \subseteq 1..Len(m)
        BY <1>2
    <2>2. IsFiniteSet(1..Len(m))
        BY <1>2, FS_Interval
    <2> QED
        BY <2>1, <2>2, FS_Subset
<1>4. Cardinality(firsts) \in Nat
    BY <1>3, FS_CardinalityType
<1>5. count \in Nat /\ count <= MaxFiles
    BY <1>4, DeliveryAssumption DEF Smaller
<1>6. FileRefs(m) = [n \in 1..count |-> m[Nth(n)]]
    BY DEF FileRefs
<1> HIDE DEF count, Nth
<1>7. FileRefs(m) \in Seq({m[Nth(n)] : n \in 1..count})
    <2>1. FileRefs(m) \in [1..count -> {m[Nth(n)] : n \in 1..count}]
        BY <1>6
    <2> QED
        BY <1>5, <2>1, SeqDef
<1>8. DOMAIN FileRefs(m) = 1..count
    BY <1>6
<1>9. Len(FileRefs(m)) = count
    BY <1>5, <1>7, <1>8
<1> QED
    BY <1>5, <1>7, <1>9 DEF IsSeq

\* Emitting an event keeps the channel within its capacity.
LEMMA EmitKeepsTypes ==
    ASSUME FileInv, NEW n \in 1..MaxUnits, NEW final \in BOOLEAN, Emit(n, final)
    PROVE  /\ events' \in Seq([size : 1..MaxUnits, final : BOOLEAN])
           /\ Len(events') <= EventRoom
<1>1. /\ events \in Seq([size : 1..MaxUnits, final : BOOLEAN]) /\ Len(events) <= EventRoom
      /\ EventRoom \in Nat
    BY DeliveryAssumption DEF FileInv, TypeOK
<1>2. [size |-> n, final |-> final] \in [size : 1..MaxUnits, final : BOOLEAN]
    OBVIOUS
<1>3. CASE setting.streaming /\ Len(events) < EventRoom
    <2>1. events' = Append(events, [size |-> n, final |-> final])
        BY <1>3 DEF Emit
    <2>2. /\ events' \in Seq([size : 1..MaxUnits, final : BOOLEAN])
          /\ Len(events') = Len(events) + 1
        BY <1>1, <1>2, <2>1
    <2> QED
        BY <1>1, <1>3, <2>2
<1>4. CASE ~(setting.streaming /\ Len(events) < EventRoom)
    BY <1>1, <1>4 DEF Emit
<1> QED
    BY <1>3, <1>4

LEMMA SessionFileInv == FileInv /\ Session => FileInv'
<1> SUFFICES ASSUME FileInv, Session PROVE FileInv'
    OBVIOUS
<1> USE DeliveryAssumption
<1>1. session \in {"running", "collect"}
    BY DEF Session, SessionOutput, SessionEnds, SessionFails, CollectFile, CollectEnds
<1>2. pc \in {"turn", "preview"} /\ size \in 0..MaxUnits
    BY <1>1 DEF FileInv, TypeOK, TurnInv
<1>3. UNCHANGED <<setting, pc, stale, preview, todo, first, attempt, sent, chat, trouble>>
    BY DEF Session, SessionOutput, SessionEnds, SessionFails, CollectFile, CollectEnds,
           requestVars, historyVars
<1>4. /\ setting' \in Settings /\ pc' \in {"turn", "preview"} /\ stale' \in BOOLEAN
      /\ preview' \in [message : 0..Len(chat'), chars : Nat, next : Nat]
      /\ first' \in 0..Len(chat') /\ attempt' \in [plain : BOOLEAN, again : BOOLEAN]
      /\ sent' \in {"none", "ok", "failed"} /\ todo' \in Seq(Message) /\ trouble' \in BOOLEAN
      /\ \A i \in DOMAIN chat' : chat'[i] \in Message \/ IsUpload(chat'[i])
    BY <1>2, <1>3 DEF FileInv, TypeOK
<1>5. /\ IsSeq(chat') /\ IsSeq(toExport) /\ IsSeq(files)
      /\ Len(toExport) + Len(files) <= MaxFiles
      /\ mentioned \in Mentions \cup {<<>>}
    BY <1>3 DEF FileInv, SeqInv, TypeOK
<1>6. /\ events \in Seq([size : 1..MaxUnits, final : BOOLEAN]) /\ Len(events) <= EventRoom
    BY DEF FileInv, TypeOK
<1>7. temp \subseteq dockerLeft \cup ToSet(files)
    BY <1>2 DEF FileInv, TempInv
<1>8. CASE SessionOutput
    <2>1. size' = size + 1 /\ size' \in 1..MaxUnits /\ session' = "running"
        BY <1>2, <1>8 DEF SessionOutput
    <2>2. events' \in Seq([size : 1..MaxUnits, final : BOOLEAN]) /\ Len(events') <= EventRoom
        <3>1. Emit(size + 1, FALSE)
            BY <1>8, <2>1 DEF SessionOutput
        <3>2. size + 1 \in 1..MaxUnits /\ FALSE \in BOOLEAN
            BY <2>1
        <3> QED
            BY <3>1, <3>2, EmitKeepsTypes
    <2>3. UNCHANGED <<mentioned, toExport, files, temp, dockerLeft>>
        BY <1>8 DEF SessionOutput, historyVars
    <2>4. TypeOK'
        BY <1>4, <1>5, <2>1, <2>2, <2>3 DEF TypeOK
    <2>5. SeqInv' /\ TurnInv' /\ TempInv'
        BY <1>1, <1>4, <1>5, <1>7, <1>8, <2>1, <2>3
           DEF FileInv, SeqInv, TurnInv, TempInv, SessionOutput
    <2> QED
        BY <2>4, <2>5 DEF FileInv
<1>9. CASE SessionEnds
    <2>1. /\ session' = "collect" /\ size' = size /\ files' = files /\ temp' = temp
          /\ dockerLeft' = dockerLeft /\ toExport' = FileRefs(mentioned') /\ files = <<>>
        BY <1>9 DEF SessionEnds, historyVars, FileInv, TurnInv
    <2>2. mentioned' \in Mentions \cup {<<>>}
        BY <1>9 DEF SessionEnds
    <2>3. IsSeq(mentioned')
        <3>1. CASE mentioned' = <<>>
            BY <3>1, EmptySeqs
        <3>2. CASE mentioned' \in Mentions
            BY <3>2 DEF IsSeq
        <3> QED
            BY <2>2, <3>1, <3>2
    <2>4. IsSeq(toExport') /\ Len(toExport') <= MaxFiles
        BY <2>1, <2>3, FileRefsBounded
    <2>5. Len(toExport') + Len(files') <= MaxFiles
        <3>1. Len(toExport') \in Nat
            BY <2>4, AppendSeq
        <3> QED
            BY <2>1, <2>4, <3>1, EmptySeqs
    <2>6. events' \in Seq([size : 1..MaxUnits, final : BOOLEAN]) /\ Len(events') <= EventRoom
        <3>1. CASE size = 0
            BY <1>6, <1>9, <3>1 DEF SessionEnds
        <3>2. CASE size # 0
            <4>1. Emit(size, TRUE)
                BY <1>9, <3>2 DEF SessionEnds
            <4>2. size \in 1..MaxUnits /\ TRUE \in BOOLEAN
                BY <1>2, <3>2
            <4> QED
                BY <4>1, <4>2, EmitKeepsTypes
        <3> QED
            BY <3>1, <3>2
    <2>7. TypeOK'
        BY <1>2, <1>4, <2>1, <2>2, <2>5, <2>6 DEF TypeOK
    <2>8. SeqInv' /\ TurnInv' /\ TempInv'
        BY <1>4, <1>5, <1>7, <2>1, <2>4 DEF SeqInv, TurnInv, TempInv
    <2> QED
        BY <2>7, <2>8 DEF FileInv
<1>10. CASE SessionFails
    <2>1. /\ session = "running" /\ session' = "failed"
          /\ UNCHANGED <<size, mentioned, toExport, files, events, temp, dockerLeft>>
        BY <1>10 DEF SessionFails, historyVars
    <2>2. TypeOK'
        BY <1>2, <1>4, <1>5, <1>6, <2>1 DEF TypeOK
    <2>3. SeqInv' /\ TurnInv' /\ TempInv'
        BY <1>4, <1>5, <1>7, <2>1 DEF FileInv, SeqInv, TurnInv, TempInv
    <2> QED
        BY <2>2, <2>3 DEF FileInv
<1>11. CASE CollectFile
    <2>1. /\ session = "collect" /\ session' = "collect" /\ toExport # <<>>
          /\ toExport' = Tail(toExport) /\ UNCHANGED <<size, mentioned, events>>
        BY <1>11 DEF CollectFile
    <2>2. PICK f : ExportRefused(f) \/ CopyFails(f) \/ NotAFile(f) \/ GrewTooLarge(f) \/ Exported(f)
        BY <1>11 DEF CollectFile
    <2>3. /\ IsSeq(toExport') /\ Len(toExport) \in Nat \ {0}
          /\ Len(toExport') = Len(toExport) - 1
        BY <1>5, <2>1, TailSeq
    <2>4. Len(files) \in Nat
        BY <1>5, AppendSeq
    <2>5. /\ IsSeq(files') /\ Len(files') \in Nat /\ Len(files') <= Len(files) + 1
          /\ temp' \subseteq dockerLeft' \cup ToSet(files')
        <3>1. CASE Exported(f)
            <4>1. files' = Append(files, f) /\ temp' = temp \cup {f} /\ dockerLeft' = dockerLeft
                BY <3>1 DEF Exported
            <4>2. /\ IsSeq(files') /\ Len(files') = Len(files) + 1
                  /\ ToSet(files') = ToSet(files) \cup {f}
                BY <1>5, <4>1, AppendSeq
            <4> QED
                BY <1>7, <2>4, <4>1, <4>2
        <3>2. CASE ~Exported(f)
            <4>1. PICK left : NotAttached(f, left)
                BY <2>2, <3>2 DEF ExportRefused, CopyFails, NotAFile, GrewTooLarge
            <4>2. files' = files /\ temp' = temp \cup left /\ dockerLeft' = dockerLeft \cup left
                BY <4>1 DEF NotAttached
            <4> QED
                BY <1>5, <1>7, <2>4, <4>2
        <3> QED
            BY <3>1, <3>2
    <2>6. Len(toExport') + Len(files') <= MaxFiles
        BY <1>5, <2>3, <2>4, <2>5
    <2>7. TypeOK'
        BY <1>2, <1>4, <1>5, <1>6, <2>1, <2>6 DEF TypeOK
    <2>8. SeqInv' /\ TurnInv' /\ TempInv'
        BY <1>4, <1>5, <2>1, <2>3, <2>5 DEF SeqInv, TurnInv, TempInv
    <2> QED
        BY <2>7, <2>8 DEF FileInv
<1>12. CASE CollectEnds
    <2>1. /\ session' = "answered" /\ toExport = <<>>
          /\ UNCHANGED <<mentioned, toExport, files, events, temp, dockerLeft>>
        BY <1>12 DEF CollectEnds, historyVars
    <2>2. size' \in 0..(MaxUnits + 1)
        BY <1>2, <1>12 DEF CollectEnds
    <2>3. TypeOK'
        BY <1>4, <1>5, <1>6, <2>1, <2>2 DEF TypeOK
    <2>4. SeqInv' /\ TurnInv' /\ TempInv'
        BY <1>4, <1>5, <1>7, <2>1 DEF FileInv, SeqInv, TurnInv, TempInv
    <2> QED
        BY <2>3, <2>4 DEF FileInv
<1> QED
    BY <1>8, <1>9, <1>10, <1>11, <1>12 DEF Session

LEMMA PreviewTypes ==
    ASSUME setting \in Settings, NEW n \in 1..MaxUnits
    PROVE  /\ PreviewOf(n) \in Seq(Message) /\ PreviewOf(n) # <<>>
           /\ SubSeq(PreviewOf(n), 1, 1) \in Seq(Message)
           /\ PreviewChars(n) \in Nat
<1> USE DeliveryAssumption
<1>1. setting.keep \in Nat \ {0} /\ MaxUnits \in Nat
    OBVIOUS
<1>2. Smaller(n, setting.keep) \in 1..(MaxUnits + 1)
    BY <1>1 DEF Smaller
<1>3. (n > setting.keep) \in BOOLEAN
    OBVIOUS
<1>4. PreviewOf(n) \in Seq(Message) /\ PreviewOf(n) # <<>>
    <2> DEFINE shown == Smaller(n, setting.keep)
               cut == n > setting.keep
    <2>1. PreviewOf(n) = Chunks(shown, cut)
        BY DEF PreviewOf
    <2>2. shown \in 0..(MaxUnits + 1) /\ shown # 0 /\ cut \in BOOLEAN
        BY <1>1, <1>2, <1>3
    <2> HIDE DEF shown, cut
    <2> QED
        BY <2>1, <2>2, ChunksAreMessages
<1>5. SubSeq(PreviewOf(n), 1, 1) \in Seq(Message)
    <2>1. Len(PreviewOf(n)) \in Nat \ {0}
        BY <1>4
    <2> QED
        BY <1>4, <2>1
<1> QED
    BY <1>1, <1>4, <1>5 DEF PreviewChars

LEMMA StreamEventFileInv == FileInv /\ StreamEvent => FileInv'
<1> SUFFICES ASSUME FileInv, StreamEvent PROVE FileInv'
    OBVIOUS
<1>1. /\ UNCHANGED <<setting, session, size, mentioned, toExport, files, stale, sent, chat, temp,
                     trouble, dockerLeft>>
      /\ pc = "turn" /\ events # <<>> /\ events' = Tail(events)
    BY DEF StreamEvent, workerUnchanged, sessionVars
<1>2. /\ setting \in Settings /\ events \in Seq([size : 1..MaxUnits, final : BOOLEAN])
      /\ Len(events) <= EventRoom /\ EventRoom \in Nat
    BY DeliveryAssumption DEF FileInv, TypeOK
<1>3. /\ events' \in Seq([size : 1..MaxUnits, final : BOOLEAN]) /\ Len(events') <= EventRoom
      /\ Head(events).size \in 1..MaxUnits
    <2> DEFINE E == [size : 1..MaxUnits, final : BOOLEAN]
    <2>1. events \in Seq(E) /\ events # <<>> /\ events' = Tail(events)
        BY <1>1, <1>2
    <2>2. \A e \in E : e.size \in 1..MaxUnits
        OBVIOUS
    <2> HIDE DEF E
    <2>3. Tail(events) \in Seq(E) /\ Len(Tail(events)) = Len(events) - 1 /\ Head(events) \in E
          /\ Len(events) \in Nat
        BY <2>1
    <2>4. Tail(events) \in Seq([size : 1..MaxUnits, final : BOOLEAN])
        BY <2>3 DEF E
    <2> QED
        BY <1>2, <2>1, <2>2, <2>3, <2>4
<1>4. /\ pc' \in {"turn", "preview"}
      /\ todo' \in Seq(Message) /\ first' \in 0..Len(chat')
      /\ attempt' \in [plain : BOOLEAN, again : BOOLEAN]
      /\ preview' \in [message : 0..Len(chat'), chars : Nat, next : Nat]
    <2>1. /\ preview \in [message : 0..Len(chat), chars : Nat, next : Nat]
          /\ todo \in Seq(Message) /\ first \in 0..Len(chat)
          /\ attempt \in [plain : BOOLEAN, again : BOOLEAN]
        BY DEF FileInv, TypeOK
    <2>2. CASE UNCHANGED <<pc, requestVars, preview>>
        BY <1>1, <2>1, <2>2 DEF requestVars
    <2>3. CASE ~UNCHANGED <<pc, requestVars, preview>>
        <3> DEFINE n == Head(events).size
        <3>1. /\ Begin("preview", IF preview.message = 0 THEN PreviewOf(n)
                                  ELSE SubSeq(PreviewOf(n), 1, 1))
              /\ preview' = [preview EXCEPT !.next = PreviewChars(n)]
            BY <2>3 DEF StreamEvent
        <3> HIDE DEF n
        <3>2. /\ PreviewOf(n) \in Seq(Message) /\ SubSeq(PreviewOf(n), 1, 1) \in Seq(Message)
              /\ PreviewChars(n) \in Nat
            BY <1>2, <1>3, PreviewTypes DEF n
        <3>3. preview' \in [message : 0..Len(chat'), chars : Nat, next : Nat]
            BY <1>1, <2>1, <3>1, <3>2
        <3>4. /\ pc' = "preview" /\ todo' \in Seq(Message) /\ first' = 0
              /\ attempt' = FirstTry
            BY <3>1, <3>2 DEF Begin
        <3>5. FirstTry \in [plain : BOOLEAN, again : BOOLEAN]
            BY DEF FirstTry
        <3>6. first' \in 0..Len(chat')
            BY <1>1, <2>1, <3>4
        <3> QED
            BY <3>3, <3>4, <3>5, <3>6
    <2> QED
        BY <2>2, <2>3
<1>5. TypeOK'
    BY <1>1, <1>3, <1>4 DEF FileInv, TypeOK
<1>6. SeqInv' /\ TurnInv' /\ TempInv'
    BY <1>1, <1>4 DEF FileInv, SeqInv, TurnInv, TempInv
<1> QED
    BY <1>5, <1>6 DEF FileInv

\* Deliver and Begin give the next call what it needs.
LEMMA BeginTypes ==
    ASSUME FileInv, NEW call, NEW texts \in Seq(Message), Begin(call, texts),
           UNCHANGED <<chat, preview>>
    PROVE  /\ pc' = call /\ todo' = texts /\ first' \in 0..Len(chat')
           /\ attempt' \in [plain : BOOLEAN, again : BOOLEAN]
           /\ preview' \in [message : 0..Len(chat'), chars : Nat, next : Nat]
           /\ \A i \in DOMAIN chat' : chat'[i] \in Message \/ IsUpload(chat'[i])
           /\ IsSeq(chat')
<1>1. FirstTry \in [plain : BOOLEAN, again : BOOLEAN]
    BY DEF FirstTry
<1>2. first \in 0..Len(chat) /\ IsSeq(chat)
    BY DEF FileInv, TypeOK, SeqInv
<1>3. Len(chat) \in Nat
    BY <1>2, AppendSeq
<1>4. first' \in 0..Len(chat')
    BY <1>3 DEF Begin
<1> QED
    BY <1>1, <1>2, <1>4 DEF FileInv, TypeOK, Begin

LEMMA BeginAnswerFileInv == FileInv /\ BeginAnswer => FileInv'
<1> SUFFICES ASSUME FileInv, BeginAnswer PROVE FileInv'
    OBVIOUS
<1>1. /\ UNCHANGED <<setting, session, size, mentioned, toExport, files, events, stale, chat,
                     preview, temp, trouble, dockerLeft>>
      /\ pc = "ended"
    BY DEF BeginAnswer, workerUnchanged, sessionVars
<1>2. session \in {"answered", "failed"}
    BY <1>1 DEF FileInv, TurnInv
<1>3. FailureText \in Message /\ <<FailureText>> \in Seq(Message) /\ <<>> \in Seq(Message)
    <2>1. FailureText \in Message
        BY DeliveryAssumption DEF FailureText, Message
    <2>2. <<>> \in Seq(Message)
        OBVIOUS
    <2> QED
        BY <2>1, <2>2
<1>4. Answer \in Seq(Message)
    <2>1. size \in 0..(MaxUnits + 1) /\ FALSE \in BOOLEAN
        BY DEF FileInv, TypeOK
    <2> QED
        BY <2>1, ChunksAreMessages DEF Answer
<1>5. PICK call \in {"report", "files", "answer", "finish"}, texts \in Seq(Message) :
          /\ Begin(call, texts)
          /\ sent' = sent \/ sent' = "ok"
          /\ call = "report" => session = "failed"
          /\ call = "finish" => preview.message # 0
    <2>1. CASE session = "failed"
        <3>1. Begin("report", <<FailureText>>) /\ sent' = sent
            BY <2>1 DEF BeginAnswer
        <3> QED
            BY <1>3, <2>1, <3>1
    <2>2. CASE session = "answered" /\ size = 0
        <3>1. Begin("files", <<>>) /\ sent' = "ok"
            BY <2>2 DEF BeginAnswer, Deliver
        <3> QED
            BY <1>3, <3>1
    <2>3. CASE session = "answered" /\ size # 0
        <3>1. Begin(IF preview.message = 0 THEN "answer" ELSE "finish", Answer) /\ sent' = sent
            BY <2>3 DEF BeginAnswer, Answer
        <3>2. CASE preview.message = 0
            BY <1>4, <3>1, <3>2
        <3>3. CASE preview.message # 0
            BY <1>4, <3>1, <3>3
        <3> QED
            BY <3>2, <3>3
    <2> QED
        BY <1>2, <2>1, <2>2, <2>3
<1>6. /\ pc' = call /\ todo' = texts /\ first' \in 0..Len(chat')
      /\ attempt' \in [plain : BOOLEAN, again : BOOLEAN]
      /\ preview' \in [message : 0..Len(chat'), chars : Nat, next : Nat]
      /\ \A i \in DOMAIN chat' : chat'[i] \in Message \/ IsUpload(chat'[i])
      /\ IsSeq(chat')
    BY <1>1, <1>5, BeginTypes
<1>7. TypeOK'
    <2>1. sent' \in {"none", "ok", "failed"}
        BY <1>5 DEF FileInv, TypeOK
    <2>2. pc' = "finish" => preview'.message # 0
        BY <1>1, <1>5, <1>6
    <2> QED
        BY <1>1, <1>5, <1>6, <2>1, <2>2 DEF FileInv, TypeOK
<1>8. SeqInv' /\ TurnInv'
    BY <1>1, <1>2, <1>5, <1>6 DEF FileInv, SeqInv, TurnInv
<1>9. TempInv'
    BY <1>1, <1>5, <1>6 DEF FileInv, TempInv
<1> QED
    BY <1>7, <1>8, <1>9 DEF FileInv

LEMMA SendFileFileInv == FileInv /\ SendFile => FileInv'
<1> SUFFICES ASSUME FileInv, SendFile PROVE FileInv'
    OBVIOUS
<1>1. /\ UNCHANGED <<setting, session, size, mentioned, toExport, events, pc, stale, preview,
                     todo, first, attempt, sent, trouble, dockerLeft>>
      /\ pc = "files" /\ files # <<>> /\ files' = Tail(files)
      /\ temp' = temp \ {Head(files)}
      /\ chat' = chat \/ chat' = Append(chat, Document(Head(files)))
    BY DEF SendFile, workerUnchanged, sessionVars, requestVars
<1>2. IsSeq(files) /\ IsSeq(chat) /\ IsSeq(toExport)
    BY DEF FileInv, SeqInv
<1>3. /\ IsSeq(files') /\ Len(files) \in Nat \ {0} /\ Len(files') = Len(files) - 1
      /\ ToSet(files) = ToSet(files') \cup {Head(files)}
    BY <1>1, <1>2, TailSeq
<1>4. /\ IsSeq(chat') /\ Len(chat) \in Nat /\ Len(chat') \in Nat /\ Len(chat') >= Len(chat)
      /\ \A i \in DOMAIN chat' : chat'[i] \in Message \/ IsUpload(chat'[i])
    <2>1. \A i \in DOMAIN chat : chat[i] \in Message \/ IsUpload(chat[i])
        BY DEF FileInv, TypeOK
    <2>2. IsUpload(Document(Head(files)))
        BY DEF IsUpload, Document
    <2>3. CASE chat' = chat
        BY <1>2, <2>1, <2>3, AppendSeq
    <2>4. CASE chat' = Append(chat, Document(Head(files)))
        <3>1. /\ IsSeq(chat') /\ Len(chat) \in Nat /\ Len(chat') = Len(chat) + 1
              /\ DOMAIN chat = 1..Len(chat) /\ DOMAIN chat' = 1..(Len(chat) + 1)
              /\ \A i \in 1..Len(chat) : chat'[i] = chat[i]
              /\ chat'[Len(chat) + 1] = Document(Head(files))
            BY <1>2, <2>4, AppendSeq
        <3> QED
            BY <2>1, <2>2, <3>1
    <2> QED
        BY <1>1, <2>3, <2>4
<1>5. Len(toExport) \in Nat
    BY <1>2, AppendSeq
<1>6. Len(toExport') + Len(files') <= MaxFiles
    <2>1. Len(toExport) + Len(files) <= MaxFiles /\ MaxFiles \in Nat
        BY DeliveryAssumption DEF FileInv, TypeOK
    <2> QED
        BY <1>1, <1>3, <1>5, <2>1
<1>7. /\ preview' \in [message : 0..Len(chat'), chars : Nat, next : Nat]
      /\ first' \in 0..Len(chat')
    <2>1. /\ preview \in [message : 0..Len(chat), chars : Nat, next : Nat]
          /\ first \in 0..Len(chat)
        BY DEF FileInv, TypeOK
    <2> QED
        BY <1>1, <1>4, <2>1
<1>8. TypeOK'
    BY <1>1, <1>4, <1>6, <1>7 DEF FileInv, TypeOK
<1>9. SeqInv' /\ TurnInv' /\ TempInv'
    <2>1. temp' \subseteq dockerLeft' \cup ToSet(files')
        BY <1>1, <1>3 DEF FileInv, TempInv
    <2>2. session' # "failed" /\ session' # "running"
        BY <1>1 DEF FileInv, TurnInv
    <2> QED
        BY <1>1, <1>2, <1>3, <1>4, <2>1, <2>2 DEF FileInv, SeqInv, TurnInv, TempInv
<1> QED
    BY <1>8, <1>9 DEF FileInv

\* The worker's other steps.
LEMMA WorkerFileInv ==
    FileInv /\ (TurnEnds \/ SuppressAnswer \/ FilesSent \/ Speak \/ SendSpeech) => FileInv'
<1> SUFFICES ASSUME FileInv,
                    TurnEnds \/ SuppressAnswer \/ FilesSent \/ Speak \/ SendSpeech
             PROVE  FileInv'
    OBVIOUS
<1> USE DEF workerUnchanged, sessionVars, requestVars
<1>1. UNCHANGED <<setting, session, size, mentioned, toExport, events, stale, preview,
                  todo, first, attempt, sent, trouble, dockerLeft>>
    BY DEF TurnEnds, SuppressAnswer, FilesSent, Speak, SendSpeech
<1>2. pc' \in {"ended", "done", "speak", "spoken"}
    BY DEF TurnEnds, SuppressAnswer, FilesSent, Speak, SendSpeech
<1>3. IsSeq(files) /\ IsSeq(chat) /\ IsSeq(toExport)
    BY DEF FileInv, SeqInv
<1>4. /\ IsSeq(chat') /\ Len(chat) \in Nat /\ Len(chat') \in Nat /\ Len(chat') >= Len(chat)
      /\ \A i \in DOMAIN chat' : chat'[i] \in Message \/ IsUpload(chat'[i])
    <2>1. \A i \in DOMAIN chat : chat[i] \in Message \/ IsUpload(chat[i])
        BY DEF FileInv, TypeOK
    <2>2. CASE chat' = chat
        BY <1>3, <2>1, <2>2, AppendSeq
    <2>3. CASE chat' = Append(chat, Speech)
        <3>1. /\ IsSeq(chat') /\ Len(chat) \in Nat /\ Len(chat') = Len(chat) + 1
              /\ DOMAIN chat = 1..Len(chat) /\ DOMAIN chat' = 1..(Len(chat) + 1)
              /\ \A i \in 1..Len(chat) : chat'[i] = chat[i]
              /\ chat'[Len(chat) + 1] = Speech
            BY <1>3, <2>3, AppendSeq
        <3> QED
            BY <2>1, <3>1 DEF IsUpload
    <2>4. chat' = chat \/ chat' = Append(chat, Speech)
        BY DEF TurnEnds, SuppressAnswer, FilesSent, Speak, SendSpeech
    <2> QED
        BY <2>2, <2>3, <2>4
<1>5. /\ IsSeq(files') /\ Len(files') \in Nat /\ Len(files') <= Len(files)
      /\ files' \in {files, <<>>}
    <2>1. files' \in {files, <<>>}
        BY DEF TurnEnds, SuppressAnswer, FilesSent, Speak, SendSpeech, RemoveFiles
    <2>2. Len(files) \in Nat
        BY <1>3, AppendSeq
    <2> QED
        BY <1>3, <2>1, <2>2, EmptySeqs
<1>6. Len(toExport') + Len(files') <= MaxFiles
    <2>1. /\ Len(toExport) + Len(files) <= MaxFiles /\ MaxFiles \in Nat
          /\ Len(toExport) \in Nat /\ Len(files) \in Nat
        BY <1>3, AppendSeq, DeliveryAssumption DEF FileInv, TypeOK
    <2> QED
        BY <1>1, <1>5, <2>1
<1>7. /\ preview' \in [message : 0..Len(chat'), chars : Nat, next : Nat]
      /\ first' \in 0..Len(chat')
    <2>1. /\ preview \in [message : 0..Len(chat), chars : Nat, next : Nat]
          /\ first \in 0..Len(chat)
        BY DEF FileInv, TypeOK
    <2> QED
        BY <1>1, <1>4, <2>1
<1>8. TypeOK'
    BY <1>1, <1>2, <1>4, <1>6, <1>7 DEF FileInv, TypeOK
<1>9. SeqInv'
    BY <1>1, <1>3, <1>4, <1>5 DEF SeqInv
<1>10. TurnInv'
    <2>1. session \in {"answered", "failed"}
        BY DEF FileInv, TurnInv, TurnEnds, SuppressAnswer, FilesSent, Speak, SendSpeech
    <2> QED
        BY <1>1, <1>2, <1>5, <2>1 DEF FileInv, TurnInv
<1>11. TempInv'
    <2>1. CASE TurnEnds
        BY <2>1, <1>1 DEF TurnEnds, FileInv, TempInv
    <2>2. CASE SuppressAnswer
        BY <2>2, <1>1, EmptySeqs DEF SuppressAnswer, RemoveFiles, FileInv, TempInv
    <2>3. CASE FilesSent
        BY <2>3, <1>1 DEF FilesSent, FileInv, TempInv
    <2>4. CASE Speak
        <3>1. files = <<>> /\ files' = files /\ temp \subseteq dockerLeft \cup ToSet(files)
            BY <2>4 DEF Speak, FileInv, TempInv
        <3>2. CASE pc' = "done" /\ temp' = temp
            BY <1>1, <3>1, <3>2 DEF TempInv
        <3>3. CASE pc' = "spoken" /\ temp' = temp \cup {Speech}
            BY <1>1, <3>1, <3>3 DEF TempInv
        <3> QED
            BY <2>4, <3>2, <3>3 DEF Speak
    <2>5. CASE SendSpeech
        <3>1. /\ files = <<>> /\ files' = files /\ pc' = "done" /\ temp' = temp \ {Speech}
              /\ temp \subseteq dockerLeft \cup ToSet(files) \cup {Speech}
            BY <2>5 DEF SendSpeech, FileInv, TempInv
        <3> QED
            BY <1>1, <3>1 DEF TempInv
    <2> QED
        BY <2>1, <2>2, <2>3, <2>4, <2>5
<1> QED
    BY <1>8, <1>9, <1>10, <1>11 DEF FileInv

LEMMA NextFileInv == FileInv /\ [Next]_vars => FileInv'
<1> SUFFICES ASSUME FileInv, [Next]_vars PROVE FileInv'
    OBVIOUS
<1>1. CASE Session
    BY <1>1, SessionFileInv
<1>2. CASE Worker
    BY <1>2, SinkFileInv, StreamEventFileInv, BeginAnswerFileInv, SendFileFileInv, WorkerFileInv
       DEF Worker
<1>3. CASE Replaced
    <2>1. TypeOK'
        BY <1>3 DEF Replaced, FileInv, TypeOK, sessionVars, requestVars, historyVars
    <2>2. SeqInv' /\ TurnInv' /\ TempInv'
        BY <1>3 DEF Replaced, FileInv, SeqInv, TurnInv, TempInv, sessionVars, requestVars,
                    historyVars
    <2> QED
        BY <2>1, <2>2 DEF FileInv
<1>4. CASE UNCHANGED vars
    <2>1. TypeOK'
        BY <1>4 DEF vars, FileInv, TypeOK, sessionVars, requestVars, historyVars
    <2>2. SeqInv' /\ TurnInv' /\ TempInv'
        BY <1>4 DEF vars, FileInv, SeqInv, TurnInv, TempInv, sessionVars, requestVars, historyVars
    <2> QED
        BY <2>1, <2>2 DEF FileInv
<1> QED
    BY <1>1, <1>2, <1>3, <1>4 DEF Next

\* Types, for any settings, limits and files.
THEOREM TypeCorrect == Spec => []TypeOK
<1>1. FileInv => TypeOK
    BY DEF FileInv
<1> QED
    BY <1>1, InitFileInv, NextFileInv, PTL DEF Spec

\* The daemon leaves nothing of a turn on the host but what docker cp wrote in an
\* export that failed, however many files there are and whatever fails.
THEOREM OnlyDockerLeavesFilesHolds == Spec => []OnlyDockerLeavesFiles
<1>1. FileInv => OnlyDockerLeavesFiles
    BY EmptySeqs DEF FileInv, TempInv, OnlyDockerLeavesFiles
<1> QED
    BY <1>1, InitFileInv, NextFileInv, PTL DEF Spec

-----------------------------------------------------------------------------
(* What is spoken comes after what is written. *)

\* Without speech in the chat there is nothing to show.
LEMMA SilentChat ==
    ASSUME Speech \notin ToSet(chat)
    PROVE  SpeechInv /\ SpokenAfterText
BY DEF SpeechInv, SpokenAfterText, ToSet

LEMMA InitAnswerInv == Init => AnswerShownInv
<1> SUFFICES ASSUME Init PROVE AnswerShownInv
    OBVIOUS
<1>1. Speech \notin ToSet(chat)
    BY EmptySeqs DEF Init
<1>2. AnswerInv
    BY DEF Init, AnswerInv
<1> QED
    BY <1>1, <1>2, InitFileInv, SilentChat DEF AnswerShownInv

\* A request that was carried out: its message needs not be sent again.
LEMMA AdvanceAnswerInv ==
    ASSUME AnswerShownInv, Requesting, size' = size, NEW m \in 1..Len(chat'),
           Len(chat') \in Nat, Len(chat) \in Nat, Len(chat') >= Len(chat), Advance(m),
           Head(todo) \in ToSet(chat'),
           pc = "answer" => ToSet(chat) \subseteq ToSet(chat')
    PROVE  AnswerInv'
<1>1. FileInv /\ AnswerInv
    BY DEF AnswerShownInv
<1>2. todo \in Seq(Message) /\ todo # <<>>
    BY <1>1 DEF FileInv, TypeOK, Requesting
<1>3. /\ ToSet(todo) = ToSet(Tail(todo)) \cup {Head(todo)}
      /\ Len(todo) = 1 => ToSet(Tail(todo)) = {}
    <2>1. IsSeq(todo)
        BY <1>2 DEF IsSeq
    <2>2. Len(todo) = 1 => Tail(todo) = <<>>
        <3>1. Tail(todo) \in Seq(Message) /\ Len(Tail(todo)) = Len(todo) - 1
            BY <1>2
        <3>2. Tail(todo) # <<>> => Len(Tail(todo)) # 0
            BY <3>1, EmptySeq
        <3>3. Len(todo) = 1 => Len(Tail(todo)) = 0
            BY <3>1
        <3> QED
            BY <3>2, <3>3
    <2> QED
        BY <1>2, <2>1, <2>2, TailSeq, EmptySeqs
<1>4. Answer' = Answer
    BY DEF Answer, Chunks
<1>5. \/ pc = "preview" /\ pc' = "turn"
      \/ pc \in {"preview", "answer", "report"} /\ pc' = pc /\ todo' = Tail(todo)
      \/ pc = "finish" /\ pc' = "files" /\ Len(todo) = 1
      \/ pc = "finish" /\ pc' = "answer" /\ todo' = Tail(todo)
      \/ pc = "report" /\ pc' = "done"
      \/ pc = "answer" /\ pc' = "files" /\ Len(todo) = 1
    BY <1>1, AdvanceResult
<1>6. CASE pc' \in {"turn", "done"} \/ (pc' = pc /\ pc \in {"preview", "report"})
    BY <1>6 DEF AnswerInv
<1>7. CASE pc = "answer"
    <2>1. \A c \in DOMAIN Answer : Answer[c] \in ToSet(Tail(todo)) \cup ToSet(chat')
        BY <1>1, <1>3, <1>7 DEF AnswerInv
    <2>2. CASE pc' = "answer"
        BY <1>4, <1>5, <1>7, <2>1, <2>2 DEF AnswerInv
    <2>3. CASE pc' = "files"
        BY <1>3, <1>4, <1>5, <1>7, <2>1, <2>3 DEF AnswerInv
    <2> QED
        BY <1>5, <1>7, <2>2, <2>3
<1>8. CASE pc = "finish"
    <2>1. \A c \in DOMAIN Answer : Answer[c] \in ToSet(Tail(todo)) \cup ToSet(chat')
        BY <1>1, <1>3, <1>8 DEF AnswerInv
    <2>2. CASE pc' = "answer"
        BY <1>4, <1>5, <1>8, <2>1, <2>2 DEF AnswerInv
    <2>3. CASE pc' = "files"
        BY <1>3, <1>4, <1>5, <1>8, <2>1, <2>3 DEF AnswerInv
    <2> QED
        BY <1>5, <1>8, <2>2, <2>3
<1> QED
    BY <1>5, <1>6, <1>7, <1>8

\* A request that failed, though it may have been carried out.
LEMMA FailAnswerInv ==
    ASSUME AnswerShownInv, Requesting, size' = size, GiveUp \/ Retries,
           pc = "answer" => ToSet(chat) \subseteq ToSet(chat')
    PROVE  AnswerInv'
<1>1. FileInv /\ AnswerInv
    BY DEF AnswerShownInv
<1>2. Answer' = Answer
    BY DEF Answer, Chunks
<1>3. CASE GiveUp
    <2>1. \/ pc = "preview" /\ pc' = "turn"
          \/ pc = "finish" /\ pc' = "answer" /\ todo' = Answer
          \/ pc = "answer" /\ pc' = "files" /\ sent' = "failed"
          \/ pc = "report" /\ pc' = "done"
        BY <1>1, <1>3, GiveUpResult
    <2>2. \A c \in DOMAIN Answer : Answer[c] \in ToSet(Answer)
        BY DEF ToSet
    <2> QED
        BY <1>2, <2>1, <2>2 DEF AnswerInv
<1>4. CASE Retries
    <2>1. pc' = pc /\ todo' = todo /\ pc \in {"preview", "finish", "answer", "report"}
        BY <1>4 DEF Retries, Requesting
    <2> QED
        BY <1>1, <1>2, <2>1 DEF AnswerInv
<1> QED
    BY <1>3, <1>4

LEMMA SinkAnswerInv == AnswerShownInv /\ Sink => AnswerShownInv'
<1> SUFFICES ASSUME AnswerShownInv, Sink PROVE AnswerShownInv'
    OBVIOUS
<1>1. /\ Requesting /\ size' = size
      /\ pc \in {"preview", "finish", "answer", "report"}
    BY DEF Sink, RequestAccepted, NotModified, RetryAfter, RequestRefused, AnswerLost, Requesting,
           sinkUnchanged, sessionVars
<1>2. FileInv /\ Speech \notin ToSet(chat)
    BY <1>1 DEF AnswerShownInv, SpeechInv
<1>3. IsSeq(chat) /\ Len(chat) \in Nat /\ DOMAIN chat = 1..Len(chat)
    BY <1>2, AppendSeq DEF FileInv, SeqInv
<1>4. FileInv'
    BY <1>2, SinkFileInv
<1>5. pc = "answer" => ~Edits
    BY DEF Edits
<1>6. AnswerInv' /\ Speech \notin ToSet(chat')
    <2>1. CASE RequestAccepted
        BY <1>1, <1>2, <1>5, <2>1, ShowResult, AdvanceAnswerInv DEF RequestAccepted
    <2>2. CASE NotModified
        <3>1. /\ chat' = chat /\ Edits /\ chat[preview.message] = Head(todo)
              /\ Advance(preview.message) \/ GiveUp
            BY <2>2 DEF NotModified
        <3>2. preview.message \in 1..Len(chat)
            BY <1>2, <1>3, <3>1 DEF Edits, FileInv, TypeOK
        <3>3. Head(todo) \in ToSet(chat)
            BY <1>3, <3>1, <3>2 DEF ToSet
        <3>4. AnswerInv'
            BY <1>1, <1>3, <3>1, <3>2, <3>3, AdvanceAnswerInv, FailAnswerInv
        <3> QED
            BY <1>2, <3>1, <3>4
    <2>3. CASE RetryAfter
        <3>1. chat' = chat /\ (Fail \/ Retries)
            <4>1. attempt \in [plain : BOOLEAN, again : BOOLEAN]
                BY <1>2 DEF FileInv, TypeOK
            <4>2. [attempt EXCEPT !.again = TRUE] \in [plain : BOOLEAN, again : BOOLEAN]
                BY <4>1
            <4> QED
                BY <2>3, <4>2 DEF RetryAfter, Retries
        <3> QED
            BY <1>1, <1>2, <3>1, FailResult, FailAnswerInv
    <2>4. CASE RequestRefused
        BY <1>1, <1>2, <2>4, FailResult, FailAnswerInv DEF RequestRefused
    <2>5. CASE AnswerLost
        BY <1>1, <1>2, <1>5, <2>5, ShowResult, FailResult, FailAnswerInv DEF AnswerLost
    <2> QED
        BY <2>1, <2>2, <2>3, <2>4, <2>5 DEF Sink
<1>7. SpeechInv' /\ SpokenAfterText'
    BY <1>6, SilentChat DEF SpeechInv, SpokenAfterText, ToSet
<1> QED
    BY <1>4, <1>6, <1>7 DEF AnswerShownInv

LEMMA WorkerAnswerInv ==
    AnswerShownInv /\ (\/ TurnEnds \/ SuppressAnswer \/ FilesSent \/ Speak \/ SendSpeech
                       \/ BeginAnswer \/ SendFile \/ StreamEvent)
        => AnswerInv' /\ SpeechInv' /\ SpokenAfterText'
<1> SUFFICES ASSUME AnswerShownInv,
                    \/ TurnEnds \/ SuppressAnswer \/ FilesSent \/ Speak \/ SendSpeech
                    \/ BeginAnswer \/ SendFile \/ StreamEvent
             PROVE  AnswerInv' /\ SpeechInv' /\ SpokenAfterText'
    OBVIOUS
<1>1. size' = size /\ pc # "done"
    BY DEF TurnEnds, SuppressAnswer, FilesSent, Speak, SendSpeech, BeginAnswer, SendFile,
           StreamEvent, workerUnchanged, sessionVars
<1>2. /\ FileInv /\ AnswerInv /\ Speech \notin ToSet(chat)
      /\ IsSeq(chat) /\ IsSeq(chat') /\ Answer' = Answer
    <2>1. FileInv'
        BY WorkerFileInv, BeginAnswerFileInv, SendFileFileInv, StreamEventFileInv
           DEF AnswerShownInv
    <2> QED
        BY <1>1, <2>1 DEF AnswerShownInv, SpeechInv, FileInv, SeqInv, Answer, Chunks
<1>3. ASSUME Speech \notin ToSet(chat') PROVE SpeechInv' /\ SpokenAfterText'
    BY <1>3 DEF SpeechInv, SpokenAfterText, ToSet
<1>4. CASE TurnEnds \/ SuppressAnswer \/ FilesSent \/ Speak
    <2>1. chat' = chat /\ sent' = sent
        BY <1>4 DEF TurnEnds, SuppressAnswer, FilesSent, Speak
    <2>2. AnswerInv'
        <3>1. CASE TurnEnds \/ SuppressAnswer
            BY <3>1 DEF TurnEnds, SuppressAnswer, AnswerInv
        <3>2. CASE FilesSent
            <4>1. /\ pc = "files" /\ pc' \in {"speak", "done"}
                  /\ pc' = "speak" => sent = "ok"
                BY <3>2 DEF FilesSent
            <4> QED
                BY <1>2, <2>1, <4>1 DEF AnswerInv
        <3>3. CASE Speak
            <4>1. pc = "speak" /\ pc' \in {"done", "spoken"}
                BY <3>3 DEF Speak
            <4> QED
                BY <1>2, <2>1, <4>1 DEF AnswerInv
        <3> QED
            BY <1>4, <3>1, <3>2, <3>3
    <2> QED
        BY <1>2, <1>3, <2>1, <2>2
<1>5. CASE SendSpeech
    <2>1. pc = "spoken" /\ pc' = "done" /\ (chat' = chat \/ chat' = Append(chat, Speech))
        BY <1>5 DEF SendSpeech
    <2>2. \A c \in DOMAIN Answer : Answer[c] \in ToSet(chat)
        BY <1>2, <2>1 DEF AnswerInv
    <2>3. CASE chat' = chat
        BY <1>2, <1>3, <2>1, <2>3 DEF AnswerInv
    <2>4. CASE chat' = Append(chat, Speech)
        <3>1. /\ Len(chat) \in Nat /\ DOMAIN chat = 1..Len(chat)
              /\ DOMAIN chat' = 1..(Len(chat) + 1)
              /\ \A i \in 1..Len(chat) : chat'[i] = chat[i]
            BY <1>2, <2>4, AppendSeq
        <3>2. \A i \in DOMAIN chat' : chat'[i] = Speech => i = Len(chat) + 1
            BY <1>2, <3>1 DEF ToSet
        <3>3. \A c \in DOMAIN Answer : \E j \in 1..Len(chat) : chat'[j] = Answer[c]
            BY <2>2, <3>1 DEF ToSet
        <3>4. SpokenAfterText'
            <4> SUFFICES ASSUME NEW i \in DOMAIN chat', chat'[i] = Speech,
                                NEW c \in DOMAIN Answer
                         PROVE  \E j \in 1..(i - 1) : chat'[j] = Answer[c]
                BY <1>1 DEF SpokenAfterText, Answer, Chunks
            <4>1. i = Len(chat) + 1
                BY <3>2
            <4> QED
                BY <3>1, <3>3, <4>1
        <3> QED
            BY <2>1, <3>4 DEF AnswerInv, SpeechInv
    <2> QED
        BY <2>1, <2>3, <2>4
<1>6. CASE BeginAnswer
    <2>1. chat' = chat /\ pc = "ended"
        BY <1>6 DEF BeginAnswer
    <2>2. session \in {"answered", "failed"} /\ size \in 0..(MaxUnits + 1) /\ FALSE \in BOOLEAN
        BY <1>2, <2>1 DEF FileInv, TurnInv, TypeOK
    <2>3. AnswerInv'
        <3>1. CASE session = "failed"
            <4>1. pc' = "report"
                BY <1>6, <3>1 DEF BeginAnswer, Begin
            <4> QED
                BY <4>1 DEF AnswerInv
        <3>2. CASE session = "answered" /\ size = 0
            <4>1. pc' = "files"
                BY <1>6, <3>2 DEF BeginAnswer, Deliver, Begin
            <4>2. Answer = <<>>
                BY <2>2, <3>2, ChunksAreMessages DEF Answer
            <4> QED
                BY <1>2, <4>1, <4>2 DEF AnswerInv
        <3>3. CASE session = "answered" /\ size # 0
            <4>1. pc' \in {"answer", "finish"} /\ todo' = Answer
                BY <1>6, <3>3 DEF BeginAnswer, Begin, Answer
            <4>2. \A c \in DOMAIN Answer : Answer[c] \in ToSet(Answer)
                BY DEF ToSet
            <4> QED
                BY <1>2, <4>1, <4>2 DEF AnswerInv
        <3> QED
            BY <2>2, <3>1, <3>2, <3>3
    <2> QED
        BY <1>2, <1>3, <2>1, <2>3
<1>7. CASE SendFile
    <2>1. /\ pc = "files" /\ pc' = pc /\ sent' = sent
          /\ chat' = chat \/ chat' = Append(chat, Document(Head(files)))
        BY <1>7 DEF SendFile
    <2>2. Document(Head(files)) # Speech
        <3>1. DOMAIN Document(Head(files)) = {"file"} /\ DOMAIN Speech = {"voice"}
            BY DEF Document, Speech
        <3> QED
            BY <3>1
    <2>3. /\ ToSet(chat) \subseteq ToSet(chat') /\ Speech \notin ToSet(chat')
        <3>1. CASE chat' = chat
            BY <1>2, <3>1
        <3>2. CASE chat' = Append(chat, Document(Head(files)))
            <4> DEFINE d == Document(Head(files))
            <4> HIDE DEF d
            <4>1. chat' = Append(chat, d) /\ d # Speech
                BY <2>2, <3>2 DEF d
            <4>2. ToSet(chat') = ToSet(chat) \cup {d}
                BY <1>2, <4>1, AppendSeq
            <4> QED
                BY <1>2, <4>1, <4>2
        <3> QED
            BY <2>1, <3>1, <3>2
    <2>4. AnswerInv'
        BY <1>2, <2>1, <2>3 DEF AnswerInv
    <2> QED
        BY <1>3, <2>3, <2>4
<1>8. CASE StreamEvent
    <2>1. pc' \in {"turn", "preview"} /\ chat' = chat
        BY <1>8 DEF StreamEvent, Begin
    <2> QED
        BY <1>2, <1>3, <2>1 DEF AnswerInv
<1> QED
    BY <1>4, <1>5, <1>6, <1>7, <1>8

LEMMA NextAnswerInv == AnswerShownInv /\ [Next]_vars => AnswerShownInv'
<1> SUFFICES ASSUME AnswerShownInv, [Next]_vars PROVE AnswerShownInv'
    OBVIOUS
<1>1. FileInv'
    BY NextFileInv DEF AnswerShownInv
<1>2. CASE Session
    <2>1. /\ chat' = chat /\ pc' = pc /\ session \in {"running", "collect"}
        BY <1>2 DEF Session, SessionOutput, SessionEnds, SessionFails, CollectFile, CollectEnds
    <2>2. pc \in {"turn", "preview"}
        BY <2>1 DEF AnswerShownInv, FileInv, TurnInv
    <2>3. Speech \notin ToSet(chat')
        BY <2>1, <2>2 DEF AnswerShownInv, SpeechInv
    <2>4. SpeechInv' /\ SpokenAfterText'
        BY <2>3 DEF SpeechInv, SpokenAfterText, ToSet
    <2>5. AnswerInv'
        BY <2>1, <2>2 DEF AnswerInv
    <2> QED
        BY <1>1, <2>4, <2>5 DEF AnswerShownInv
<1>3. CASE Worker
    <2>1. CASE Sink
        BY <2>1, SinkAnswerInv
    <2>2. CASE ~Sink
        BY <1>1, <1>3, <2>2, WorkerAnswerInv DEF Worker, AnswerShownInv
    <2> QED
        BY <2>1, <2>2
<1>4. CASE Replaced \/ UNCHANGED vars
    <2>1. UNCHANGED <<chat, pc, todo, sent, size>>
        BY <1>4 DEF Replaced, vars, sessionVars, requestVars
    <2>2. AnswerInv' /\ SpeechInv' /\ SpokenAfterText'
        BY <2>1 DEF AnswerShownInv, AnswerInv, SpeechInv, SpokenAfterText, Answer, Chunks
    <2> QED
        BY <1>1, <2>2 DEF AnswerShownInv
<1> QED
    BY <1>2, <1>3, <1>4 DEF Next

\* A spoken reply comes after the whole text, however long it is, however it was
\* streamed, and whatever Telegram did to its messages.
THEOREM SpokenAfterTextHolds == Spec => []SpokenAfterText
<1>1. AnswerShownInv => SpokenAfterText
    BY DEF AnswerShownInv
<1> QED
    BY <1>1, InitAnswerInv, NextAnswerInv, PTL DEF Spec

-----------------------------------------------------------------------------
(* What becomes of the files the answer mentions. *)

\* The first MaxFiles files that are mentioned.
Early == {mentioned[i] : i \in {k \in DOMAIN mentioned :
                                    Cardinality({mentioned[j] : j \in 1..k}) <= MaxFiles}}

\* A request of the sink may edit any message, but no file is in the chat yet.
BeforeFiles == pc \in {"turn", "preview", "ended", "finish", "answer", "report"}

Settled(f) == f \in ToSet(files) \cup warned \cup refused \/ Document(f) \in ToSet(chat)

\* A file is still to be exported, to be sent, or settled.
AccountInv ==
    /\ BeforeFiles => sent = "none"
    /\ pc \in {"finish", "answer"} \/ sent = "ok" => session = "answered"
    /\ session = "answered" => toExport = <<>>
    /\ session \in {"collect", "answered"} /\ BeforeFiles =>
          Early \subseteq ToSet(toExport) \cup ToSet(files) \cup warned
    /\ sent = "ok" => \A f \in Early : Settled(f)

\* A set of numbers has a least one.
LEMMA SmallestOf ==
    ASSUME NEW T, T \subseteq Nat, T # {}
    PROVE  \E x \in T : \A y \in T : x <= y
<1>1. PICK x \in T : \A y \in T : ~ (<<y, x>> \in OpToRel(<, Nat))
    BY NatLessThanWellFounded, WFMin
<1>2. \A y \in T : ~ (y < x)
    BY <1>1 DEF OpToRel
<1> QED
    BY <1>2

\* Each of the first MaxFiles files that are mentioned is among the references.
LEMMA FileRefsComplete ==
    ASSUME NEW m, IsSeq(m), NEW i \in DOMAIN m,
           Cardinality({m[j] : j \in 1..i}) <= MaxFiles
    PROVE  m[i] \in ToSet(FileRefs(m))
<1> DEFINE firsts == {k \in DOMAIN m : \A j \in 1..(k - 1) : m[j] # m[k]}
           upTo(k) == {j \in firsts : j <= k}
           Nth(n) == CHOOSE k \in firsts : Cardinality(upTo(k)) = n
           count == Smaller(MaxFiles, Cardinality(firsts))
           seen == {m[j] : j \in 1..i}
<1>1. Len(m) \in Nat /\ DOMAIN m = 1..Len(m) /\ i \in Nat /\ i >= 1 /\ 1..i \subseteq DOMAIN m
  <2>1. PICK S : m \in Seq(S)
    BY DEF IsSeq
  <2> QED BY <2>1
<1>2. IsFiniteSet(firsts) /\ Cardinality(firsts) \in Nat /\ firsts \subseteq Nat
  <2>1. firsts \subseteq 1..Len(m) /\ IsFiniteSet(1..Len(m))
    BY <1>1, FS_Interval
  <2> QED BY <2>1, FS_Subset, FS_CardinalityType
<1>3. \A k : IsFiniteSet(upTo(k)) /\ Cardinality(upTo(k)) \in Nat
              /\ Cardinality(upTo(k)) <= Cardinality(firsts)
  <2> TAKE k
  <2>1. upTo(k) \in SUBSET firsts
    OBVIOUS
  <2> HIDE DEF upTo, firsts
  <2> QED BY <1>2, <2>1, FS_Subset, FS_CardinalityType
<1>4. PICK p \in firsts : p <= i /\ m[p] = m[i]
  <2> DEFINE same == {j \in 1..i : m[j] = m[i]}
  <2>1. i \in same /\ same \subseteq Nat
    BY <1>1
  <2>2. PICK p \in same : \A j \in same : p <= j
    BY <2>1, SmallestOf
  <2>3. p \in DOMAIN m /\ m[p] = m[i] /\ p <= i /\ p \in Nat
    BY <1>1, <2>2
  <2>4. \A j \in 1..(p - 1) : m[j] # m[p]
    <3> TAKE j \in 1..(p - 1)
    <3>1. j \in 1..i /\ ~ p <= j
      BY <1>1, <2>3
    <3> QED BY <2>2, <2>3, <3>1
  <2> QED BY <2>3, <2>4
<1>5. \A j, k \in firsts : m[j] = m[k] => j = k
  <2> SUFFICES ASSUME NEW j \in firsts, NEW k \in firsts, m[j] = m[k], j # k PROVE FALSE
    OBVIOUS
  <2>1. j \in 1..(k - 1) \/ k \in 1..(j - 1)
    BY <1>1
  <2> QED BY <2>1
<1>6. \A k \in firsts : Cardinality(upTo(k)) = Cardinality(upTo(p)) => k = p
  <2> SUFFICES ASSUME NEW k \in firsts, Cardinality(upTo(k)) = Cardinality(upTo(p)) PROVE k = p
    OBVIOUS
  <2>1. upTo(k) \in SUBSET upTo(p) \/ upTo(p) \in SUBSET upTo(k)
    BY <1>2
  <2>2. upTo(k) = upTo(p)
    <3>1. IsFiniteSet(upTo(k)) /\ IsFiniteSet(upTo(p))
      BY <1>3
    <3> HIDE DEF upTo
    <3> QED BY <2>1, <3>1, FS_Subset
  <2>3. k \in upTo(k) /\ p \in upTo(p)
    BY <1>2
  <2> QED BY <1>2, <2>2, <2>3
<1>7. Nth(Cardinality(upTo(p))) = p
  <2> HIDE DEF upTo, firsts
  <2> QED BY <1>6
<1>8. Cardinality(upTo(p)) \in 1..count
  <2>1. Cardinality(upTo(p)) # 0
    <3>1. p \in upTo(p)
      BY <1>2
    <3> HIDE DEF upTo
    <3>2. IsFiniteSet(upTo(p))
      BY <1>3
    <3> QED BY <3>1, <3>2, FS_EmptySet
  <2>2. IsFiniteSet(seen) /\ Cardinality(seen) \in Nat
    <3> DEFINE f == [j \in 1..i |-> m[j]]
    <3>1. f \in Surjection(1..i, seen)
      BY DEF Surjection
    <3>2. IsFiniteSet(1..i)
      BY <1>1, FS_Interval
    <3> HIDE DEF f, seen
    <3> QED BY <3>1, <3>2, FS_Surjection, FS_CardinalityType
  <2>3. Cardinality(upTo(p)) <= Cardinality(seen)
    <3> DEFINE f == [j \in upTo(p) |-> m[j]]
    <3>1. f \in [upTo(p) -> seen]
      BY <1>1, <1>2, <1>4
    <3>2. \A j, k \in upTo(p) : f[j] = f[k] => j = k
      BY <1>5
    <3>3. f \in Injection(upTo(p), seen)
      BY <3>1, <3>2 DEF Injection, IsInjective
    <3> HIDE DEF f, seen, upTo
    <3> QED BY <2>2, <3>3, FS_Injection
  <2> HIDE DEF upTo, firsts
  <2>4. Cardinality(upTo(p)) \in Nat /\ Cardinality(upTo(p)) <= Cardinality(firsts)
    BY <1>3
  <2>5. Cardinality(seen) <= MaxFiles /\ MaxFiles \in Nat
    BY DeliveryAssumption
  <2> HIDE DEF seen
  <2> QED BY <1>2, <2>1, <2>2, <2>3, <2>4, <2>5 DEF Smaller
<1>9. FileRefs(m) = [n \in 1..count |-> m[Nth(n)]]
  BY DEF FileRefs
<1> DEFINE n == Cardinality(upTo(p))
<1>10. n \in DOMAIN FileRefs(m) /\ FileRefs(m)[n] = m[p]
  <2> HIDE DEF count, Nth, n
  <2>1. n \in 1..count /\ Nth(n) = p
    BY <1>7, <1>8 DEF n
  <2> QED BY <1>9, <2>1
<1> QED BY <1>4, <1>10 DEF ToSet

LEMMA InitAccountInv == Init => AccountInv
BY DEF Init, AccountInv

\* Nothing is lost before the answer is sent.
LEMMA SessionAccountInv ==
    ASSUME FileInv, AccountInv, Session
    PROVE  AccountInv'
<1>1. session \in {"running", "collect"}
    BY DEF Session, SessionOutput, SessionEnds, SessionFails, CollectFile, CollectEnds
<1>2. pc \in {"turn", "preview"} /\ sent = "none"
    BY <1>1 DEF FileInv, TurnInv, AccountInv, BeforeFiles
<1>3. pc' = pc /\ sent' = sent
    BY DEF Session, SessionOutput, SessionEnds, SessionFails, CollectFile, CollectEnds
<1>4. IsSeq(toExport) /\ IsSeq(files)
    BY DEF FileInv, SeqInv
<1>5. ASSUME session' = "answered" => toExport' = <<>>,
             session' \in {"collect", "answered"} =>
                 Early' \subseteq ToSet(toExport') \cup ToSet(files') \cup warned'
      PROVE  AccountInv'
    BY <1>2, <1>3, <1>5 DEF AccountInv, BeforeFiles
<1>6. CASE SessionOutput \/ SessionFails
    <2>1. session' \in {"running", "failed"}
        BY <1>6 DEF SessionOutput, SessionFails
    <2> QED
        BY <1>5, <2>1
<1>7. CASE SessionEnds
    <2>1. /\ session' = "collect" /\ toExport' = FileRefs(mentioned')
          /\ mentioned' \in Mentions \cup {<<>>}
        BY <1>7 DEF SessionEnds
    <2>2. IsSeq(mentioned')
        BY <2>1, EmptySeqs, DeliveryAssumption DEF IsSeq
    <2>3. Early' \subseteq ToSet(FileRefs(mentioned'))
        BY <2>2, FileRefsComplete DEF Early
    <2> QED
        BY <1>5, <2>1, <2>3
<1>8. CASE CollectFile
    <2>1. /\ session = "collect" /\ session' = "collect" /\ toExport # <<>>
          /\ toExport' = Tail(toExport) /\ mentioned' = mentioned
        BY <1>8 DEF CollectFile
    <2>2. ToSet(toExport) = ToSet(toExport') \cup {Head(toExport)}
        BY <1>4, <2>1, TailSeq
    <2>3. ToSet(files') \cup warned' = ToSet(files) \cup warned \cup {Head(toExport)}
        <3> DEFINE h == Head(toExport)
        <3>1. Exported(h) \/ \E left : NotAttached(h, left)
            BY <1>8 DEF CollectFile, ExportRefused, CopyFails, NotAFile, GrewTooLarge
        <3> HIDE DEF h
        <3>2. CASE Exported(h)
            <4>1. ToSet(files') = ToSet(files) \cup {h} /\ warned' = warned
                BY <1>4, <3>2, AppendSeq DEF Exported
            <4> QED
                BY <4>1 DEF h
        <3>3. CASE \E left : NotAttached(h, left)
            BY <3>3 DEF NotAttached, h
        <3> QED
            BY <3>1, <3>2, <3>3
    <2>4. Early' = Early /\ Early \subseteq ToSet(toExport) \cup ToSet(files) \cup warned
        BY <1>2, <2>1 DEF AccountInv, BeforeFiles, Early
    <2> QED
        BY <1>5, <2>1, <2>2, <2>3, <2>4
<1>9. CASE CollectEnds
    <2>1. /\ session = "collect" /\ toExport = <<>>
          /\ UNCHANGED <<mentioned, toExport, warned, files>>
        BY <1>9 DEF CollectEnds
    <2>2. Early' = Early /\ Early \subseteq ToSet(toExport) \cup ToSet(files) \cup warned
        BY <1>2, <2>1 DEF AccountInv, BeforeFiles, Early
    <2> QED
        BY <1>5, <2>1, <2>2
<1> QED
    BY <1>6, <1>7, <1>8, <1>9 DEF Session

\* Where a request of the sink leaves the worker.
LEMMA SinkOutcome ==
    ASSUME FileInv, Sink
    PROVE  /\ pc \in {"preview", "finish", "answer", "report"}
           /\ \/ pc' = pc /\ sent' = sent
              \/ pc = "preview" /\ pc' = "turn" /\ sent' = sent
              \/ pc = "finish" /\ pc' = "answer" /\ sent' = sent
              \/ pc = "report" /\ pc' = "done" /\ sent' = sent
              \/ pc \in {"finish", "answer"} /\ pc' = "files" /\ sent' \in {"ok", "failed"}
<1> DEFINE Moved == \/ pc' = pc /\ sent' = sent
                    \/ pc = "preview" /\ pc' = "turn" /\ sent' = sent
                    \/ pc = "finish" /\ pc' = "answer" /\ sent' = sent
                    \/ pc = "report" /\ pc' = "done" /\ sent' = sent
                    \/ pc \in {"finish", "answer"} /\ pc' = "files" /\ sent' \in {"ok", "failed"}
<1>1. Requesting
    BY DEF Sink, RequestAccepted, NotModified, RetryAfter, RequestRefused, AnswerLost
<1>2. IsSeq(chat) /\ Len(chat) \in Nat
    BY AppendSeq DEF FileInv, SeqInv
<1>3. ASSUME GiveUp \/ Retries PROVE Moved
    <2>1. CASE GiveUp
        BY <1>1, <2>1, GiveUpResult
    <2>2. CASE Retries
        BY <2>2 DEF Retries
    <2> QED
        BY <1>3, <2>1, <2>2
<1>4. ASSUME NEW m \in 1..Len(chat'), Len(chat') \in Nat, Len(chat') >= Len(chat), Advance(m)
      PROVE  Moved
    <2>1. /\ \/ pc = "preview" /\ pc' = "turn" /\ sent' = sent
             \/ pc \in {"preview", "answer", "report"} /\ pc' = pc /\ sent' = sent
             \/ pc = "finish" /\ pc' = "files" /\ sent' = "ok"
             \/ pc = "finish" /\ pc' = "answer" /\ sent' = sent
             \/ pc = "report" /\ pc' = "done" /\ sent' = sent
             \/ pc = "answer" /\ pc' = "files" /\ sent' = "ok"
        BY <1>1, <1>2, <1>4, AdvanceResult
    <2> QED
        BY <2>1
<1>5. CASE RequestAccepted
    <2>1. Show /\ Advance(Shown)
        BY <1>5 DEF RequestAccepted
    <2>2. Moved
        BY <1>1, <1>4, <2>1, ShowResult
    <2> QED
        BY <1>1, <2>2 DEF Requesting
<1>6. CASE NotModified
    <2>1. chat' = chat /\ preview.message \in 1..Len(chat)
        BY <1>2, <1>6 DEF NotModified, Edits, FileInv, TypeOK
    <2>2. Advance(preview.message) \/ GiveUp
        BY <1>6 DEF NotModified
    <2>3. Moved
        BY <1>2, <1>3, <1>4, <2>1, <2>2
    <2> QED
        BY <1>1, <2>3 DEF Requesting
<1>7. CASE RetryAfter
    <2>1. Fail \/ Retries
        <3>1. attempt \in [plain : BOOLEAN, again : BOOLEAN]
            BY DEF FileInv, TypeOK
        <3>2. [attempt EXCEPT !.again = TRUE] \in [plain : BOOLEAN, again : BOOLEAN]
            BY <3>1
        <3> QED
            BY <1>7, <3>2 DEF RetryAfter, Retries
    <2>2. Moved
        BY <1>1, <1>3, <2>1, FailResult
    <2> QED
        BY <1>1, <2>2 DEF Requesting
<1>8. CASE RequestRefused \/ AnswerLost
    <2>1. Fail
        BY <1>8 DEF RequestRefused, AnswerLost
    <2>2. Moved
        BY <1>1, <1>3, <2>1, FailResult
    <2> QED
        BY <1>1, <2>2 DEF Requesting
<1> QED
    BY <1>5, <1>6, <1>7, <1>8 DEF Sink

LEMMA SinkAccountInv ==
    ASSUME FileInv, AccountInv, Sink
    PROVE  AccountInv'
<1>1. /\ pc \in {"preview", "finish", "answer", "report"}
      /\ \/ pc' = pc /\ sent' = sent
         \/ pc = "preview" /\ pc' = "turn" /\ sent' = sent
         \/ pc = "finish" /\ pc' = "answer" /\ sent' = sent
         \/ pc = "report" /\ pc' = "done" /\ sent' = sent
         \/ pc \in {"finish", "answer"} /\ pc' = "files" /\ sent' \in {"ok", "failed"}
    BY SinkOutcome
<1>2. UNCHANGED <<session, mentioned, toExport, warned, files, refused>>
    BY DEF Sink, RequestAccepted, NotModified, RetryAfter, RequestRefused, AnswerLost,
           sinkUnchanged, sessionVars
<1>3. /\ BeforeFiles /\ sent = "none" /\ Early' = Early
      /\ pc \in {"finish", "answer"} => session = "answered"
      /\ session = "answered" => toExport = <<>>
      /\ session \in {"collect", "answered"} =>
             Early \subseteq ToSet(toExport) \cup ToSet(files) \cup warned
    BY <1>1, <1>2 DEF AccountInv, BeforeFiles, Early
<1>4. sent' = "ok" => session' = "answered" /\ \A f \in Early' : Settled(f)'
    <2> SUFFICES ASSUME sent' = "ok" PROVE session' = "answered" /\ \A f \in Early' : Settled(f)'
        OBVIOUS
    <2>1. session = "answered" /\ toExport = <<>>
        BY <1>1, <1>3
    <2>2. Early \subseteq ToSet(files) \cup warned
        BY <1>3, <2>1, EmptySeqs
    <2> QED
        BY <1>2, <1>3, <2>1, <2>2 DEF Settled
<1>5. pc' \in {"finish", "answer"} => session' = "answered"
    BY <1>1, <1>2, <1>3
<1>6. BeforeFiles' => sent' = "none"
    BY <1>1, <1>3 DEF BeforeFiles
<1>7. /\ session' = "answered" => toExport' = <<>>
      /\ session' \in {"collect", "answered"} =>
             Early' \subseteq ToSet(toExport') \cup ToSet(files') \cup warned'
    BY <1>2, <1>3
<1> QED
    BY <1>4, <1>5, <1>6, <1>7 DEF AccountInv

\* A file leaves the list for the chat, or is refused.
LEMMA WorkerAccountInv ==
    ASSUME FileInv, AccountInv,
           \/ TurnEnds \/ SuppressAnswer \/ FilesSent \/ Speak \/ SendSpeech
           \/ BeginAnswer \/ SendFile \/ StreamEvent
    PROVE  AccountInv'
<1>1. UNCHANGED <<session, mentioned, toExport, warned>>
    BY DEF TurnEnds, SuppressAnswer, FilesSent, Speak, SendSpeech, BeginAnswer, SendFile,
           StreamEvent, workerUnchanged, sessionVars
<1>2. Early' = Early
    BY <1>1 DEF Early
<1>3. IsSeq(files) /\ IsSeq(chat)
    BY DEF FileInv, SeqInv
<1>4. CASE StreamEvent \/ TurnEnds
    <2>1. /\ BeforeFiles /\ BeforeFiles' /\ pc' \in {"turn", "preview", "ended"}
          /\ UNCHANGED <<files, sent, chat, refused>>
        BY <1>4 DEF StreamEvent, TurnEnds, Begin, BeforeFiles
    <2> QED
        BY <1>1, <1>2, <2>1 DEF AccountInv
<1>5. CASE SuppressAnswer
    <2>1. pc = "ended" /\ pc' = "done" /\ sent' = sent
        BY <1>5 DEF SuppressAnswer
    <2> QED
        BY <1>1, <2>1 DEF AccountInv, BeforeFiles
<1>6. CASE BeginAnswer
    <2>1. /\ pc = "ended" /\ BeforeFiles /\ sent = "none"
          /\ UNCHANGED <<files, chat, refused>>
        BY <1>6 DEF BeginAnswer, BeforeFiles, AccountInv
    <2>2. session \in {"answered", "failed"}
        BY <2>1 DEF FileInv, TurnInv
    <2>3. CASE session = "failed"
        <3>1. pc' = "report" /\ sent' = sent
            BY <1>6, <2>3 DEF BeginAnswer, Begin
        <3> QED
            BY <1>1, <2>1, <2>3, <3>1 DEF AccountInv, BeforeFiles
    <2>4. CASE session = "answered"
        <3>1. toExport = <<>> /\ Early \subseteq ToSet(toExport) \cup ToSet(files) \cup warned
            BY <2>1, <2>4 DEF AccountInv
        <3>2. Early \subseteq ToSet(files) \cup warned
            BY <3>1, EmptySeqs
        <3>3. \A f \in Early' : Settled(f)'
            BY <1>1, <1>2, <2>1, <3>2 DEF Settled
        <3>4. \/ pc' = "files" /\ sent' = "ok"
              \/ pc' \in {"answer", "finish"} /\ sent' = sent
            BY <1>6, <2>4 DEF BeginAnswer, Begin, Deliver
        <3>5. BeforeFiles' => sent' = "none"
            BY <2>1, <3>4 DEF BeforeFiles
        <3>6. Early' \subseteq ToSet(toExport') \cup ToSet(files') \cup warned'
            BY <1>1, <1>2, <2>1, <3>2
        <3> QED
            BY <1>1, <2>4, <3>1, <3>3, <3>5, <3>6 DEF AccountInv
    <2> QED
        BY <2>2, <2>3, <2>4
<1>7. CASE FilesSent \/ Speak \/ SendSpeech
    <2>1. /\ pc \in {"files", "speak", "spoken"} /\ pc' \in {"speak", "spoken", "done"}
          /\ UNCHANGED <<files, sent, refused>>
          /\ chat' = chat \/ chat' = Append(chat, Speech)
        BY <1>7 DEF FilesSent, Speak, SendSpeech
    <2>2. ToSet(chat) \subseteq ToSet(chat')
        <3>1. \A e : ToSet(Append(chat, e)) = ToSet(chat) \cup {e}
            BY <1>3, AppendSeq
        <3> QED
            BY <2>1, <3>1
    <2>3. sent' = "ok" => \A f \in Early' : Settled(f)'
        BY <1>1, <1>2, <2>1, <2>2 DEF AccountInv, Settled
    <2> QED
        BY <1>1, <2>1, <2>3 DEF AccountInv, BeforeFiles
<1>8. CASE SendFile
    <2>1. /\ pc = "files" /\ pc' = pc /\ files # <<>> /\ files' = Tail(files) /\ sent' = sent
          /\ \/ chat' = Append(chat, Document(Head(files))) /\ refused' = refused
             \/ refused' = refused \cup {Head(files)} /\ chat' = chat
        BY <1>8 DEF SendFile
    <2>2. ToSet(files) = ToSet(files') \cup {Head(files)}
        BY <1>3, <2>1, TailSeq
    <2>3. ToSet(chat) \subseteq ToSet(chat') /\ refused \subseteq refused'
        <3>1. \A e : ToSet(Append(chat, e)) = ToSet(chat) \cup {e}
            BY <1>3, AppendSeq
        <3> QED
            BY <2>1, <3>1
    <2>4. Document(Head(files)) \in ToSet(chat') \/ Head(files) \in refused'
        <3>1. \A e : ToSet(Append(chat, e)) = ToSet(chat) \cup {e}
            BY <1>3, AppendSeq
        <3> QED
            BY <2>1, <3>1
    <2>5. sent' = "ok" => \A f \in Early' : Settled(f)'
        <3> SUFFICES ASSUME sent' = "ok", NEW f \in Early' PROVE Settled(f)'
            OBVIOUS
        <3>1. Settled(f)
            BY <1>2, <2>1 DEF AccountInv
        <3>2. CASE f = Head(files)
            BY <2>4, <3>2 DEF Settled
        <3>3. CASE f # Head(files)
            BY <1>1, <2>2, <2>3, <3>1, <3>3 DEF Settled
        <3> QED
            BY <3>2, <3>3
    <2> QED
        BY <1>1, <2>1, <2>5 DEF AccountInv, BeforeFiles
<1> QED
    BY <1>4, <1>5, <1>6, <1>7, <1>8

LEMMA NextAccountInv == FileInv /\ AccountInv /\ [Next]_vars => AccountInv'
<1> SUFFICES ASSUME FileInv, AccountInv, [Next]_vars PROVE AccountInv'
    OBVIOUS
<1>1. CASE Session
    BY <1>1, SessionAccountInv
<1>2. CASE Worker
    BY <1>2, SinkAccountInv, WorkerAccountInv DEF Worker
<1>3. CASE Replaced \/ UNCHANGED vars
    <2>1. UNCHANGED <<session, mentioned, toExport, warned, files, pc, sent, chat, refused>>
        BY <1>3 DEF Replaced, vars, sessionVars, historyVars
    <2>2. Early' = Early /\ BeforeFiles' = BeforeFiles
        BY <2>1 DEF Early, BeforeFiles
    <2>3. \A f : Settled(f)' = Settled(f)
        BY <2>1 DEF Settled
    <2> QED
        BY <2>1, <2>2, <2>3 DEF AccountInv
<1> QED
    BY <1>1, <1>2, <1>3 DEF Next

\* Each of the first MaxFiles files an answer mentions, however many it mentions and
\* how often, is uploaded, named by a warning, or was refused by Telegram, when the
\* turn is done and its text was delivered.
THEOREM FilesAccountedForHolds == Spec => []FilesAccountedFor
<1>1. FileInv /\ AccountInv => FilesAccountedFor
    <2> SUFFICES ASSUME FileInv, AccountInv, pc = "done", sent = "ok", NEW i \in DOMAIN mentioned,
                        Cardinality({mentioned[j] : j \in 1..i}) <= MaxFiles
                 PROVE  \/ \E k \in DOMAIN chat : chat[k] = Document(mentioned[i])
                        \/ mentioned[i] \in warned \cup refused
        BY DEF FilesAccountedFor
    <2>1. ToSet(files) = {}
        BY EmptySeqs DEF FileInv, TempInv
    <2>2. mentioned[i] \in Early
        BY DEF Early
    <2>3. Settled(mentioned[i])
        BY <2>2 DEF AccountInv
    <2> QED
        BY <2>1, <2>3 DEF Settled, ToSet
<1>2. Init => FileInv /\ AccountInv
    BY InitFileInv, InitAccountInv
<1>3. FileInv /\ AccountInv /\ [Next]_vars => FileInv' /\ AccountInv'
    BY NextFileInv, NextAccountInv
<1> QED
    BY <1>1, <1>2, <1>3, PTL DEF Spec

-----------------------------------------------------------------------------
(* That the answer is shown once rests on what the chat shows at each step of the worker. *)

\* The chat shows the messages of the answer up to the k-th, and those behind it are as
\* they should be.
ShowsFirst(k) ==
    /\ Len(chat) >= k
    /\ k <= Len(Answer)
    /\ \A i \in 1..k : chat[i] = Answer[i]

\* A preview that fits a message is the only message until the answer takes its place.
\* Then the chat and what is still to be sent make up the answer, and files and speech
\* follow it.
ShownInv ==
    /\ events # <<>> \/ pc = "preview" \/ preview.message # 0 => size # 0
    /\ ~trouble /\ setting.keep <= ChunkLimit =>
        /\ pc \in {"turn", "preview", "ended"} => Len(chat) = preview.message /\ Len(chat) <= 1
        /\ pc = "preview" => Len(todo) = 1 /\ first = 0
        /\ pc = "finish" => Len(chat) = 1 /\ preview.message = 1 /\ todo = Answer
        /\ pc = "answer" =>
               /\ ShowsFirst(Len(chat))
               /\ Len(todo) = Len(Answer) - Len(chat)
               /\ \A i \in 1..Len(todo) : todo[i] = Answer[Len(chat) + i]
        /\ sent # "none" =>
               /\ ShowsFirst(Len(Answer))
               /\ \A i \in DOMAIN chat : i > Len(Answer) => ~IsText(chat[i])


\* When nothing was lost, what is still shown of a turn is all of it.
Fits == ~trouble /\ setting.keep <= ChunkLimit

\* The number of messages a text needs.
LEMMA ChunkCount ==
    ASSUME NEW n \in 0..(MaxUnits + 1), NEW cut \in BOOLEAN
    PROVE  /\ Len(Chunks(n, cut)) = (n + ChunkLimit - 1) \div ChunkLimit
           /\ DOMAIN Chunks(n, cut) = 1..Len(Chunks(n, cut))
           /\ Len(Chunks(n, cut)) \in Nat
<1> DEFINE count == (n + ChunkLimit - 1) \div ChunkLimit
<1>1. n \in Nat /\ ChunkLimit \in Nat /\ ChunkLimit >= 1
    BY DeliveryAssumption
<1>2. count \in Nat
    BY <1>1
<1>3. DOMAIN Chunks(n, cut) = 1..count
    BY DEF Chunks
<1>4. Chunks(n, cut) \in Seq(Message)
    BY ChunksAreMessages
<1> HIDE DEF count
<1>5. Len(Chunks(n, cut)) = count
    BY <1>2, <1>3, <1>4
<1> QED
    BY <1>2, <1>3, <1>5 DEF count

\* A text that fits needs one.
LEMMA OneChunk ==
    ASSUME NEW n \in 1..(MaxUnits + 1), n <= ChunkLimit, NEW cut \in BOOLEAN
    PROVE  Len(Chunks(n, cut)) = 1
<1>1. Len(Chunks(n, cut)) = (n + ChunkLimit - 1) \div ChunkLimit
    BY ChunkCount, DeliveryAssumption
<1>2. (n + ChunkLimit - 1) \div ChunkLimit = 1
    <2>1. n \in Nat /\ n >= 1 /\ ChunkLimit \in Nat /\ ChunkLimit >= 1
        BY DeliveryAssumption
    <2> DEFINE x == n + ChunkLimit - 1
               q == x \div ChunkLimit
    <2>2. x \in Nat /\ ChunkLimit <= x /\ x < 2 * ChunkLimit
        BY <2>1
    <2>3. q \in Nat /\ q * ChunkLimit <= x /\ x < (q + 1) * ChunkLimit
        BY <2>1, <2>2
    <2> HIDE DEF q, x
    <2>4. q # 0
        BY <2>1, <2>2, <2>3
    <2>5. ~(q >= 2)
        <3> SUFFICES ASSUME q >= 2 PROVE FALSE
            OBVIOUS
        <3>1. 2 * ChunkLimit <= q * ChunkLimit
            BY <2>1, <2>3
        <3> QED
            BY <2>1, <2>2, <2>3, <3>1
    <2>6. q = 1
        BY <2>3, <2>4, <2>5
    <2> QED
        BY <2>6 DEF q, x
<1> QED
    BY <1>1, <1>2

\* The chunks of a whole text show each of its units once and in order.
LEMMA ChunksShowAll ==
    ASSUME NEW n \in 0..(MaxUnits + 1)
    PROVE  LET A == Chunks(n, FALSE) IN
           /\ UNION {UnitsOf(A[c]) : c \in DOMAIN A} = 1..n
           /\ \A c, d \in DOMAIN A :
                  c < d => \A u \in UnitsOf(A[c]), v \in UnitsOf(A[d]) : u < v
           /\ \A c \in DOMAIN A : ~A[c].dots /\ IsText(A[c])
<1> DEFINE A == Chunks(n, FALSE)
           count == (n + ChunkLimit - 1) \div ChunkLimit
<1>1. n \in Nat /\ ChunkLimit \in Nat /\ ChunkLimit >= 1
    BY DeliveryAssumption
<1>2. count \in Nat /\ n + ChunkLimit - 1 < (count + 1) * ChunkLimit
    BY <1>1
<1>3. DOMAIN A = 1..count
    BY DEF Chunks
<1>4. \A c \in 1..count : A[c] = [from |-> (c - 1) * ChunkLimit + 1,
                                  to   |-> Smaller(c * ChunkLimit, n),
                                  dots |-> FALSE /\ c * ChunkLimit >= n]
    BY DEF Chunks
<1> HIDE DEF A, count
<1>5. \A c \in 1..count : /\ A[c].from = (c - 1) * ChunkLimit + 1
                          /\ A[c].to = Smaller(c * ChunkLimit, n)
                          /\ A[c].dots = FALSE
                          /\ IsText(A[c])
    <2> TAKE c \in 1..count
    <2> DEFINE f == (c - 1) * ChunkLimit + 1
               t == Smaller(c * ChunkLimit, n)
    <2>1. A[c] = [from |-> f, to |-> t, dots |-> FALSE]
        BY <1>4
    <2> HIDE DEF f, t
    <2>2. A[c].from = f /\ A[c].to = t /\ A[c].dots = FALSE /\ "from" \in DOMAIN A[c]
        BY <2>1
    <2> QED
        BY <2>2 DEF IsText, f, t
<1>6. ASSUME NEW c \in 1..count
      PROVE  /\ (c - 1) * ChunkLimit \in Nat
             /\ c * ChunkLimit \in Nat
    BY <1>1, <1>2
<1>7. ASSUME NEW c \in 1..count, NEW u \in UnitsOf(A[c])
      PROVE  u \in 1..n /\ u <= c * ChunkLimit /\ (c - 1) * ChunkLimit < u
    <2>1. u \in ((c - 1) * ChunkLimit + 1)..Smaller(c * ChunkLimit, n)
        BY <1>5, <1>7 DEF UnitsOf
    <2> QED
        BY <1>1, <1>6, <2>1 DEF Smaller
<1>8. ASSUME NEW u \in 1..n
      PROVE  \E c \in 1..count : u \in UnitsOf(A[c])
    <2> DEFINE q == (u - 1) \div ChunkLimit
    <2>1. u \in Nat /\ u - 1 \in Nat /\ u <= n
        BY <1>1
    <2>2. q \in Nat /\ q * ChunkLimit <= u - 1 /\ u - 1 < (q + 1) * ChunkLimit
        BY <1>1, <2>1
    <2> HIDE DEF q
    <2>3. q * ChunkLimit + ChunkLimit < (count + 1) * ChunkLimit
        BY <1>1, <1>2, <2>1, <2>2
    <2>4. q + 1 <= count
        <3> SUFFICES ASSUME count < q + 1 PROVE FALSE
            BY <1>2, <2>2
        <3>1. (count + 1) * ChunkLimit <= (q + 1) * ChunkLimit
            BY <1>1, <1>2, <2>2
        <3>2. (q + 1) * ChunkLimit = q * ChunkLimit + ChunkLimit
            BY <1>1, <2>2
        <3>3. q * ChunkLimit \in Nat /\ (count + 1) * ChunkLimit \in Nat
            BY <1>1, <1>2, <2>2
        <3> QED
            BY <1>1, <2>3, <3>1, <3>2, <3>3
    <2>5. q + 1 \in 1..count /\ (q + 1) - 1 = q
        BY <1>2, <2>2, <2>4
    <2>6. (q + 1) * ChunkLimit \in Nat /\ q * ChunkLimit \in Nat
        BY <1>1, <2>2
    <2>7. u \in (q * ChunkLimit + 1)..Smaller((q + 1) * ChunkLimit, n)
        BY <1>1, <2>1, <2>2, <2>6 DEF Smaller
    <2>8. UnitsOf(A[q + 1]) = (q * ChunkLimit + 1)..Smaller((q + 1) * ChunkLimit, n)
        BY <1>5, <2>5 DEF UnitsOf
    <2> QED
        BY <2>5, <2>7, <2>8
<1>9. ASSUME NEW c \in 1..count, NEW d \in 1..count, c < d,
             NEW u \in UnitsOf(A[c]), NEW v \in UnitsOf(A[d])
      PROVE  u < v
    <2>1. u \in 1..n /\ u <= c * ChunkLimit /\ v \in 1..n /\ (d - 1) * ChunkLimit < v
        BY <1>7
    <2>2. c * ChunkLimit <= (d - 1) * ChunkLimit
        BY <1>1, <1>2, <1>9
    <2> QED
        BY <1>1, <1>6, <2>1, <2>2
<1>10. UNION {UnitsOf(A[c]) : c \in DOMAIN A} = 1..n
    BY <1>3, <1>7, <1>8
<1> QED
    BY <1>3, <1>5, <1>9, <1>10 DEF A

\* What was shown of the answer stays shown when something is added that is no text.
LEMMA AddedAfterAnswer ==
    ASSUME IsSeq(chat), NEW e, ~IsText(e), chat' = Append(chat, e), UNCHANGED size,
           Len(Answer) \in Nat,
           ShowsFirst(Len(Answer)),
           \A i \in DOMAIN chat : i > Len(Answer) => ~IsText(chat[i])
    PROVE  /\ ShowsFirst(Len(Answer))'
           /\ \A i \in DOMAIN chat' : i > Len(Answer') => ~IsText(chat'[i])
<1>1. Answer' = Answer
    BY DEF Answer
<1> DEFINE n == Len(chat)
           k == Len(Answer)
<1>2. /\ n \in Nat /\ DOMAIN chat = 1..n
      /\ Len(chat') = n + 1
      /\ DOMAIN chat' = 1..(n + 1)
      /\ \A i \in 1..n : chat'[i] = chat[i]
      /\ chat'[n + 1] = e
    BY AppendSeq
<1>3. k \in Nat /\ n >= k /\ (\A i \in 1..k : chat[i] = Answer[i])
      /\ Len(Answer') = k
    BY <1>1 DEF ShowsFirst
<1>4. \A i \in 1..n : i > k => ~IsText(chat[i])
    BY <1>2
<1>5. /\ Len(chat') >= k /\ k <= Len(Answer')
      /\ \A i \in 1..k : chat'[i] = Answer'[i]
    <2> HIDE DEF n, k
    <2> QED
        BY <1>1, <1>2, <1>3
<1>6. \A i \in DOMAIN chat' : i > k => ~IsText(chat'[i])
    <2> HIDE DEF n, k
    <2> QED
        BY <1>2, <1>4
<1> QED
    BY <1>3, <1>5, <1>6 DEF ShowsFirst

LEMMA AnswerSeq ==
    ASSUME FileInv
    PROVE  /\ Answer \in Seq(Message) /\ Len(Answer) \in Nat
           /\ DOMAIN Answer = 1..Len(Answer)
           /\ size = 0 => Len(Answer) = 0
           /\ IsSeq(chat) /\ Len(chat) \in Nat /\ DOMAIN chat = 1..Len(chat)
<1>1. size \in 0..(MaxUnits + 1) /\ IsSeq(chat)
    BY DEF FileInv, TypeOK, SeqInv
<1>2. /\ Answer \in Seq(Message)
      /\ size = 0 => Answer = <<>>
      /\ DOMAIN Answer = 1..Len(Answer) /\ Len(Answer) \in Nat
    BY <1>1, ChunksAreMessages, ChunkCount DEF Answer
<1>3. Len(chat) \in Nat /\ DOMAIN chat = 1..Len(chat)
    BY <1>1, AppendSeq
<1> QED
    BY <1>1, <1>2, <1>3, EmptySeqs

-----------------------------------------------------------------------------

LEMMA InitShownInv == Init => ShownInv
BY EmptySeqs DEF Init, ShownInv, NoPreview

\* The output only grows.
LEMMA SessionShownInv ==
    ASSUME FileInv, AccountInv, ShownInv, Session
    PROVE  ShownInv'
<1>1. session \in {"running", "collect"}
    BY DEF Session, SessionOutput, SessionEnds, SessionFails, CollectFile, CollectEnds
<1>2. pc \in {"turn", "preview"} /\ sent = "none"
    BY <1>1 DEF FileInv, TurnInv, AccountInv, BeforeFiles
<1>3. UNCHANGED <<pc, sent, chat, preview, todo, first, setting, trouble>>
    BY DEF Session, SessionOutput, SessionEnds, SessionFails, CollectFile, CollectEnds,
           requestVars, historyVars
<1>4. size \in Nat
    BY DeliveryAssumption DEF FileInv, TypeOK
<1>5. (size # 0 => size' # 0) /\ (events' # <<>> /\ size' = 0 => events # <<>>)
    <2>1. CASE SessionOutput
        BY <1>4, <2>1 DEF SessionOutput
    <2>2. CASE SessionEnds
        BY <2>2 DEF SessionEnds
    <2>3. CASE SessionFails \/ CollectFile \/ CollectEnds
        BY <1>4, <2>3 DEF SessionFails, CollectFile, CollectEnds
    <2> QED
        BY <2>1, <2>2, <2>3 DEF Session
<1> QED
    BY <1>2, <1>3, <1>5 DEF ShownInv

\* A request that goes wrong without being lost is made again, or belongs to a preview or to
\* the report of a failure.
LEMMA SinkUntroubled ==
    ASSUME FileInv, Sink, ~trouble'
    PROVE  /\ Requesting
           /\ ~trouble
           /\ \/ Retries /\ chat' = chat
              \/ GiveUp /\ pc \in {"preview", "report"} /\ chat' = chat
              \/ Show /\ Advance(Shown)
<1>1. Requesting
    BY DEF Sink, RequestAccepted, NotModified, RetryAfter, RequestRefused, AnswerLost
<1>2. trouble \in BOOLEAN
    BY DEF FileInv, TypeOK
<1>3. ASSUME Fail, ForItsFormatting \/ pc = "preview"
      PROVE  Retries \/ (GiveUp /\ pc = "preview")
    <2>1. GiveUp \/ Retries
        BY <1>1, <1>3, FailResult
    <2>2. CASE ForItsFormatting
        <3>1. FallsBack
            BY <2>2 DEF ForItsFormatting, FallsBack, Rich
        <3>2. [plain |-> TRUE, again |-> FALSE] \in [plain : BOOLEAN, again : BOOLEAN]
            OBVIOUS
        <3> QED
            BY <1>3, <3>1, <3>2 DEF Fail, Retries
    <2> QED
        BY <1>3, <2>1, <2>2
<1>4. CASE RequestAccepted
    BY <1>1, <1>4 DEF RequestAccepted
<1>5. CASE NotModified
    <2>1. CASE pc = "finish"
        <3>1. Edits /\ Advance(Shown) /\ chat[preview.message] = Head(todo) /\ chat' = chat
              /\ trouble' = trouble
            BY <1>5, <2>1 DEF NotModified, Edits, Shown
        <3>2. chat = [chat EXCEPT ![preview.message] = chat[preview.message]]
            <4>1. PICK S : chat \in Seq(S)
                BY DEF FileInv, SeqInv, IsSeq
            <4> QED
                BY <4>1
        <3>3. Show
            BY <3>1, <3>2 DEF Show
        <3> QED
            BY <1>1, <3>1, <3>3
    <2>2. CASE pc # "finish"
        BY <1>1, <1>5, <2>2 DEF NotModified, Edits
    <2> QED
        BY <2>1, <2>2
<1>6. CASE RetryAfter
    <2>1. chat' = chat /\ trouble' = (trouble \/ (attempt.again /\ ~ForItsFormatting /\ pc # "preview"))
        BY <1>6 DEF RetryAfter
    <2>2. attempt \in [plain : BOOLEAN, again : BOOLEAN]
        BY DEF FileInv, TypeOK
    <2>3. CASE attempt.again
        <3>1. Fail
            BY <1>6, <2>3 DEF RetryAfter
        <3> QED
            BY <1>1, <1>3, <2>1, <2>3, <3>1
    <2>4. CASE ~attempt.again
        <3>1. [attempt EXCEPT !.again = TRUE] \in [plain : BOOLEAN, again : BOOLEAN]
            BY <2>2
        <3>2. Retries
            BY <1>6, <2>4, <3>1 DEF RetryAfter, Retries
        <3> QED
            BY <1>1, <2>1, <3>2
    <2> QED
        BY <2>3, <2>4
<1>7. CASE RequestRefused
    <2>1. /\ Fail /\ chat' = chat
          /\ trouble' = (trouble \/ (~ForItsFormatting /\ pc # "preview"))
        BY <1>7 DEF RequestRefused
    <2> QED
        BY <1>1, <1>3, <2>1
<1>8. CASE AnswerLost
    BY <1>8 DEF AnswerLost
<1> QED
    BY <1>4, <1>5, <1>6, <1>7, <1>8 DEF Sink

\* A message is shown where there was room for it.
LEMMA ShowFacts ==
    ASSUME FileInv, Requesting, Show
    PROVE  /\ Edits => /\ Len(chat') = Len(chat) /\ DOMAIN chat' = 1..Len(chat)
                       /\ Shown = preview.message
                       /\ preview.message \in 1..Len(chat)
                       /\ chat'[preview.message] = Head(todo)
           /\ ~Edits => /\ Len(chat') = Len(chat) + 1 /\ DOMAIN chat' = 1..(Len(chat) + 1)
                        /\ Shown = Len(chat) + 1
                        /\ \A i \in 1..Len(chat) : chat'[i] = chat[i]
                        /\ chat'[Len(chat) + 1] = Head(todo)
<1>1. IsSeq(chat)
    BY DEF FileInv, SeqInv
<1>2. CASE Edits
    <2>1. chat' = [chat EXCEPT ![preview.message] = Head(todo)] /\ Shown = preview.message
        BY <1>2 DEF Show, Shown
    <2>2. Len(chat) \in Nat /\ DOMAIN chat = 1..Len(chat)
        BY <1>1, AppendSeq
    <2>3. preview.message \in 1..Len(chat)
        BY <1>2, <2>2 DEF FileInv, TypeOK, Edits
    <2>4. PICK S : chat \in Seq(S)
        BY <1>1 DEF IsSeq
    <2>5. chat \in Seq(S \cup {Head(todo)}) /\ Head(todo) \in S \cup {Head(todo)}
        BY <2>4
    <2>6. Len(chat') = Len(chat)
        BY <2>1, <2>3, <2>5
    <2> QED
        BY <1>2, <2>1, <2>2, <2>3, <2>6
<1>3. CASE ~Edits
    <2>1. chat' = Append(chat, Head(todo)) /\ Shown = Len(chat) + 1
        BY <1>3 DEF Show, Shown
    <2> QED
        BY <1>1, <1>3, <2>1, AppendSeq
<1> QED
    BY <1>2, <1>3

\* The preview is shown, in one message.
LEMMA PreviewShowsOne ==
    ASSUME FileInv, AccountInv, ShownInv, Requesting, Fits, Show, Advance(Shown), pc = "preview"
    PROVE  pc' = "turn" /\ sent' = "none" /\ Len(chat') = preview'.message /\ Len(chat') <= 1
<1>1. Len(todo) = 1 /\ first = 0 /\ Len(chat) = preview.message /\ Len(chat) <= 1
    BY DEF ShownInv, Fits
<1>2. PreviewShown(Shown)
    BY <1>1 DEF Advance
<1>3. pc' = "turn" /\ sent' = sent /\ preview' = [preview EXCEPT !.message = Shown, !.chars = preview.next]
    BY <1>2 DEF PreviewShown, Begin
<1>4. sent = "none"
    BY DEF AccountInv, BeforeFiles
<1>5. preview \in [message : 0..Len(chat), chars : Nat, next : Nat]
    BY DEF FileInv, TypeOK
<1>6. preview'.message = Shown
    BY <1>3, <1>5
<1>7. Len(chat) \in Nat
    BY AnswerSeq
<1>8. CASE Edits
    BY <1>1, <1>3, <1>4, <1>6, <1>8, ShowFacts
<1>9. CASE ~Edits
    <2>1. Len(chat) = 0
        BY <1>1, <1>9 DEF Edits
    <2>2. Len(chat') = Len(chat) + 1 /\ Shown = Len(chat) + 1
        BY <1>9, ShowFacts
    <2>3. Len(chat') = 1 /\ Shown = 1
        BY <2>1, <2>2
    <2> QED
        BY <1>3, <1>4, <1>6, <2>3
<1> QED
    BY <1>8, <1>9

\* The last edit puts the first message of the answer in the preview's place.
LEMMA FinishShowsFirst ==
    ASSUME FileInv, AccountInv, ShownInv, Requesting, Fits, Show, Advance(Shown), pc = "finish",
           UNCHANGED size
    PROVE  /\ ShowsFirst(Len(chat))'
           /\ \/ pc' = "files" /\ Len(chat') = Len(Answer)
              \/ /\ pc' = "answer" /\ sent' = "none"
                 /\ Len(todo') = Len(Answer) - Len(chat')
                 /\ \A i \in 1..Len(todo') : todo'[i] = Answer[Len(chat') + i]
<1>1. Answer' = Answer
    BY DEF Answer
<1>2. Len(chat) = 1 /\ preview.message = 1 /\ todo = Answer /\ sent = "none" /\ Edits
    BY DEF ShownInv, Fits, AccountInv, BeforeFiles, Edits
<1>3. Len(chat') = 1 /\ chat'[1] = Head(todo)
    BY <1>2, ShowFacts
<1>4. PICK n \in Nat : n = Len(Answer)
    BY AnswerSeq
<1>5. /\ n # 0 /\ Head(todo) = Answer[1] /\ Len(Tail(todo)) = n - 1
      /\ \A i \in 1..(n - 1) : Tail(todo)[i] = Answer[1 + i]
    <2>1. Answer \in Seq(Message) /\ Answer # <<>>
        BY <1>2, AnswerSeq DEF Requesting
    <2> QED
        BY <1>2, <1>4, <2>1
<1>6. ShowsFirst(Len(chat))'
    <2>1. \A i \in 1..1 : chat'[i] = Answer'[i]
        BY <1>1, <1>3, <1>5
    <2> QED
        BY <1>1, <1>3, <1>4, <1>5, <2>1 DEF ShowsFirst
<1>7. CASE n = 1
    <2>1. Deliver("ok")
        BY <1>2, <1>4, <1>7 DEF Advance
    <2> QED
        BY <1>3, <1>4, <1>6, <1>7, <2>1 DEF Deliver, Begin
<1>8. CASE n # 1
    <2>1. Begin("answer", Tail(todo)) /\ UNCHANGED sent
        BY <1>2, <1>4, <1>8 DEF Advance
    <2>2. pc' = "answer" /\ sent' = "none" /\ todo' = Tail(todo)
        BY <1>2, <2>1 DEF Begin
    <2>3. Len(todo') = n - 1 /\ \A i \in 1..(n - 1) : todo'[i] = Answer[1 + i]
        BY <1>5, <2>2
    <2> QED
        BY <1>3, <1>4, <1>6, <2>2, <2>3
<1> QED
    BY <1>7, <1>8

\* The next message of the answer follows those that are shown.
LEMMA AnswerShowsNext ==
    ASSUME FileInv, AccountInv, ShownInv, Requesting, Fits, Show, Advance(Shown), pc = "answer",
           UNCHANGED size
    PROVE  /\ ShowsFirst(Len(chat))'
           /\ \/ pc' = "files" /\ Len(chat') = Len(Answer)
              \/ /\ pc' = "answer" /\ sent' = "none"
                 /\ Len(todo') = Len(Answer) - Len(chat')
                 /\ \A i \in 1..Len(todo') : todo'[i] = Answer[Len(chat') + i]
<1>1. Answer' = Answer
    BY DEF Answer
<1>2. ~Edits /\ sent = "none"
    BY DEF AccountInv, BeforeFiles, Edits
<1>3. PICK k \in Nat : k = Len(chat)
    BY AnswerSeq
<1>4. PICK t \in Nat : t = Len(todo) /\ t # 0
    BY DEF FileInv, TypeOK, Requesting
<1>5. PICK n \in Nat : n = Len(Answer)
    BY AnswerSeq
<1>6. /\ k <= n /\ t = n - k
      /\ \A i \in 1..k : chat[i] = Answer[i]
      /\ \A i \in 1..t : todo[i] = Answer[k + i]
    BY <1>3, <1>4, <1>5 DEF ShownInv, Fits, ShowsFirst
<1>7. /\ Len(chat') = k + 1
      /\ \A i \in 1..k : chat'[i] = chat[i]
      /\ chat'[k + 1] = Head(todo)
    BY <1>2, <1>3, ShowFacts
<1>8. /\ Head(todo) = todo[1] /\ Len(Tail(todo)) = t - 1
      /\ \A i \in 1..(t - 1) : Tail(todo)[i] = todo[i + 1]
    <2>1. todo \in Seq(Message) /\ todo # <<>>
        BY DEF FileInv, TypeOK, Requesting
    <2> QED
        BY <1>4, <2>1
<1>9. ShowsFirst(Len(chat))'
    <2>1. chat'[k + 1] = Answer[k + 1]
        BY <1>4, <1>6, <1>7, <1>8
    <2>2. \A i \in 1..(k + 1) : chat'[i] = Answer[i]
        BY <1>6, <1>7, <2>1
    <2>3. k + 1 <= n
        BY <1>4, <1>6
    <2> QED
        BY <1>1, <1>5, <1>7, <2>2, <2>3 DEF ShowsFirst
<1>10. CASE t = 1
    <2>1. Deliver("ok")
        BY <1>4, <1>10 DEF Advance
    <2>2. k + 1 = n
        BY <1>6, <1>10
    <2> QED
        BY <1>5, <1>7, <1>9, <2>1, <2>2 DEF Deliver, Begin
<1>11. CASE t # 1
    <2>1. Len(todo) > 1
        BY <1>4, <1>11
    <2>2. todo' = Tail(todo) /\ UNCHANGED <<pc, sent>>
        BY <2>1 DEF Advance
    <2>3. /\ Len(todo') = n - (k + 1)
          /\ \A i \in 1..(t - 1) : todo'[i] = Answer[(k + 1) + i]
        BY <1>4, <1>6, <1>8, <2>2
    <2>4. Len(todo') = t - 1
        BY <1>8, <2>2
    <2> QED
        BY <1>2, <1>5, <1>7, <1>9, <2>2, <2>3, <2>4
<1> QED
    BY <1>10, <1>11

LEMMA SinkShownInv ==
    ASSUME FileInv, AccountInv, ShownInv, Sink
    PROVE  ShownInv'
<1>1. UNCHANGED <<setting, size, events>>
    BY DEF Sink, RequestAccepted, NotModified, RetryAfter, RequestRefused, AnswerLost,
           sinkUnchanged, sessionVars
<1>2. /\ pc \in {"preview", "finish", "answer", "report"}
      /\ pc' = "preview" => pc = "preview"
    BY SinkOutcome
<1>3. sent = "none"
    BY <1>2 DEF AccountInv, BeforeFiles
<1>4. pc # "preview" => preview' = preview
    <2> SUFFICES ASSUME pc # "preview" PROVE preview' = preview
        OBVIOUS
    <2>1. Requesting
        BY DEF Sink, RequestAccepted, NotModified, RetryAfter, RequestRefused, AnswerLost
    <2>2. GiveUp => preview' = preview
        BY DEF GiveUp
    <2>3. \A m : Advance(m) => preview' = preview
        BY DEF Advance
    <2>4. Fail => preview' = preview
        BY <2>2 DEF Fail
    <2> QED
        BY <2>2, <2>3, <2>4 DEF Sink, RequestAccepted, NotModified, RetryAfter, RequestRefused,
                                AnswerLost
<1>5. events' # <<>> \/ pc' = "preview" \/ preview'.message # 0 => size' # 0
    BY <1>1, <1>2, <1>4 DEF ShownInv
<1>6. Answer' = Answer
    BY <1>1 DEF Answer
<1> DEFINE Shows ==
        /\ pc \in {"turn", "preview", "ended"} => Len(chat) = preview.message /\ Len(chat) <= 1
        /\ pc = "preview" => Len(todo) = 1 /\ first = 0
        /\ pc = "finish" => Len(chat) = 1 /\ preview.message = 1 /\ todo = Answer
        /\ pc = "answer" =>
               /\ ShowsFirst(Len(chat))
               /\ Len(todo) = Len(Answer) - Len(chat)
               /\ \A i \in 1..Len(todo) : todo[i] = Answer[Len(chat) + i]
        /\ sent # "none" =>
               /\ ShowsFirst(Len(Answer))
               /\ \A i \in DOMAIN chat : i > Len(Answer) => ~IsText(chat[i])
<1>7. ASSUME Fits' PROVE Shows'
    <2>1. /\ Requesting /\ Fits /\ Shows
          /\ \/ Retries /\ chat' = chat
             \/ GiveUp /\ pc \in {"preview", "report"} /\ chat' = chat
             \/ Show /\ Advance(Shown)
        BY <1>1, <1>7, SinkUntroubled DEF Fits, ShownInv
    <2>2. CASE Retries /\ chat' = chat
        BY <1>3, <1>6, <2>1, <2>2 DEF Retries, ShowsFirst
    <2>3. CASE GiveUp /\ pc \in {"preview", "report"} /\ chat' = chat
        BY <1>3, <2>1, <2>3 DEF GiveUp, Begin
    <2>4. CASE Show /\ Advance(Shown)
        <3>1. CASE pc = "preview"
            BY <2>1, <2>4, <3>1, PreviewShowsOne
        <3>2. CASE pc \in {"finish", "answer"}
            <4>1. /\ ShowsFirst(Len(chat))'
                  /\ \/ pc' = "files" /\ Len(chat') = Len(Answer)
                     \/ /\ pc' = "answer" /\ sent' = "none"
                        /\ Len(todo') = Len(Answer) - Len(chat')
                        /\ \A i \in 1..Len(todo') : todo'[i] = Answer[Len(chat') + i]
                BY <1>1, <2>1, <2>4, <3>2, FinishShowsFirst, AnswerShowsNext
            <4>2. CASE pc' = "answer"
                BY <1>6, <4>1, <4>2
            <4>3. CASE pc' = "files"
                <5>1. Len(chat') = Len(Answer)
                    BY <4>1, <4>3
                <5>2. ShowsFirst(Len(Answer))'
                    BY <1>6, <4>1, <5>1 DEF ShowsFirst
                <5>3. DOMAIN chat' = 1..Len(Answer) /\ Len(Answer) \in Nat
                    BY <2>1, <2>4, <5>1, ShowFacts, AnswerSeq
                <5>4. \A i \in DOMAIN chat' : ~(i > Len(Answer))
                    BY <5>3
                <5> QED
                    BY <1>6, <4>3, <5>2, <5>4
            <4> QED
                BY <4>1, <4>2, <4>3
        <3>3. CASE pc = "report"
            <4>1. pc' \in {"report", "done"} /\ sent' = sent
                BY <3>3, SinkOutcome
            <4> QED
                BY <1>3, <4>1
        <3> QED
            BY <1>2, <3>1, <3>2, <3>3
    <2> QED
        BY <2>1, <2>2, <2>3, <2>4
<1> QED
    BY <1>5, <1>7 DEF ShownInv, Fits

\* A preview that fits is sent as one message.
LEMMA PreviewFits ==
    ASSUME FileInv, setting.keep <= ChunkLimit, NEW n \in 1..MaxUnits
    PROVE  Len(PreviewOf(n)) = 1 /\ Len(SubSeq(PreviewOf(n), 1, 1)) = 1
<1>1. setting.keep \in Nat \ {0} /\ MaxUnits \in Nat /\ ChunkLimit \in Nat
    BY DeliveryAssumption DEF FileInv, TypeOK
<1>2. /\ Smaller(n, setting.keep) \in 1..(MaxUnits + 1)
      /\ Smaller(n, setting.keep) <= ChunkLimit
      /\ (n > setting.keep) \in BOOLEAN
    BY <1>1 DEF Smaller
<1>3. Len(PreviewOf(n)) = 1
    BY <1>2, OneChunk DEF PreviewOf
<1>4. PreviewOf(n) \in Seq(Message)
    <2>1. Smaller(n, setting.keep) \in 0..(MaxUnits + 1)
        BY <1>2
    <2> QED
        BY <1>2, <2>1, ChunksAreMessages DEF PreviewOf
<1>5. Len(SubSeq(PreviewOf(n), 1, 1)) = 1
    BY <1>3, <1>4
<1> QED
    BY <1>3, <1>5

LEMMA StreamEventShownInv ==
    ASSUME FileInv, AccountInv, ShownInv, StreamEvent
    PROVE  ShownInv'
<1>1. /\ pc = "turn" /\ sent = "none" /\ events # <<>> /\ size # 0
      /\ UNCHANGED <<setting, size, sent, chat, trouble>>
    BY DEF StreamEvent, workerUnchanged, sessionVars, AccountInv, BeforeFiles, ShownInv
<1> DEFINE e == Head(events)
<1>2. e.size \in 1..MaxUnits
    <2>1. events \in Seq([size : 1..MaxUnits, final : BOOLEAN])
        BY DEF FileInv, TypeOK
    <2> DEFINE Event == [size : 1..MaxUnits, final : BOOLEAN]
    <2>2. events \in Seq(Event) /\ events # <<>>
        BY <1>1, <2>1
    <2> HIDE DEF Event
    <2>3. e \in Event
        BY <2>2
    <2> HIDE DEF e
    <2> QED
        BY <2>3 DEF Event
<1>3. preview \in [message : 0..Len(chat), chars : Nat, next : Nat]
    BY DEF FileInv, TypeOK
<1>4. \/ /\ Begin("preview", IF preview.message = 0 THEN PreviewOf(e.size)
                                                    ELSE SubSeq(PreviewOf(e.size), 1, 1))
         /\ preview' = [preview EXCEPT !.next = PreviewChars(e.size)]
      \/ UNCHANGED <<pc, requestVars, preview>>
    BY DEF StreamEvent
<1> HIDE DEF e
<1>5. preview'.message = preview.message
    BY <1>3, <1>4
<1>6. \/ pc' = "turn"
      \/ /\ pc' = "preview" /\ first' = 0
         /\ setting.keep <= ChunkLimit => Len(todo') = 1
    BY <1>1, <1>2, <1>4, PreviewFits DEF Begin
<1> QED
    BY <1>1, <1>5, <1>6 DEF ShownInv

\* The answer begins with nothing or one preview in the chat.
LEMMA BeginAnswerShownInv ==
    ASSUME FileInv, AccountInv, ShownInv, BeginAnswer
    PROVE  ShownInv'
<1>1. /\ pc = "ended" /\ sent = "none"
      /\ UNCHANGED <<setting, size, events, chat, trouble, preview>>
    BY DEF BeginAnswer, workerUnchanged, sessionVars, AccountInv, BeforeFiles
<1>2. Answer' = Answer
    BY <1>1 DEF Answer
<1>3. /\ Len(Answer) \in Nat /\ (size = 0 => Len(Answer) = 0)
      /\ Len(chat) \in Nat /\ DOMAIN chat = 1..Len(chat)
    BY AnswerSeq
<1>4. Fits => Len(chat) = preview.message /\ Len(chat) <= 1
    BY <1>1 DEF ShownInv, Fits
<1>5. preview.message # 0 => size # 0
    BY DEF ShownInv
<1>6. ShowsFirst(0)' <=> (Len(chat) >= 0 /\ 0 <= Len(Answer))
    BY <1>1, <1>2 DEF ShowsFirst
<1>7. CASE pc' = "report" /\ sent' = sent
    BY <1>1, <1>5, <1>7 DEF ShownInv
<1>8. CASE Deliver("ok") /\ size = 0
    <2>1. pc' = "files" /\ sent' = "ok" /\ preview.message = 0
        BY <1>5, <1>8 DEF Deliver, Begin
    <2>2. Fits => Len(chat) = 0 /\ DOMAIN chat = {}
        BY <1>3, <1>4, <2>1
    <2>3. Fits => ShowsFirst(Len(Answer))'
        BY <1>1, <1>2, <1>3, <1>8, <2>2 DEF ShowsFirst
    <2> QED
        BY <1>1, <1>5, <2>1, <2>2, <2>3 DEF ShownInv, Fits
<1>9. CASE /\ Begin(IF preview.message = 0 THEN "answer" ELSE "finish", Answer)
           /\ UNCHANGED sent
    <2>1. todo' = Answer /\ sent' = "none"
        BY <1>1, <1>9 DEF Begin
    <2>2. CASE preview.message = 0
        <3>1. pc' = "answer"
            BY <1>9, <2>2 DEF Begin
        <3>2. Fits => Len(chat') = 0
            BY <1>1, <1>4, <2>2
        <3>3. PICK n \in Nat : n = Len(Answer)
            BY <1>3
        <3>4. Fits => /\ ShowsFirst(Len(chat))'
                      /\ Len(todo') = Len(Answer') - Len(chat')
                      /\ \A i \in 1..Len(todo') : todo'[i] = Answer'[Len(chat') + i]
            <4> SUFFICES ASSUME Fits
                         PROVE  /\ ShowsFirst(Len(chat))'
                                /\ Len(todo') = Len(Answer') - Len(chat')
                                /\ \A i \in 1..Len(todo') : todo'[i] = Answer'[Len(chat') + i]
                OBVIOUS
            <4>1. Len(chat') = 0 /\ Len(todo') = n /\ Len(Answer') = n
                BY <1>2, <2>1, <3>2, <3>3
            <4>2. ShowsFirst(Len(chat))'
                BY <3>3, <4>1 DEF ShowsFirst
            <4>3. \A i \in 1..n : todo'[i] = Answer'[0 + i]
                BY <1>2, <2>1
            <4> QED
                BY <4>1, <4>2, <4>3
        <3> QED
            BY <1>1, <1>5, <2>1, <3>1, <3>4 DEF ShownInv, Fits
    <2>3. CASE preview.message # 0
        <3>1. pc' = "finish"
            BY <1>9, <2>3 DEF Begin
        <3>2. Fits => Len(chat') = 1 /\ preview'.message = 1
            BY <1>1, <1>3, <1>4, <2>3
        <3> QED
            BY <1>1, <1>2, <1>5, <2>1, <3>1, <3>2 DEF ShownInv, Fits
    <2> QED
        BY <2>2, <2>3
<1>10. session \in {"answered", "failed"}
    BY <1>1 DEF FileInv, TurnInv
<1>11. CASE session = "failed"
    BY <1>7, <1>11 DEF BeginAnswer, Begin
<1>12. CASE session = "answered" /\ size = 0
    BY <1>8, <1>12 DEF BeginAnswer
<1>13. CASE session = "answered" /\ size # 0
    BY <1>9, <1>13 DEF BeginAnswer, Answer
<1> QED
    BY <1>10, <1>11, <1>12, <1>13

\* Files and speech come behind the answer.
LEMMA WorkerShownInv ==
    ASSUME FileInv, AccountInv, ShownInv,
           TurnEnds \/ SuppressAnswer \/ FilesSent \/ Speak \/ SendSpeech \/ SendFile
    PROVE  ShownInv'
<1>1. UNCHANGED <<setting, size, events, preview, sent, trouble>>
    BY DEF TurnEnds, SuppressAnswer, FilesSent, Speak, SendSpeech, SendFile, workerUnchanged,
           sessionVars
<1>2. Answer' = Answer
    BY <1>1 DEF Answer
<1>3. events' # <<>> \/ preview'.message # 0 => size' # 0
    BY <1>1 DEF ShownInv
<1>4. CASE TurnEnds
    <2>1. pc = "turn" /\ pc' = "ended" /\ UNCHANGED chat /\ sent = "none"
        BY <1>4 DEF TurnEnds, AccountInv, BeforeFiles
    <2> QED
        BY <1>1, <1>3, <2>1 DEF ShownInv
<1>5. CASE SuppressAnswer
    <2>1. pc' = "done" /\ sent = "none"
        BY <1>5 DEF SuppressAnswer, AccountInv, BeforeFiles
    <2> QED
        BY <1>1, <1>3, <2>1 DEF ShownInv
<1>6. CASE FilesSent \/ Speak \/ SendSpeech \/ SendFile
    <2>1. /\ pc' \in {"files", "speak", "spoken", "done"}
          /\ \/ chat' = chat
             \/ chat' = Append(chat, Speech)
             \/ chat' = Append(chat, Document(Head(files)))
        BY <1>6 DEF FilesSent, Speak, SendSpeech, SendFile
    <2>2. ~IsText(Speech) /\ ~IsText(Document(Head(files)))
        BY DEF IsText, Speech, Document
    <2>3. ASSUME Fits, sent # "none"
          PROVE  /\ ShowsFirst(Len(Answer))'
                 /\ \A i \in DOMAIN chat' : i > Len(Answer') => ~IsText(chat'[i])
        <3>1. /\ ShowsFirst(Len(Answer))
              /\ \A i \in DOMAIN chat : i > Len(Answer) => ~IsText(chat[i])
            BY <2>3 DEF ShownInv, Fits
        <3>2. CASE chat' = chat
            BY <1>2, <3>1, <3>2 DEF ShowsFirst
        <3>3. CASE chat' # chat
            BY <1>1, <2>1, <2>2, <3>1, <3>3, AddedAfterAnswer, AnswerSeq
        <3> QED
            BY <3>2, <3>3
    <2> QED
        BY <1>1, <1>3, <2>1, <2>3 DEF ShownInv, Fits
<1> QED
    BY <1>4, <1>5, <1>6

LEMMA NextShownInv == FileInv /\ AccountInv /\ ShownInv /\ [Next]_vars => ShownInv'
<1> SUFFICES ASSUME FileInv, AccountInv, ShownInv, [Next]_vars PROVE ShownInv'
    OBVIOUS
<1>1. CASE Session
    BY <1>1, SessionShownInv
<1>2. CASE Worker
    BY <1>2, SinkShownInv, StreamEventShownInv, BeginAnswerShownInv, WorkerShownInv DEF Worker
<1>3. CASE Replaced \/ UNCHANGED vars
    <2>1. UNCHANGED <<setting, size, events, pc, preview, todo, first, sent, chat, trouble>>
        BY <1>3 DEF Replaced, vars, sessionVars, requestVars, historyVars
    <2>2. Answer' = Answer
        BY <2>1 DEF Answer
    <2> QED
        BY <2>1, <2>2 DEF ShownInv, ShowsFirst
<1> QED
    BY <1>1, <1>2, <1>3 DEF Next

\* However an answer was streamed and its requests delayed or refused for their formatting,
\* the chat shows each unit once and in order when its text is delivered, for any limits.
THEOREM AnswerShownOnceHolds == Spec => []AnswerShownOnce
<1>1. FileInv /\ ShownInv => AnswerShownOnce
    <2> SUFFICES ASSUME FileInv, ShownInv, sent # "none", ~trouble, setting.keep <= ChunkLimit
                 PROVE  /\ UNION {UnitsOf(chat[i]) : i \in TextMessages} = 1..size
                        /\ \A i, j \in TextMessages :
                               i < j => \A u \in UnitsOf(chat[i]), v \in UnitsOf(chat[j]) : u < v
                        /\ \A i \in TextMessages : ~chat[i].dots
        BY DEF AnswerShownOnce
    <2>1. /\ ShowsFirst(Len(Answer))
          /\ \A i \in DOMAIN chat : i > Len(Answer) => ~IsText(chat[i])
        BY DEF ShownInv
    <2>2. PICK n \in Nat : n = Len(Answer) /\ DOMAIN Answer = 1..n
        BY AnswerSeq
    <2>3. PICK k \in Nat : k = Len(chat) /\ DOMAIN chat = 1..k
        BY AnswerSeq
    <2>4. /\ n <= k
          /\ \A i \in 1..n : chat[i] = Answer[i]
          /\ \A i \in 1..k : i > n => ~IsText(chat[i])
        BY <2>1, <2>2, <2>3 DEF ShowsFirst
    <2>5. /\ UNION {UnitsOf(Answer[c]) : c \in 1..n} = 1..size
          /\ \A c, d \in 1..n :
                 c < d => \A u \in UnitsOf(Answer[c]), v \in UnitsOf(Answer[d]) : u < v
          /\ \A c \in 1..n : ~Answer[c].dots /\ IsText(Answer[c])
        <3>1. size \in 0..(MaxUnits + 1)
            BY DEF FileInv, TypeOK
        <3> QED
            BY <2>2, <3>1, ChunksShowAll DEF Answer
    <2>6. TextMessages = 1..n
        BY <2>3, <2>4, <2>5 DEF TextMessages
    <2> QED
        BY <2>4, <2>5, <2>6
<1>2. Init => FileInv /\ AccountInv /\ ShownInv
    BY InitFileInv, InitAccountInv, InitShownInv
<1>3. FileInv /\ AccountInv /\ ShownInv /\ [Next]_vars => FileInv' /\ AccountInv' /\ ShownInv'
    BY NextFileInv, NextAccountInv, NextShownInv
<1> QED
    BY <1>1, <1>2, <1>3, PTL DEF Spec

=============================================================================
