-------------------------- MODULE ConversationProofs --------------------------
(***************************************************************************)
(* Proofs about module Conversation, for any number of messages of any     *)
(* kinds, any size of the rolling buffer and of the queue.                 *)
(*                                                                         *)
(* AppCore handles a chat's messages one after the other, so that at most  *)
(* the last one delivered is under way (FlowInv).  Everything else rests   *)
(* on that: nobody takes the session away or clears the workspace between  *)
(* the steps of a request (SessionInv, OfferedInv), and nobody pushes to the  *)
(* rolling buffer between the push of a request and the rendering of its   *)
(* prompt (RecordedInv, PromptInv).  A queued item is beyond that: what    *)
(* protects its file is that the session it waits for goes before the      *)
(* workspace is cleared.                                                   *)
(***************************************************************************)
EXTENDS Conversation, SequenceTheorems, FiniteSetTheorems, TLAPS

-----------------------------------------------------------------------------
(* The invariant, by parts. *)

\* The types of the router's variables.
QueueTypes ==
    /\ fate    \in [Messages -> {"new", "accepted", "running", "answered", "dropped"}]
    /\ waiting \in [1..MaxGeneration -> Seq(Messages)]
    /\ serving \in [1..MaxGeneration -> SUBSET Messages]

Active(m) == pc[m] \notin Ended \cup {"undelivered"}

\* One message is under way, the last one, and each step is for certain kinds.
FlowInv ==
    \A m \in Messages :
        /\ pc[m] = "undelivered" <=> m > delivered
        /\ Active(m) => m = delivered
        /\ pc[m] = "ensure"
               => kind[m] \in {"text", "document", "voice", "captioned", "link", "summarize"}
        /\ pc[m] \in {"download", "import", "transcribe", "cleanup"} => BringsFile(m)
        /\ pc[m] \in {"record_trigger", "settings", "render"}
               => kind[m] \in {"text", "document", "voice", "captioned", "link"}

\* The steps of a request between ensure_chat_runtime and the queue.
NeedsSession == {"download", "import", "transcribe", "cleanup", "record_trigger",
                 "settings", "render", "enqueue"}

\* A request under way has a session, a workspace being cleared has none.
SessionInv ==
    /\ now \in {0, newest}
    /\ \A m \in Messages : pc[m] \in NeedsSession => now # 0
    /\ \A m \in Messages : pc[m] = "clear" => now = 0
    /\ \A g \in 1..MaxGeneration : g > newest => waiting[g] = <<>>

\* The temporary file is there from the download to the cleanup; only a page
\* written in part stays behind.
TempInv ==
    \A m \in Messages :
        temp[m] # "none" =>
            \/ pc[m] \in {"import", "transcribe", "cleanup"}
            \/ /\ kind[m] = "link" /\ temp[m] = "partial"
               /\ pc[m] \in {"record_trigger", "settings", "render", "enqueue"} \cup Ended

\* The file that a prompt offers is in the workspace from the import until the
\* prompt is in the queue ...
OfferedInv ==
    \A m \in offered :
        /\ pc[m] \in {"transcribe", "cleanup", "record_trigger", "settings", "render", "enqueue"}
                     \cup Ended
        /\ Active(m) => m \in files

Waits(i, g) == \E k \in DOMAIN waiting[g] : waiting[g][k] = i

\* ... and while it waits in the queue of the present session.
WaitingInv ==
    \A i \in Messages, g \in 1..MaxGeneration :
        Waits(i, g) => /\ pc[i] = "queued"
                       /\ g = now /\ i \in offered => i \in files

\* What is known of a reply that was made, or kept, before it is sent.
SpeechInv ==
    \A m \in Messages :
        /\ speech[m] \in {"kept", "sent"} => m \in allowed
        /\ speech[m] = "made" /\ voice => m \in allowed

\* A message is recorded once, when it reaches its push.
RecordedInv ==
    /\ recorded \subseteq 1..delivered
    /\ \A m \in Messages :
           /\ pc[m] \in {"record", "download", "import", "transcribe", "cleanup", "record_trigger"}
                  => m \notin recorded
           /\ pc[m] = "ensure" /\ kind[m] # "summarize" => m \notin recorded
           /\ pc[m] \in {"settings", "render"} => m \in recorded

\* The sequence s is the last Len(s) of the messages R, in order.
LastOf(s, R) ==
    /\ \A i \in DOMAIN s : s[i] \in R
    /\ \A i, j \in DOMAIN s : i < j => s[i] < s[j]
    /\ \A i \in DOMAIN s : Cardinality({y \in R : y > s[i]}) = Len(s) - i

\* The sequence s is what a buffer of Capacity messages keeps of the messages R
\* pushed in order: those that have gone, if any, went when it was full.
KeptOf(s, R) ==
    /\ Len(s) <= Capacity
    /\ LastOf(s, R)
    /\ \A x \in R : x \in ToSet(s) \/ (Len(s) = Capacity /\ x < s[1])

BufferInv == KeptOf(recent, recorded)

\* A prompt that is ready, or the recent chat a /summarize holds on to.
PromptInv ==
    \A m \in Messages :
        \/ pc[m] \in {"enqueue", "queued"}
        \/ pc[m] \in {"command", "ensure"} /\ kind[m] = "summarize"
        => KeptOf(prompt[m], Expected(m))

\* An item is running if a session serves it.
ServingInv ==
    \A i \in Messages : fate[i] = "running" => \E g \in 1..MaxGeneration : serving[g] = {i}

ConversationInv ==
    /\ TypeOK /\ QueueTypes
    /\ FlowInv
    /\ SessionInv
    /\ TempInv
    /\ OfferedInv
    /\ WaitingInv
    /\ SpeechInv
    /\ RecordedInv
    /\ BufferInv
    /\ PromptInv
    /\ ServingInv

-----------------------------------------------------------------------------
(* Types. *)

\* A generation of the running item is one of the generations there are.
LEMMA GenerationServes ==
    ASSUME ServingInv, NEW i \in Messages, fate[i] = "running"
    PROVE  Generation(i) \in 1..MaxGeneration
<1>1. \E g \in 1..MaxGeneration : i \in serving[g]
  BY DEF ServingInv
<1> QED
  BY <1>1 DEF Generation

\* Append and Tail stay within the messages, and Newest within the capacity.
LEMMA NewestType ==
    ASSUME NEW s \in Seq(Messages), Len(s) <= Capacity, NEW m \in Messages
    PROVE  /\ Newest(Append(s, m)) \in Seq(Messages)
           /\ Len(Newest(Append(s, m))) <= Capacity
<1>1. Append(s, m) \in Seq(Messages) /\ Len(Append(s, m)) = Len(s) + 1
  BY AppendProperties
<1>2. Tail(Append(s, m)) \in Seq(Messages) /\ Len(Tail(Append(s, m))) = Len(s)
  BY <1>1, HeadTailProperties, EmptySeq, LenProperties
<1> QED
  BY <1>1, <1>2, ConversationAssumption, LenProperties DEF Newest

\* The steps of the queue keep its types.
LEMMA QueueTypeStep ==
    ASSUME TypeOK, QueueTypes, Queue!Next
    PROVE  QueueTypes' /\ now' \in 0..MaxGeneration /\ newest' \in 0..MaxGeneration
<1> USE ConversationAssumption DEF QueueTypes, TypeOK
<1>1. CASE Queue!Replace
  BY <1>1 DEF Queue!Replace
<1>2. ASSUME NEW i \in Messages, Queue!Accept(i)
      PROVE  QueueTypes' /\ now' \in 0..MaxGeneration /\ newest' \in 0..MaxGeneration
  <2>1. now \in 1..MaxGeneration
    BY <1>2 DEF Queue!Accept
  <2>2. Append(waiting[now], i) \in Seq(Messages)
    BY <2>1, AppendProperties
  <2> QED
    BY <1>2, <2>1, <2>2 DEF Queue!Accept
<1>3. CASE Queue!Begin
  <2>1. now \in 1..MaxGeneration
    BY <1>3 DEF Queue!Begin
  <2>2. Head(waiting[now]) \in Messages /\ Tail(waiting[now]) \in Seq(Messages)
    BY <1>3, <2>1, HeadTailProperties DEF Queue!Begin
  <2> QED
    BY <1>3, <2>1, <2>2 DEF Queue!Begin
<1>4. ASSUME NEW g \in 1..MaxGeneration, NEW i \in Messages, Queue!Finish(g, i)
      PROVE  QueueTypes' /\ now' \in 0..MaxGeneration /\ newest' \in 0..MaxGeneration
  BY <1>4 DEF Queue!Finish
<1>5. ASSUME NEW g \in 1..MaxGeneration, Queue!Drop(g)
      PROVE  QueueTypes' /\ now' \in 0..MaxGeneration /\ newest' \in 0..MaxGeneration
  <2>1. <<>> \in Seq(Messages)
    OBVIOUS
  <2> QED
    BY <1>5, <2>1 DEF Queue!Drop
<1> QED
  BY <1>1, <1>2, <1>3, <1>4, <1>5 DEF Queue!Next

\* What a step does to the router is one of its operations.
LEMMA QueueStep ==
    ASSUME ServingInv, [Next]_vars
    PROVE  Queue!Next \/ UNCHANGED queueVars
<1> USE DEF queueVars
<1>1. ASSUME NEW k \in Kinds, Deliver(k) PROVE UNCHANGED queueVars
  BY <1>1 DEF Deliver
<1>2. ASSUME NEW m \in Messages, HandleMessage(m) PROVE Queue!Next \/ UNCHANGED queueVars
  <2>1. Ensure(m) \/ Enqueue(m) \/ BeginReset(m) \/ FinishReset(m)
            => Queue!Next \/ UNCHANGED queueVars
    BY DEF Ensure, Enqueue, BeginReset, FinishReset, Queue!Next
  <2>2. ~(Ensure(m) \/ Enqueue(m) \/ BeginReset(m) \/ FinishReset(m)) => UNCHANGED queueVars
    BY <1>2 DEF HandleMessage, RecordAmbient, RecordCommand, EnsureFails, Download, Import,
       FetchSnapshot, ImportSnapshot, CopyToWorkspace, Transcribe, Cleanup, RecordTrigger,
       ReadSettings, Render, Summarize, ClearWorkspace, SetVoice, OtherCommand
  <2> QED
    BY <2>1, <2>2
<1>3. ASSUME NEW i \in Messages, Work(i) PROVE Queue!Next \/ UNCHANGED queueVars
  <2>1. CASE FinishTurn(i)
    <3>1. Generation(i) \in 1..MaxGeneration
      BY <2>1, GenerationServes DEF FinishTurn
    <3> QED
      BY <2>1, <3>1 DEF FinishTurn, Queue!Next
  <2>2. CASE ~FinishTurn(i)
    BY <1>3, <2>2 DEF Work, BeginSpeech, Synthesize, KeepOrDiscard, SendSpeech, Say
  <2> QED
    BY <2>1, <2>2
<1>4. CASE BeginTurn \/ DropQueued
  BY <1>4 DEF BeginTurn, DropQueued, Queue!Next
<1>5. CASE UNCHANGED vars
  BY <1>5 DEF vars
<1> QED
  BY <1>1, <1>2, <1>3, <1>4, <1>5 DEF Next

\* Every handler, and the router's side of a request, keeps the types.
LEMMA TypeStep ==
    ASSUME TypeOK, QueueTypes, ServingInv, [Next]_vars
    PROVE  TypeOK' /\ QueueTypes'
<1> USE ConversationAssumption DEF TypeOK, messageVars, promptVars, fileVars, voiceVars,
    Go, Ended, Settled, Commands, AllKinds
<1>1. QueueTypes' /\ now' \in 0..MaxGeneration /\ newest' \in 0..MaxGeneration
  <2>1. CASE Queue!Next
    BY <2>1, QueueTypeStep
  <2>2. CASE UNCHANGED queueVars
    BY <2>2 DEF QueueTypes, queueVars
  <2> QED
    BY <2>1, <2>2, QueueStep
<1>2. ASSUME NEW k \in Kinds, Deliver(k) PROVE TypeOK'
  <2>1. delivered + 1 \in Messages /\ delivered + 1 \in 0..MaxMessages /\ k \in AllKinds
    BY <1>2 DEF Deliver, Messages
  <2> QED
    BY <1>1, <1>2, <2>1 DEF Deliver, Preflight
<1>3. ASSUME NEW m \in Messages, HandleMessage(m) PROVE TypeOK'
  <2>0. /\ Newest(Append(recent, m)) \in Seq(Messages)
        /\ Len(Newest(Append(recent, m))) <= Capacity
        /\ <<>> \in Seq(Messages)
    BY NewestType
  <2>1. CASE RecordAmbient(m) \/ RecordCommand(m)
    <3>1. recent' = Newest(Append(recent, m)) /\ recorded' = recorded \cup {m}
      BY <2>1 DEF RecordAmbient, RecordCommand, Push
    <3>2. prompt' \in [Messages -> Seq(Messages)]
      <4>1. prompt' = prompt \/ \E s \in Seq(Messages) : prompt' = [prompt EXCEPT ![m] = s]
        BY <2>0, <2>1 DEF RecordAmbient, RecordCommand
      <4> QED
        BY <4>1
    <3>3. \E s \in {"command", "silent"} : Go(m, s)
      BY <2>1 DEF RecordAmbient, RecordCommand
    <3>4. UNCHANGED <<messageVars, fileVars, voiceVars, queueVars>>
      BY <2>1 DEF RecordAmbient, RecordCommand
    <3> QED
      BY <2>0, <3>1, <3>2, <3>3, <3>4, <1>1
  <2>2. CASE Ensure(m) \/ EnsureFails(m) \/ Enqueue(m)
    BY <2>2, <1>1 DEF Ensure, EnsureFails, Enqueue
  <2>3. CASE Download(m) \/ FetchSnapshot(m)
    BY <2>3, <1>1 DEF Download, FetchSnapshot
  <2>4. CASE Import(m) \/ ImportSnapshot(m)
    BY <2>4, <1>1 DEF Import, ImportSnapshot, CopyToWorkspace
  <2>5. CASE Transcribe(m) \/ Cleanup(m)
    BY <2>5, <1>1 DEF Transcribe, Cleanup
  <2>6. CASE RecordTrigger(m)
    BY <2>0, <2>6, <1>1 DEF RecordTrigger, Push
  <2>7. CASE ReadSettings(m)
    BY <2>7, <1>1 DEF ReadSettings
  <2>10. CASE Render(m)
    <3>1. prompt' \in [Messages -> Seq(Messages)]
      BY <2>10 DEF Render
    <3> QED
      BY <2>10, <3>1, <1>1 DEF Render
  <2>8. CASE Summarize(m) \/ BeginReset(m) \/ ClearWorkspace(m) \/ FinishReset(m)
    BY <2>8, <1>1 DEF Summarize, BeginReset, ClearWorkspace, FinishReset
  <2>9. CASE SetVoice(m) \/ OtherCommand(m)
    BY <2>9, <1>1 DEF SetVoice, OtherCommand
  <2> QED
    BY <1>3, <2>1, <2>2, <2>3, <2>4, <2>5, <2>6, <2>7, <2>8, <2>9, <2>10 DEF HandleMessage
<1>4. ASSUME NEW i \in Messages, Work(i) PROVE TypeOK'
  BY <1>1, <1>4 DEF Work, FinishTurn, BeginSpeech, Synthesize, KeepOrDiscard, SendSpeech, Say
<1>5. CASE BeginTurn \/ DropQueued
  BY <1>1, <1>5 DEF BeginTurn, DropQueued
<1>6. CASE UNCHANGED vars
  BY <1>1, <1>6 DEF vars
<1> QED
  BY <1>1, <1>2, <1>3, <1>4, <1>5, <1>6 DEF Next

-----------------------------------------------------------------------------
(* The steps of a message. *)

\* What a handler leaves alone, and that it is at work on a message under way.
LEMMA HandlerFacts ==
    ASSUME TypeOK, NEW m \in Messages, HandleMessage(m)
    PROVE  /\ Active(m)
           /\ UNCHANGED messageVars
           /\ pc' = [pc EXCEPT ![m] = pc'[m]]
           /\ pc'[m] # "undelivered"
<1> USE DEF TypeOK, Go, Active, Ended
<1>1. CASE RecordAmbient(m) \/ RecordCommand(m) \/ RecordTrigger(m)
  BY <1>1 DEF RecordAmbient, RecordCommand, RecordTrigger
<1>2. CASE Ensure(m) \/ EnsureFails(m) \/ Enqueue(m)
  BY <1>2 DEF Ensure, EnsureFails, Enqueue
<1>3. CASE Download(m) \/ FetchSnapshot(m)
  BY <1>3 DEF Download, FetchSnapshot
<1>4. CASE Import(m) \/ ImportSnapshot(m)
  BY <1>4 DEF Import, ImportSnapshot, CopyToWorkspace
<1>5. CASE Transcribe(m) \/ Cleanup(m) \/ ReadSettings(m) \/ Render(m)
  BY <1>5 DEF Transcribe, Cleanup, ReadSettings, Render
<1>6. CASE Summarize(m) \/ BeginReset(m) \/ ClearWorkspace(m) \/ FinishReset(m)
  BY <1>6 DEF Summarize, BeginReset, ClearWorkspace, FinishReset
<1>7. CASE SetVoice(m) \/ OtherCommand(m)
  BY <1>7 DEF SetVoice, OtherCommand
<1> QED
  BY <1>1, <1>2, <1>3, <1>4, <1>5, <1>6, <1>7 DEF HandleMessage

\* The router and the spoken reply touch nothing of the handlers' own.
LEMMA RouterFacts ==
    ASSUME \/ \E i \in Messages : Work(i)
           \/ BeginTurn \/ DropQueued \/ UNCHANGED vars
    PROVE  UNCHANGED <<messageVars, pc, promptVars, fileVars, voice>>
BY DEF Work, FinishTurn, BeginSpeech, Synthesize, KeepOrDiscard, SendSpeech, Say,
       BeginTurn, DropQueued, vars, voiceVars

\* What the arrival of a message changes.
LEMMA DeliverFacts ==
    ASSUME TypeOK, NEW k \in Kinds, Deliver(k)
    PROVE  /\ delivered' = delivered + 1 /\ delivered' \in Messages
           /\ kind' = [kind EXCEPT ![delivered'] = k]
           /\ pc' = [pc EXCEPT ![delivered'] = pc'[delivered']]
           /\ pc'[delivered'] \in {"silent", "record", "ensure", "replied"}
           /\ pc'[delivered'] = "record" => k \in Commands \cup {"ambient"}
           /\ pc'[delivered'] = "ensure" => k \in {"text", "document", "voice", "captioned", "link"}
           /\ \A m \in Messages : ~Active(m) \/ m > delivered
           /\ UNCHANGED <<promptVars, fileVars, voiceVars, queueVars>>
<1>1. /\ delivered' = delivered + 1 /\ delivered' \in Messages
      /\ kind' = [kind EXCEPT ![delivered'] = k]
      /\ UNCHANGED <<promptVars, fileVars, voiceVars, queueVars>>
  BY DEF Deliver
<1>2. /\ pc' = [pc EXCEPT ![delivered'] = pc'[delivered']]
      /\ pc'[delivered'] \in {"silent", "record", "ensure", "replied"}
      /\ pc'[delivered'] = "record" => k \in Commands \cup {"ambient"}
      /\ pc'[delivered'] = "ensure" => k \in {"text", "document", "voice", "captioned", "link"}
  BY <1>1 DEF Deliver, Preflight, Go, TypeOK
<1>3. \A m \in Messages : ~Active(m) \/ m > delivered
  BY DEF Deliver, DispatcherFree, Active, Messages, TypeOK
<1> QED
  BY <1>1, <1>2, <1>3

-----------------------------------------------------------------------------
(* Each part of the invariant is kept by every step. *)

\* The message that is under way is the last one.
LEMMA ActiveIsLast ==
    ASSUME TypeOK, FlowInv, NEW m \in Messages, HandleMessage(m)
    PROVE  /\ m = delivered
           /\ \A x \in Messages \ {m} : ~Active(x) /\ pc'[x] = pc[x]
BY HandlerFacts DEF FlowInv, TypeOK

LEMMA FlowStep ==
    ASSUME TypeOK, TypeOK', FlowInv, [Next]_vars
    PROVE  FlowInv'
<1>1. ASSUME NEW k \in Kinds, Deliver(k) PROVE FlowInv'
  <2> DEFINE d == delivered + 1
  <2> SUFFICES ASSUME NEW m \in Messages
               PROVE  /\ pc'[m] = "undelivered" <=> m > delivered'
                      /\ Active(m)' => m = delivered'
                      /\ pc'[m] = "ensure"
                           => kind'[m] \in {"text", "document", "voice", "captioned", "link", "summarize"}
                      /\ pc'[m] \in {"download", "import", "transcribe", "cleanup"} => BringsFile(m)'
                      /\ pc'[m] \in {"record_trigger", "settings", "render"}
                             => kind'[m] \in {"text", "document", "voice", "captioned", "link"}
    BY DEF FlowInv
  <2>1. CASE m = d
    <3>0. delivered' = m /\ kind' = [kind EXCEPT ![delivered'] = k]
      BY <1>1, <2>1, DeliverFacts
    <3>1. delivered' = m /\ kind'[m] = k
      BY <3>0 DEF TypeOK
    <3>2. /\ pc'[m] \in {"silent", "record", "ensure", "replied"}
          /\ pc'[m] = "ensure" => k \in {"text", "document", "voice", "captioned", "link"}
      BY <1>1, <3>1, DeliverFacts
    <3> QED
      BY <3>1, <3>2 DEF Messages
  <2>2. CASE m # d
    <3>1. pc'[m] = pc[m] /\ kind'[m] = kind[m] /\ delivered' = d
      BY <1>1, <2>2, DeliverFacts DEF TypeOK
    <3>2. pc[m] = "undelivered" <=> m > delivered
      BY DEF FlowInv
    <3>3. ~Active(m)
      BY <1>1, <3>2, DeliverFacts DEF Active
    <3>4. m > delivered <=> m > d
      BY <2>2 DEF TypeOK, Messages
    <3> QED
      BY <3>1, <3>2, <3>3, <3>4 DEF Active, FlowInv, Ended
  <2> QED
    BY <2>1, <2>2
<1>2. ASSUME NEW m \in Messages, HandleMessage(m) PROVE FlowInv'
  <2>1. /\ m = delivered /\ delivered' = delivered /\ kind' = kind
        /\ \A x \in Messages \ {m} : pc'[x] = pc[x]
        /\ pc'[m] # "undelivered" /\ pc[m] # "undelivered"
    BY <1>2, ActiveIsLast, HandlerFacts DEF messageVars, Active
  <2> USE DEF FlowInv, TypeOK, Go, BringsFile, IsAudio
  <2>2. /\ pc'[m] = "ensure"
               => kind[m] \in {"text", "document", "voice", "captioned", "link", "summarize"}
        /\ pc'[m] \in {"download", "import", "transcribe", "cleanup"} => BringsFile(m)
        /\ pc'[m] \in {"record_trigger", "settings", "render"}
               => kind[m] \in {"text", "document", "voice", "captioned", "link"}
    <3>1. CASE RecordAmbient(m) \/ RecordCommand(m) \/ RecordTrigger(m)
      BY <3>1 DEF RecordAmbient, RecordCommand, RecordTrigger
    <3>2. CASE Ensure(m) \/ EnsureFails(m) \/ Enqueue(m)
      BY <3>2 DEF Ensure, EnsureFails, Enqueue
    <3>3. CASE Download(m) \/ FetchSnapshot(m)
      BY <3>3 DEF Download, FetchSnapshot
    <3>4. CASE Import(m) \/ ImportSnapshot(m)
      BY <3>4 DEF Import, ImportSnapshot, CopyToWorkspace
    <3>5. CASE Transcribe(m) \/ Cleanup(m) \/ ReadSettings(m) \/ Render(m)
      BY <3>5 DEF Transcribe, Cleanup, ReadSettings, Render
    <3>6. CASE Summarize(m) \/ BeginReset(m) \/ ClearWorkspace(m) \/ FinishReset(m)
      BY <3>6 DEF Summarize, BeginReset, ClearWorkspace, FinishReset
    <3>7. CASE SetVoice(m) \/ OtherCommand(m)
      BY <3>7 DEF SetVoice, OtherCommand
    <3> QED
      BY <1>2, <3>1, <3>2, <3>3, <3>4, <3>5, <3>6, <3>7 DEF HandleMessage
  <2>3. BringsFile(m)' <=> BringsFile(m)
    BY <2>1
  <2> QED
    BY <2>1, <2>2, <2>3 DEF Active
<1>3. CASE \/ \E i \in Messages : Work(i)
           \/ BeginTurn \/ DropQueued \/ UNCHANGED vars
  BY <1>3, RouterFacts DEF FlowInv, Active, BringsFile, IsAudio, messageVars
<1> QED
  BY <1>1, <1>2, <1>3 DEF Next

\* The temporary file of a message goes with its preparation.
LEMMA TempStep ==
    ASSUME TypeOK, FlowInv, TempInv, [Next]_vars
    PROVE  TempInv'
<1> USE DEF TypeOK, TempInv
<1>1. ASSUME NEW k \in Kinds, Deliver(k) PROVE TempInv'
  <2> SUFFICES ASSUME NEW m \in Messages, temp'[m] # "none"
               PROVE  /\ pc'[m] = pc[m] /\ kind'[m] = kind[m] /\ temp'[m] = temp[m]
    OBVIOUS
  <2>1. temp' = temp
    BY <1>1, DeliverFacts DEF fileVars
  <2>2. pc[m] # "undelivered"
    BY <2>1 DEF Ended
  <2>3. m # delivered + 1
    BY <2>2 DEF FlowInv, Messages
  <2> QED
    BY <1>1, <2>1, <2>3, DeliverFacts
<1>2. ASSUME NEW m \in Messages, HandleMessage(m) PROVE TempInv'
  <2>1. kind' = kind /\ \A x \in Messages \ {m} : pc'[x] = pc[x]
    BY <1>2, ActiveIsLast, HandlerFacts DEF messageVars
  <2>2. \A x \in Messages \ {m} : temp'[x] = temp[x]
    <3>1. CASE Download(m) \/ FetchSnapshot(m) \/ Cleanup(m)
      BY <3>1 DEF Download, FetchSnapshot, Cleanup
    <3>2. CASE ~(Download(m) \/ FetchSnapshot(m) \/ Cleanup(m))
      BY <1>2, <3>2 DEF HandleMessage, RecordAmbient, RecordCommand, Ensure, EnsureFails, Import,
         ImportSnapshot, CopyToWorkspace, Transcribe, RecordTrigger, ReadSettings, Render,
         Enqueue, Summarize, BeginReset, ClearWorkspace, FinishReset, SetVoice, OtherCommand,
         fileVars
    <3> QED
      BY <3>1, <3>2
  <2>3. temp'[m] # "none" =>
            \/ pc'[m] \in {"import", "transcribe", "cleanup"}
            \/ /\ kind[m] = "link" /\ temp'[m] = "partial"
               /\ pc'[m] \in {"record_trigger", "settings", "render", "enqueue"} \cup Ended
    <3> USE DEF Go, fileVars, Ended
    <3>1. CASE RecordAmbient(m) \/ RecordCommand(m)
      BY <3>1 DEF RecordAmbient, RecordCommand
    <3>2. CASE Ensure(m) \/ EnsureFails(m)
      BY <3>2 DEF Ensure, EnsureFails
    <3>3. CASE Download(m) \/ FetchSnapshot(m)
      BY <3>3 DEF Download, FetchSnapshot
    <3>4. CASE Import(m) \/ ImportSnapshot(m)
      BY <3>4 DEF Import, ImportSnapshot, CopyToWorkspace
    <3>5. CASE Transcribe(m) \/ Cleanup(m)
      BY <3>5 DEF Transcribe, Cleanup
    <3>6. CASE RecordTrigger(m) \/ ReadSettings(m) \/ Render(m)
      BY <3>6 DEF RecordTrigger, ReadSettings, Render
    <3>7. CASE Enqueue(m)
      BY <3>7 DEF Enqueue
    <3>8. CASE Summarize(m) \/ BeginReset(m) \/ ClearWorkspace(m) \/ FinishReset(m)
      BY <3>8 DEF Summarize, BeginReset, ClearWorkspace, FinishReset
    <3>9. CASE SetVoice(m) \/ OtherCommand(m)
      BY <3>9 DEF SetVoice, OtherCommand
    <3> QED
      BY <1>2, <3>1, <3>2, <3>3, <3>4, <3>5, <3>6, <3>7, <3>8, <3>9 DEF HandleMessage
  <2> QED
    BY <2>1, <2>2, <2>3
<1>3. CASE \/ \E i \in Messages : Work(i)
           \/ BeginTurn \/ DropQueued \/ UNCHANGED vars
  BY <1>3, RouterFacts DEF messageVars, fileVars
<1> QED
  BY <1>1, <1>2, <1>3 DEF Next

\* A request keeps its session: commands that take it away come one by one too.
LEMMA SessionStep ==
    ASSUME TypeOK, QueueTypes, FlowInv, ServingInv, SessionInv, [Next]_vars
    PROVE  SessionInv'
<1> USE ConversationAssumption DEF TypeOK, QueueTypes, SessionInv
<1>1. now' \in {0, newest'} /\ \A g \in 1..MaxGeneration : g > newest' => waiting'[g] = <<>>
  <2>1. CASE Queue!Replace
    BY <2>1 DEF Queue!Replace
  <2>2. ASSUME NEW i \in Messages, Queue!Accept(i)
        PROVE  now' \in {0, newest'} /\ \A g \in 1..MaxGeneration : g > newest' => waiting'[g] = <<>>
    BY <2>2 DEF Queue!Accept
  <2>3. CASE Queue!Begin
    BY <2>3 DEF Queue!Begin
  <2>4. ASSUME NEW g \in 1..MaxGeneration,
               Queue!Drop(g) \/ \E i \in Messages : Queue!Finish(g, i)
        PROVE  now' \in {0, newest'} /\ \A h \in 1..MaxGeneration : h > newest' => waiting'[h] = <<>>
    <3>1. UNCHANGED <<now, newest>> /\ (waiting' = waiting \/ waiting' = [waiting EXCEPT ![g] = <<>>])
      BY <2>4 DEF Queue!Drop, Queue!Finish
    <3> QED
      BY <3>1
  <2>5. CASE UNCHANGED queueVars
    BY <2>5 DEF queueVars
  <2> QED
    BY <2>1, <2>2, <2>3, <2>4, <2>5, QueueStep DEF Queue!Next
<1>2. ASSUME NEW k \in Kinds, Deliver(k)
      PROVE  /\ \A m \in Messages : pc'[m] \in NeedsSession => now' # 0
             /\ \A m \in Messages : pc'[m] = "clear" => now' = 0
  <2> SUFFICES ASSUME NEW m \in Messages, pc'[m] \in NeedsSession \cup {"clear"}
               PROVE  pc'[m] = pc[m] /\ now' = now
    BY DEF NeedsSession
  <2> QED
    BY <1>2, DeliverFacts DEF NeedsSession, queueVars
<1>3. ASSUME NEW m \in Messages, HandleMessage(m)
      PROVE  /\ \A x \in Messages : pc'[x] \in NeedsSession => now' # 0
             /\ \A x \in Messages : pc'[x] = "clear" => now' = 0
  <2>1. \A x \in Messages \ {m} : pc'[x] \notin NeedsSession \cup {"clear"}
    BY <1>3, ActiveIsLast DEF Active, NeedsSession, Ended
  <2>2. (pc'[m] \in NeedsSession => now' # 0) /\ (pc'[m] = "clear" => now' = 0)
    <3> USE DEF Go, NeedsSession, queueVars
    <3>1. CASE RecordAmbient(m) \/ RecordCommand(m)
      BY <3>1 DEF RecordAmbient, RecordCommand
    <3>2. CASE Ensure(m)
      BY <3>2 DEF Ensure
    <3>3. CASE EnsureFails(m) \/ Enqueue(m)
      BY <3>3 DEF EnsureFails, Enqueue
    <3>4. CASE Download(m) \/ FetchSnapshot(m)
      BY <3>4 DEF Download, FetchSnapshot
    <3>5. CASE Import(m) \/ ImportSnapshot(m)
      BY <3>5 DEF Import, ImportSnapshot, CopyToWorkspace
    <3>6. CASE Transcribe(m) \/ Cleanup(m)
      BY <3>6 DEF Transcribe, Cleanup
    <3>7. CASE RecordTrigger(m) \/ ReadSettings(m) \/ Render(m)
      BY <3>7 DEF RecordTrigger, ReadSettings, Render
    <3>8. CASE Summarize(m) \/ BeginReset(m) \/ ClearWorkspace(m) \/ FinishReset(m)
      BY <3>8 DEF Summarize, BeginReset, ClearWorkspace, FinishReset
    <3>9. CASE SetVoice(m) \/ OtherCommand(m)
      BY <3>9 DEF SetVoice, OtherCommand
    <3> QED
      BY <1>3, <3>1, <3>2, <3>3, <3>4, <3>5, <3>6, <3>7, <3>8, <3>9 DEF HandleMessage
  <2> QED
    BY <2>1, <2>2
<1>4. CASE \/ \E i \in Messages : Work(i)
           \/ BeginTurn \/ DropQueued \/ UNCHANGED vars
  <2>1. UNCHANGED pc /\ now' = now
    <3>1. ASSUME NEW i \in Messages, Work(i) PROVE now' = now
      BY <3>1 DEF Work, FinishTurn, BeginSpeech, Synthesize, KeepOrDiscard, SendSpeech, Say,
                  queueVars, Queue!Finish, Queue!Drop
    <3> QED
      BY <1>4, <3>1, RouterFacts
         DEF BeginTurn, DropQueued, vars, queueVars, Queue!Begin, Queue!Drop
  <2> QED
    BY <2>1, <1>1
<1> QED
  BY <1>1, <1>2, <1>3, <1>4 DEF Next

\* A running item is the one its session serves.
LEMMA ServingStep ==
    ASSUME TypeOK, QueueTypes, ServingInv, [Next]_vars
    PROVE  ServingInv'
<1> USE ConversationAssumption DEF TypeOK, QueueTypes, ServingInv
<1>1. CASE Queue!Replace
  BY <1>1 DEF Queue!Replace
<1>2. ASSUME NEW i \in Messages, Queue!Accept(i) PROVE ServingInv'
  BY <1>2 DEF Queue!Accept
<1>3. CASE Queue!Begin
  <2>1. now \in 1..MaxGeneration
    BY <1>3 DEF Queue!Begin
  <2>2. Head(waiting[now]) \in Messages
    BY <1>3, <2>1, HeadTailProperties DEF Queue!Begin
  <2> QED
    BY <1>3, <2>1, <2>2 DEF Queue!Begin
<1>4. ASSUME NEW g \in 1..MaxGeneration, NEW i \in Messages, Queue!Finish(g, i)
      PROVE  ServingInv'
  BY <1>4 DEF Queue!Finish
<1>5. ASSUME NEW g \in 1..MaxGeneration, Queue!Drop(g) PROVE ServingInv'
  BY <1>5 DEF Queue!Drop
<1>6. CASE UNCHANGED queueVars
  BY <1>6 DEF queueVars
<1> QED
  BY <1>1, <1>2, <1>3, <1>4, <1>5, <1>6, QueueStep DEF Queue!Next

\* A reply is kept only while voice is on, and was made already.
LEMMA SpeechStep ==
    ASSUME TypeOK, SpeechInv, [Next]_vars
    PROVE  SpeechInv'
<1> USE DEF TypeOK, SpeechInv
<1>1. ASSUME NEW k \in Kinds, Deliver(k) PROVE SpeechInv'
  BY <1>1, DeliverFacts DEF voiceVars
<1>2. ASSUME NEW m \in Messages, HandleMessage(m) PROVE SpeechInv'
  <2>1. CASE ReadSettings(m)
    BY <2>1 DEF ReadSettings
  <2>2. CASE SetVoice(m)
    BY <2>2 DEF SetVoice
  <2>3. CASE ~(ReadSettings(m) \/ SetVoice(m))
    <3>1. UNCHANGED voiceVars
      BY <1>2, <2>3 DEF HandleMessage, RecordAmbient, RecordCommand, Ensure, EnsureFails,
         Download, FetchSnapshot, Import, ImportSnapshot, CopyToWorkspace, Transcribe, Cleanup,
         RecordTrigger, Render, Enqueue, Summarize, BeginReset, ClearWorkspace, FinishReset,
         OtherCommand
    <3> QED
      BY <3>1 DEF voiceVars
  <2> QED
    BY <2>1, <2>2, <2>3
<1>3. ASSUME NEW i \in Messages, Work(i) PROVE SpeechInv'
  <2>1. CASE FinishTurn(i)
    BY <2>1 DEF FinishTurn, voiceVars
  <2>2. CASE BeginSpeech(i)
    BY <2>2 DEF BeginSpeech, Say
  <2>3. CASE Synthesize(i)
    BY <2>3 DEF Synthesize, Say
  <2>4. CASE KeepOrDiscard(i)
    <3>1. PICK on \in VoiceEnabled :
               speech' = [speech EXCEPT ![i] = IF on THEN "kept" ELSE "skipped"]
      BY <2>4 DEF KeepOrDiscard, Say
    <3>2. speech[i] = "made" /\ UNCHANGED <<voice, allowed>>
      BY <2>4 DEF KeepOrDiscard, Say
    <3>3. CASE on
      <4>1. voice
        BY <3>3 DEF VoiceEnabled
      <4> QED
        BY <3>1, <3>2, <3>3, <4>1
    <3>4. CASE ~on
      BY <3>1, <3>2, <3>4
    <3> QED
      BY <3>3, <3>4
  <2>5. CASE SendSpeech(i)
    BY <2>5 DEF SendSpeech, Say
  <2> QED
    BY <1>3, <2>1, <2>2, <2>3, <2>4, <2>5 DEF Work
<1>4. CASE BeginTurn \/ DropQueued \/ UNCHANGED vars
  BY <1>4 DEF BeginTurn, DropQueued, vars, voiceVars
<1> QED
  BY <1>1, <1>2, <1>3, <1>4 DEF Next

\* An import offers the file of its own message, and the workspace is cleared by
\* a message that is under way itself.
LEMMA OfferedStep ==
    ASSUME TypeOK, FlowInv, OfferedInv, [Next]_vars
    PROVE  OfferedInv'
<1> USE DEF TypeOK, OfferedInv
<1>1. ASSUME NEW k \in Kinds, Deliver(k) PROVE OfferedInv'
  <2>1. offered' = offered /\ files' = files
    BY <1>1, DeliverFacts DEF fileVars
  <2>2. \A m \in offered : m # delivered + 1
    BY DEF FlowInv, Messages, Ended
  <2>3. \A m \in offered : pc'[m] = pc[m]
    BY <1>1, <2>2, DeliverFacts
  <2> QED
    BY <2>1, <2>3 DEF Active
<1>2. ASSUME NEW m \in Messages, HandleMessage(m) PROVE OfferedInv'
  <2>1. \A x \in Messages \ {m} : ~Active(x) /\ ~Active(x)' /\ pc'[x] = pc[x]
    BY <1>2, ActiveIsLast DEF Active
  <2>2. CASE Import(m) \/ ImportSnapshot(m)
    <3>1. offered' \subseteq offered \cup {m} /\ (m \in offered' => m \in files')
      BY <2>2 DEF Import, ImportSnapshot, CopyToWorkspace, Ended
    <3>2. pc'[m] \in {"transcribe", "cleanup"}
      BY <2>2 DEF Import, ImportSnapshot, CopyToWorkspace, Go
    <3> QED
      BY <2>1, <3>1, <3>2
  <2>3. CASE ClearWorkspace(m)
    <3>1. m \notin offered /\ offered' = offered
      BY <2>3 DEF ClearWorkspace, Ended
    <3> QED
      BY <2>1, <3>1
  <2>4. CASE ~(Import(m) \/ ImportSnapshot(m) \/ ClearWorkspace(m))
    <3>1. offered' = offered /\ files' = files
      BY <1>2, <2>4 DEF HandleMessage, RecordAmbient, RecordCommand, Ensure, EnsureFails,
         Download, FetchSnapshot, Transcribe, Cleanup, RecordTrigger, ReadSettings, Render,
         Enqueue, Summarize, BeginReset, FinishReset, SetVoice, OtherCommand, fileVars
    <3>2. m \in offered
              => pc'[m] \in {"cleanup", "record_trigger", "settings", "render", "enqueue"}
                           \cup Ended
      <4> SUFFICES ASSUME m \in offered
                   PROVE  pc'[m] \in {"cleanup", "record_trigger", "settings", "render", "enqueue"}
                                     \cup Ended
        OBVIOUS
      <4>1. pc[m] \in {"transcribe", "cleanup", "record_trigger", "settings", "render", "enqueue"}
        BY <1>2, HandlerFacts DEF Active
      <4>2. Transcribe(m) \/ Cleanup(m) \/ RecordTrigger(m) \/ ReadSettings(m) \/ Render(m)
              \/ Enqueue(m)
        BY <1>2, <4>1 DEF HandleMessage, RecordAmbient, RecordCommand, Ensure, EnsureFails,
           Download, FetchSnapshot, Import, ImportSnapshot, Summarize, BeginReset,
           ClearWorkspace, FinishReset, SetVoice, OtherCommand
      <4> QED
        BY <4>2 DEF Transcribe, Cleanup, RecordTrigger, ReadSettings, Render, Enqueue, Go, Ended
    <3>3. m \in offered => m \in files
      BY <1>2, HandlerFacts
    <3> QED
      BY <2>1, <3>1, <3>2, <3>3
  <2> QED
    BY <2>2, <2>3, <2>4
<1>3. CASE \/ \E i \in Messages : Work(i)
           \/ BeginTurn \/ DropQueued \/ UNCHANGED vars
  BY <1>3, RouterFacts DEF fileVars, Active
<1> QED
  BY <1>1, <1>2, <1>3 DEF Next

\* Only what is accepted comes to wait.
LEMMA WaitsStep ==
    ASSUME TypeOK, QueueTypes, NEW i \in Messages, NEW g \in 1..MaxGeneration,
           Queue!Next \/ UNCHANGED queueVars, Waits(i, g)'
    PROVE  Waits(i, g) \/ (Queue!Accept(i) /\ g = now)
<1> USE DEF TypeOK, QueueTypes, Waits
<1>1. ASSUME NEW j \in Messages, Queue!Accept(j)
      PROVE  Waits(i, g) \/ (Queue!Accept(i) /\ g = now)
  <2>1. CASE g # now
    BY <1>1, <2>1 DEF Queue!Accept
  <2>2. CASE g = now
    <3> DEFINE s == waiting[now]
    <3>1. s \in Seq(Messages) /\ waiting'[now] = Append(s, j)
      BY <1>1, <2>2 DEF Queue!Accept
    <3>2. PICK k \in DOMAIN Append(s, j) : Append(s, j)[k] = i
      BY <2>2, <3>1
    <3>3. /\ DOMAIN Append(s, j) = 1..(Len(s) + 1) /\ DOMAIN s = 1..Len(s) /\ Len(s) \in Nat
          /\ \A n \in 1..Len(s) : Append(s, j)[n] = s[n]
          /\ Append(s, j)[Len(s) + 1] = j
      BY <3>1, AppendProperties, LenProperties
    <3>4. k \in DOMAIN s \/ i = j
      BY <3>2, <3>3
    <3> QED
      BY <2>2, <3>2, <3>3, <3>4, <1>1
  <2> QED
    BY <2>1, <2>2
<1>2. CASE Queue!Begin
  <2>1. CASE g # now
    BY <1>2, <2>1 DEF Queue!Begin
  <2>2. CASE g = now
    <3> DEFINE s == waiting[now]
    <3>1. s \in Seq(Messages) /\ s # <<>> /\ waiting'[now] = Tail(s)
      BY <1>2, <2>2 DEF Queue!Begin
    <3>2. /\ DOMAIN Tail(s) = 1..(Len(s) - 1) /\ DOMAIN s = 1..Len(s) /\ Len(s) \in Nat
          /\ \A n \in 1..(Len(s) - 1) : Tail(s)[n] = s[n + 1]
      BY <3>1, HeadTailProperties, LenProperties
    <3>3. PICK k \in 1..(Len(s) - 1) : Tail(s)[k] = i
      BY <2>2, <3>1, <3>2
    <3>4. k + 1 \in DOMAIN s /\ s[k + 1] = i
      BY <3>2, <3>3
    <3> QED
      BY <2>2, <3>4
  <2> QED
    BY <2>1, <2>2
<1>3. CASE Queue!Replace \/ UNCHANGED queueVars
  BY <1>3 DEF Queue!Replace, queueVars
<1>4. ASSUME NEW h \in 1..MaxGeneration,
             Queue!Drop(h) \/ \E j \in Messages : Queue!Finish(h, j)
      PROVE  Waits(i, g)
  <2>1. waiting' = waiting \/ waiting' = [waiting EXCEPT ![h] = <<>>]
    BY <1>4 DEF Queue!Drop, Queue!Finish
  <2>2. waiting'[g] = waiting[g] \/ waiting'[g] = <<>>
    BY <2>1
  <2> QED
    BY <2>2
<1> QED
  BY <1>1, <1>2, <1>3, <1>4 DEF Queue!Next

\* A new session has nothing in its queue.
LEMMA NowStep ==
    ASSUME TypeOK, QueueTypes, SessionInv, Queue!Next \/ UNCHANGED queueVars
    PROVE  now' = now \/ now' = 0 \/ \A i \in Messages : ~Waits(i, now')
<1>1. CASE Queue!Replace /\ now' # 0
  <2>1. now' \in 1..MaxGeneration /\ now' > newest
    BY <1>1 DEF Queue!Replace
  <2>2. waiting[now'] = <<>>
    BY <2>1 DEF SessionInv
  <2> QED
    BY <2>2 DEF Waits
<1>2. CASE ~Queue!Replace
  BY <1>2 DEF Queue!Next, Queue!Accept, Queue!Begin, Queue!Drop, Queue!Finish, queueVars
<1> QED
  BY <1>1, <1>2

\* The workspace is cleared while the chat has no session, and the next session
\* begins with an empty queue.
LEMMA WaitingStep ==
    ASSUME TypeOK, QueueTypes, FlowInv, SessionInv, ServingInv, OfferedInv, WaitingInv, [Next]_vars
    PROVE  WaitingInv'
<1> USE ConversationAssumption
<1>0. /\ Queue!Next \/ UNCHANGED queueVars
      /\ now' = now \/ now' = 0 \/ \A i \in Messages : ~Waits(i, now')
      /\ 0 \notin 1..MaxGeneration
  BY QueueStep, NowStep
<1> SUFFICES ASSUME NEW i \in Messages, NEW g \in 1..MaxGeneration, Waits(i, g)'
             PROVE  pc'[i] = "queued" /\ (g = now' /\ i \in offered' => i \in files')
  BY DEF WaitingInv
<1>1. Waits(i, g) \/ (Queue!Accept(i) /\ g = now)
  BY <1>0, WaitsStep
<1>2. ASSUME NEW k \in Kinds, Deliver(k)
      PROVE  pc'[i] = "queued" /\ (g = now' /\ i \in offered' => i \in files')
  <2>1. UNCHANGED <<offered, files>> /\ UNCHANGED queueVars
    BY <1>2, DeliverFacts DEF fileVars
  <2>2. Waits(i, g) /\ now' = now
    BY <2>1 DEF Waits, queueVars
  <2>3. pc[i] = "queued" /\ i # delivered + 1
    BY <2>2 DEF WaitingInv, FlowInv, TypeOK, Messages
  <2>4. delivered' = delivered + 1 /\ pc' = [pc EXCEPT ![delivered'] = pc'[delivered']]
    BY <1>2, DeliverFacts
  <2>5. pc'[i] = pc[i]
    BY <2>3, <2>4 DEF TypeOK
  <2> QED
    BY <2>1, <2>2, <2>3, <2>5 DEF WaitingInv
<1>3. ASSUME NEW m \in Messages, HandleMessage(m)
      PROVE  pc'[i] = "queued" /\ (g = now' /\ i \in offered' => i \in files')
  <2>0. Waits(i, g) => i # m /\ pc'[i] = "queued"
    <3>1. pc[m] # "queued"
      BY <1>3, HandlerFacts DEF Active, Ended
    <3> QED
      BY <1>3, <3>1, ActiveIsLast DEF WaitingInv
  <2>1. CASE Enqueue(m)
    <3>1. UNCHANGED <<offered, files>>
      BY <2>1 DEF Enqueue, fileVars
    <3>2. UNCHANGED queueVars \/ (Queue!Accept(m) /\ pc'[m] = "queued")
      BY <2>1 DEF Enqueue, Go, TypeOK
    <3>3. now' = now
      BY <3>2 DEF Queue!Accept, queueVars
    <3>4. m \in offered => m \in files
      BY <2>1 DEF Enqueue, OfferedInv, Active, Ended
    <3>5. CASE Waits(i, g)
      BY <2>0, <3>1, <3>3, <3>5 DEF WaitingInv
    <3>6. CASE ~Waits(i, g)
      <4>1. Queue!Accept(m) /\ pc'[m] = "queued"
        BY <3>2, <3>6 DEF Waits, queueVars
      <4>2. i = m
        <5>1. fate'[i] = "accepted" /\ fate[i] = "new"
          BY <1>1, <3>6 DEF Queue!Accept, QueueTypes
        <5> QED
          BY <4>1, <5>1 DEF Queue!Accept, QueueTypes
      <4> QED
        BY <3>1, <3>4, <4>1, <4>2
    <3> QED
      BY <3>5, <3>6
  <2>2. CASE ~Enqueue(m)
    <3>1. waiting' = waiting
      BY <1>3, <2>2 DEF HandleMessage, RecordAmbient, RecordCommand, Ensure, EnsureFails,
         Download, FetchSnapshot, Import, ImportSnapshot, CopyToWorkspace, Transcribe, Cleanup,
         RecordTrigger, ReadSettings, Render, Summarize, BeginReset, ClearWorkspace, FinishReset,
         SetVoice, OtherCommand, queueVars, Queue!Replace
    <3>2. Waits(i, g)
      BY <3>1 DEF Waits
    <3>3. i # m /\ pc'[i] = "queued"
      BY <2>0, <3>2
    <3>4. ASSUME g = now' PROVE g = now
      BY <1>0, <3>2, <3>4 DEF Waits
    <3>5. CASE ClearWorkspace(m)
      BY <1>0, <2>0, <3>2, <3>4, <3>5 DEF ClearWorkspace, SessionInv
    <3>6. CASE ~ClearWorkspace(m)
      <4>1. files \subseteq files' /\ offered' \subseteq offered \cup {m}
        BY <1>3, <2>2, <3>6 DEF HandleMessage, RecordAmbient, RecordCommand, Ensure, EnsureFails,
           Download, FetchSnapshot, Import, ImportSnapshot, CopyToWorkspace, Transcribe, Cleanup,
           RecordTrigger, ReadSettings, Render, Summarize, BeginReset, FinishReset,
           SetVoice, OtherCommand, fileVars
      <4> QED
        BY <3>2, <3>3, <3>4, <4>1 DEF WaitingInv
    <3> QED
      BY <3>5, <3>6
  <2> QED
    BY <2>1, <2>2
<1>4. CASE \/ \E x \in Messages : Work(x)
           \/ BeginTurn \/ DropQueued \/ UNCHANGED vars
  <2>1. UNCHANGED <<pc, offered, files>>
    BY <1>4, RouterFacts DEF fileVars
  <2>2. now' = now
    BY <1>4 DEF Work, FinishTurn, BeginSpeech, Synthesize, KeepOrDiscard, SendSpeech, Say,
                BeginTurn, DropQueued, vars, queueVars, Queue!Begin, Queue!Drop, Queue!Finish
  <2>3. fate'[i] # "accepted" \/ fate'[i] = fate[i]
    BY <1>4 DEF Work, FinishTurn, BeginSpeech, Synthesize, KeepOrDiscard, SendSpeech, Say,
                BeginTurn, DropQueued, vars, queueVars, Queue!Begin, Queue!Drop, Queue!Finish,
                QueueTypes
  <2>4. Waits(i, g)
    BY <1>1, <2>3 DEF Queue!Accept, QueueTypes
  <2> QED
    BY <2>1, <2>2, <2>4 DEF WaitingInv
<1> QED
  BY <1>2, <1>3, <1>4 DEF Next

-----------------------------------------------------------------------------
(* The rolling buffer. *)

\* Every set of messages is finite, and a message is a number.
LEMMA MessageSets ==
    /\ Messages \subseteq Nat
    /\ \A S \in SUBSET Messages : IsFiniteSet(S)
    /\ Capacity \in Nat /\ Capacity >= 1
<1>1. Messages \subseteq Nat /\ Capacity \in Nat /\ Capacity >= 1
  BY ConversationAssumption DEF Messages
<1>2. IsFiniteSet(Messages)
  BY ConversationAssumption, FS_Interval DEF Messages
<1> QED
  BY <1>1, <1>2, FS_Subset

\* A message after all others goes to the end.
LEMMA LastAppend ==
    ASSUME NEW s \in Seq(Messages), NEW R \in SUBSET Messages, LastOf(s, R),
           NEW m \in Messages, \A x \in R : x < m
    PROVE  LastOf(Append(s, m), R \cup {m})
<1> DEFINE a == Append(s, m)
           Q == R \cup {m}
<1>1. PICK n \in Nat : n = Len(s)
  BY LenProperties
<1>2. Len(a) = n + 1 /\ DOMAIN a = 1..(n + 1) /\ DOMAIN s = 1..n
  BY <1>1, AppendProperties, LenProperties
<1>3. a[n + 1] = m /\ \A i \in 1..n : a[i] = s[i]
  BY <1>1, AppendProperties
<1>4. /\ \A i \in 1..n : s[i] \in R /\ s[i] < m /\ s[i] \in Nat
      /\ \A i, j \in 1..n : i < j => s[i] < s[j]
      /\ \A i \in 1..n : Cardinality({y \in R : y > s[i]}) = n - i
  BY <1>1, <1>2, MessageSets DEF LastOf
<1>5. Q = R \cup {m} /\ m \in Nat /\ R \subseteq Nat
  BY MessageSets
<1> HIDE DEF a, Q
<1>6. \A i \in 1..(n + 1) : a[i] \in Q
  BY <1>1, <1>3, <1>4, <1>5
<1>7. \A i, j \in 1..(n + 1) : i < j => a[i] < a[j]
  BY <1>1, <1>3, <1>4
<1>8. ASSUME NEW i \in 1..(n + 1) PROVE Cardinality({y \in Q : y > a[i]}) = (n + 1) - i
  <2>1. CASE i = n + 1
    <3>1. \A y \in Q : y \in Nat /\ ~(y > m)
      <4> SUFFICES ASSUME NEW y \in Q PROVE y \in Nat /\ ~(y > m)
        OBVIOUS
      <4>1. y = m \/ (y \in R /\ y < m /\ y \in Nat)
        BY <1>5
      <4> QED
        BY <1>5, <4>1
    <3>2. {y \in Q : y > m} = {}
      BY <3>1
    <3>3. a[i] = m /\ (n + 1) - i = 0
      BY <1>3, <2>1
    <3> QED
      BY <3>2, <3>3, FS_EmptySet
  <2>2. CASE i # n + 1
    <3>1. i \in 1..n /\ a[i] = s[i]
      BY <1>1, <1>3, <2>2
    <3> DEFINE L == {y \in R : y > s[i]}
    <3>2. {y \in Q : y > a[i]} = L \cup {m} /\ m \notin L
      BY <1>4, <1>5, <3>1
    <3>3. IsFiniteSet(L)
      BY MessageSets
    <3>4. Cardinality(L \cup {m}) = Cardinality(L) + 1
      BY <3>2, <3>3, FS_AddElement
    <3>5. Cardinality(L) = n - i
      BY <1>4, <3>1
    <3>6. Cardinality({y \in Q : y > a[i]}) = (n - i) + 1
      BY <3>2, <3>4, <3>5
    <3> QED
      BY <1>1, <3>1, <3>6
  <2> QED
    BY <2>1, <2>2
<1>9. LastOf(a, Q)
  BY <1>2, <1>6, <1>7, <1>8 DEF LastOf
<1> QED
  BY <1>9 DEF a, Q

\* The last ones but the first.
LEMMA LastTail ==
    ASSUME NEW a \in Seq(Messages), a # <<>>, NEW Q, LastOf(a, Q)
    PROVE  LastOf(Tail(a), Q)
<1> DEFINE t == Tail(a)
<1>1. PICK n \in Nat : Len(a) = n + 1
  BY LenProperties, EmptySeq
<1>2. Len(t) = n /\ DOMAIN t = 1..n /\ DOMAIN a = 1..(n + 1)
  BY <1>1, HeadTailProperties, LenProperties
<1>3. \A i \in 1..n : t[i] = a[i + 1]
  BY <1>1, <1>2, HeadTailProperties
<1>4. /\ \A i \in 1..(n + 1) : a[i] \in Q
      /\ \A i, j \in 1..(n + 1) : i < j => a[i] < a[j]
      /\ \A i \in 1..(n + 1) : Cardinality({y \in Q : y > a[i]}) = (n + 1) - i
  BY <1>1, <1>2 DEF LastOf
<1> HIDE DEF t
<1>5. \A i \in 1..n : i + 1 \in 1..(n + 1)
  BY <1>1
<1>6. (\A i \in 1..n : t[i] \in Q) /\ \A i, j \in 1..n : i < j => t[i] < t[j]
  BY <1>1, <1>3, <1>4, <1>5
<1>7. ASSUME NEW i \in 1..n PROVE Cardinality({y \in Q : y > t[i]}) = n - i
  <2>1. Cardinality({y \in Q : y > a[i + 1]}) = (n + 1) - (i + 1)
    BY <1>4, <1>5
  <2>2. t[i] = a[i + 1]
    BY <1>3
  <2>3. (n + 1) - (i + 1) = n - i
    BY <1>1
  <2> QED
    BY <2>1, <2>2, <2>3
<1>8. LastOf(t, Q)
  BY <1>2, <1>6, <1>7 DEF LastOf
<1> QED
  BY <1>8 DEF t

\* A push keeps the newest messages, the pushed one among them.
LEMMA KeptPush ==
    ASSUME NEW s \in Seq(Messages), NEW R \in SUBSET Messages, KeptOf(s, R),
           NEW m \in Messages, \A x \in R : x < m
    PROVE  KeptOf(Newest(Append(s, m)), R \cup {m})
<1> DEFINE a == Append(s, m)
           t == Tail(a)
           Q == R \cup {m}
<1>1. PICK n \in Nat : n = Len(s)
  BY LenProperties
<1>2. a \in Seq(Messages) /\ a # <<>> /\ Len(a) = n + 1 /\ DOMAIN a = 1..(n + 1) /\ DOMAIN s = 1..n
  BY <1>1, AppendProperties, LenProperties
<1>3. a[n + 1] = m /\ \A i \in 1..n : a[i] = s[i]
  BY <1>1, AppendProperties
<1>4. LastOf(a, Q)
  BY LastAppend DEF KeptOf
<1>5. n <= Capacity /\ \A x \in R : x \in ToSet(s) \/ (n = Capacity /\ x < s[1])
  BY <1>1 DEF KeptOf
<1>6. \A x \in ToSet(s) : \E k \in 1..n : x = a[k]
  BY <1>2, <1>3 DEF ToSet
<1>7. Newest(a) = IF n + 1 > Capacity THEN t ELSE a
  BY <1>2 DEF Newest
<1>8. Len(t) = n /\ DOMAIN t = 1..n /\ \A i \in 1..n : t[i] = a[i + 1]
  <2>1. t \in Seq(Messages) /\ Len(t) = n /\ \A i \in 1..Len(t) : t[i] = a[i + 1]
    BY <1>1, <1>2, HeadTailProperties
  <2> QED
    BY <2>1, LenProperties
<1>9. LastOf(t, Q)
  BY <1>2, <1>4, LastTail
<1>10. \A x \in Q : x = m \/ x \in R
  OBVIOUS
<1> HIDE DEF a, t, Q
<1>11. CASE n + 1 <= Capacity
  <2>1. \A x \in Q : x \in ToSet(a)
    <3> SUFFICES ASSUME NEW x \in Q PROVE \E k \in 1..(n + 1) : x = a[k]
      BY <1>2 DEF ToSet
    <3>1. CASE x = m
      BY <1>1, <1>3, <3>1
    <3>2. CASE x \in R
      <4>1. x \in ToSet(s)
        BY <1>1, <1>5, <1>11, <3>2, MessageSets
      <4> QED
        BY <1>1, <1>6, <4>1
    <3> QED
      BY <1>10, <3>1, <3>2
  <2>2. KeptOf(a, Q)
    BY <1>2, <1>4, <1>11, <2>1 DEF KeptOf
  <2>3. Newest(a) = a
    BY <1>1, <1>7, <1>11, MessageSets
  <2> QED
    BY <2>2, <2>3 DEF a, Q
<1>12. CASE n + 1 > Capacity
  <2>1. n = Capacity /\ n >= 1
    BY <1>1, <1>5, <1>12, MessageSets
  <2>2. a[1] = s[1] /\ t[1] = a[2] /\ 1 \in 1..n
    BY <1>1, <1>3, <1>8, <2>1
  <2>3. a[1] < t[1] /\ a[1] \in Nat /\ t[1] \in Nat
    <3>1. 1 \in DOMAIN a /\ 2 \in DOMAIN a
      BY <1>1, <1>2, <2>1
    <3>2. a[1] < a[2]
      BY <3>1, <1>4 DEF LastOf
    <3>3. a[1] \in Messages /\ a[2] \in Messages
      BY <3>1, <1>2, ElementOfSeq
    <3> QED
      BY <2>2, <3>2, <3>3, MessageSets
  <2>4. ASSUME NEW x \in Q PROVE x \in ToSet(t) \/ x < t[1]
    <3>1. CASE x = m
      <4>1. n \in 1..n /\ t[n] = m
        BY <1>1, <1>3, <1>8, <2>1
      <4> QED
        BY <1>8, <3>1, <4>1 DEF ToSet
    <3>2. CASE x \in ToSet(s)
      <4>1. PICK k \in 1..n : x = a[k]
        BY <1>6, <3>2
      <4>2. CASE k = 1
        BY <2>3, <4>1, <4>2
      <4>3. CASE k # 1
        <5>1. k - 1 \in 1..n /\ t[k - 1] = a[(k - 1) + 1]
          BY <1>1, <1>8, <4>3
        <5>2. (k - 1) + 1 = k
          OBVIOUS
        <5>3. k - 1 \in DOMAIN t /\ t[k - 1] = x
          BY <1>8, <4>1, <5>1, <5>2
        <5> QED
          BY <5>3 DEF ToSet
      <4> QED
        BY <4>2, <4>3
    <3>3. CASE x \in R /\ x < s[1]
      <4>1. x \in Nat
        BY <3>3, MessageSets
      <4> QED
        BY <2>2, <2>3, <3>3, <4>1
    <3> QED
      BY <1>5, <1>10, <3>1, <3>2, <3>3
  <2>5. Len(t) <= Capacity /\ Len(t) = Capacity
    BY <1>1, <1>8, <2>1
  <2>6. KeptOf(t, Q)
    BY <1>9, <2>4, <2>5 DEF KeptOf
  <2>7. Newest(a) = t
    BY <1>7, <1>12
  <2> QED
    BY <2>6, <2>7 DEF a, Q
<1> QED
  BY <1>1, <1>11, <1>12, MessageSets

\* What is kept is the newest messages in order.
LEMMA KeptInOrder ==
    ASSUME NEW s \in Seq(Messages), NEW R \in SUBSET Messages, KeptOf(s, R)
    PROVE  InOrder(s, NewestOf(R))
<1>1. PICK n \in Nat : n = Len(s) /\ DOMAIN s = 1..n
  BY LenProperties
<1>2. /\ n <= Capacity
      /\ \A i \in 1..n : s[i] \in R /\ Cardinality({y \in R : y > s[i]}) = n - i
      /\ \A x \in R : x \in ToSet(s) \/ (n = Capacity /\ x < s[1])
  BY <1>1 DEF KeptOf, LastOf
<1>3. ToSet(s) \subseteq NewestOf(R)
  <2> SUFFICES ASSUME NEW i \in 1..n PROVE s[i] \in NewestOf(R)
    BY <1>1 DEF ToSet
  <2>1. n - i < Capacity
    BY <1>1, <1>2, MessageSets
  <2> QED
    BY <1>2, <2>1 DEF NewestOf
<1>4. NewestOf(R) \subseteq ToSet(s)
  <2> SUFFICES ASSUME NEW x \in NewestOf(R), x \notin ToSet(s) PROVE FALSE
    OBVIOUS
  <2>1. x \in R /\ Cardinality({y \in R : y > x}) < Capacity
    BY DEF NewestOf
  <2>2. n = Capacity /\ x < s[1]
    BY <1>2, <2>1
  <2>3. 1 \in 1..n
    BY <1>1, <2>2, MessageSets
  <2> DEFINE L == {y \in R : y > s[1]}
             M == {y \in R : y > x}
  <2>4. s[1] \in R /\ Cardinality(L) = n - 1
    BY <1>2, <2>3
  <2>5. x \in Nat /\ s[1] \in Nat /\ R \subseteq Nat
    BY <2>1, <2>4, MessageSets
  <2>6. s[1] \notin L
    <3>1. ~(s[1] > s[1])
      BY <2>5
    <3> QED
      BY <3>1
  <2>7. L \cup {s[1]} \subseteq M
    <3>1. \A y \in Nat : y > s[1] => y > x
      BY <2>2, <2>5
    <3>2. s[1] > x
      BY <2>2, <2>5
    <3> QED
      BY <2>4, <2>5, <3>1, <3>2
  <2>8. IsFiniteSet(L) /\ IsFiniteSet(M)
    BY MessageSets
  <2> HIDE DEF L, M
  <2>9. Cardinality(L \cup {s[1]}) = Cardinality(L) + 1
    BY <2>6, <2>8, FS_AddElement
  <2>10. Cardinality(L \cup {s[1]}) <= Cardinality(M) /\ Cardinality(M) \in Nat
    BY <2>7, <2>8, FS_Subset, FS_CardinalityType
  <2>11. Capacity <= Cardinality(M)
    BY <1>1, <2>2, <2>4, <2>9, <2>10, MessageSets
  <2>12. Cardinality(M) < Capacity
    BY <2>1 DEF M
  <2> QED
    BY <2>10, <2>11, <2>12, MessageSets
<1> QED
  BY <1>3, <1>4 DEF InOrder, KeptOf, LastOf

Pushes(m) == RecordAmbient(m) \/ RecordCommand(m) \/ RecordTrigger(m)

\* A message that is pushed comes after all in the buffer.
LEMMA PushFacts ==
    ASSUME TypeOK, FlowInv, RecordedInv, NEW m \in Messages, Pushes(m)
    PROVE  /\ m = delivered /\ m \notin recorded
           /\ \A x \in recorded : x < m
           /\ recent' = Newest(Append(recent, m))
           /\ recorded' = recorded \cup {m}
           /\ pc'[m] \in {"silent", "command", "settings", "render"}
<1>1. /\ m = delivered /\ pc[m] \in {"record", "record_trigger"}
      /\ recent' = Newest(Append(recent, m)) /\ recorded' = recorded \cup {m}
  BY ActiveIsLast DEF Pushes, HandleMessage, RecordAmbient, RecordCommand, RecordTrigger, Push
<1>2. m \notin recorded
  BY <1>1 DEF RecordedInv
<1>3. \A x \in recorded : x < m
  BY <1>1, <1>2, MessageSets DEF RecordedInv, TypeOK
<1>4. pc'[m] \in {"silent", "command", "settings", "render"}
  BY DEF Pushes, RecordAmbient, RecordCommand, RecordTrigger, Go, TypeOK
<1> QED
  BY <1>1, <1>2, <1>3, <1>4

\* Nothing else changes the buffer.
LEMMA OnlyPushes ==
    ASSUME TypeOK, [Next]_vars, \A m \in Messages : ~Pushes(m)
    PROVE  UNCHANGED <<recent, recorded>>
<1>1. ASSUME NEW k \in Kinds, Deliver(k) PROVE UNCHANGED <<recent, recorded>>
  BY <1>1, DeliverFacts DEF promptVars
<1>2. ASSUME NEW m \in Messages, HandleMessage(m) PROVE UNCHANGED <<recent, recorded>>
  BY <1>2 DEF Pushes, HandleMessage, Ensure, EnsureFails, Download, FetchSnapshot, Import,
     ImportSnapshot, CopyToWorkspace, Transcribe, Cleanup, ReadSettings, Render, Enqueue,
     Summarize, BeginReset, ClearWorkspace, FinishReset, SetVoice, OtherCommand, promptVars
<1>3. CASE \/ \E i \in Messages : Work(i)
           \/ BeginTurn \/ DropQueued \/ UNCHANGED vars
  BY <1>3, RouterFacts DEF promptVars
<1> QED
  BY <1>1, <1>2, <1>3 DEF Next

\* A message gets to its push at most once.
LEMMA RecordedStep ==
    ASSUME TypeOK, FlowInv, RecordedInv, [Next]_vars
    PROVE  RecordedInv'
<1> USE DEF TypeOK, RecordedInv
<1>1. ASSUME NEW k \in Kinds, Deliver(k) PROVE RecordedInv'
  <2>1. /\ delivered' = delivered + 1 /\ recorded' = recorded
        /\ pc' = [pc EXCEPT ![delivered'] = pc'[delivered']]
        /\ kind' = [kind EXCEPT ![delivered'] = k]
        /\ pc'[delivered'] \in {"silent", "record", "ensure", "replied"}
    BY <1>1, DeliverFacts DEF promptVars
  <2>2. delivered' \notin recorded /\ recorded' \subseteq 1..delivered'
    BY <2>1
  <2>3. \A m \in Messages : m # delivered' => pc'[m] = pc[m] /\ kind'[m] = kind[m]
    BY <2>1
  <2> QED
    BY <2>1, <2>2, <2>3
<1>2. ASSUME NEW m \in Messages, HandleMessage(m) PROVE RecordedInv'
  <2>1. /\ m = delivered /\ delivered' = delivered /\ kind' = kind
        /\ \A x \in Messages \ {m} :
               pc'[x] = pc[x] /\ pc[x] \in Ended \cup {"undelivered"}
    BY <1>2, ActiveIsLast, HandlerFacts DEF messageVars, Active
  <2>2. /\ recorded' \subseteq 1..delivered
        /\ pc'[m] \in {"record", "download", "import", "transcribe", "cleanup", "record_trigger"}
               => m \notin recorded'
        /\ pc'[m] = "ensure" /\ kind[m] # "summarize" => m \notin recorded'
        /\ pc'[m] \in {"settings", "render"} => m \in recorded'
    <3>1. CASE Pushes(m)
      <4>1. recorded' = recorded \cup {m} /\ pc'[m] \in {"silent", "command", "settings", "render"}
        BY <3>1, PushFacts
      <4>2. m \in 1..delivered
        BY <2>1, MessageSets DEF Messages
      <4> QED
        BY <4>1, <4>2
    <3>2. CASE ~Pushes(m)
      <4> USE DEF Go, promptVars
      <4>1. CASE Ensure(m)
        <5>1. pc[m] = "ensure" /\ recorded' = recorded
          BY <4>1 DEF Ensure
        <5>2. CASE kind[m] = "summarize"
          <6>1. pc'[m] = "enqueue"
            BY <4>1, <5>2 DEF Ensure, BringsFile, IsAudio
          <6> QED
            BY <5>1, <6>1
        <5>3. CASE kind[m] # "summarize"
          <6>1. m \notin recorded
            BY <5>1, <5>3
          <6>2. pc'[m] \in {"download", "record_trigger"}
            BY <4>1, <5>3 DEF Ensure
          <6> QED
            BY <5>1, <6>1, <6>2
        <5> QED
          BY <5>2, <5>3
      <4>2. CASE EnsureFails(m) \/ Enqueue(m)
        BY <4>2 DEF EnsureFails, Enqueue
      <4>3. CASE Download(m) \/ FetchSnapshot(m)
        BY <4>3 DEF Download, FetchSnapshot
      <4>4. CASE Import(m) \/ ImportSnapshot(m)
        BY <4>4 DEF Import, ImportSnapshot, CopyToWorkspace
      <4>5. CASE Transcribe(m) \/ Cleanup(m)
        BY <4>5 DEF Transcribe, Cleanup
      <4>6. CASE ReadSettings(m) \/ Render(m)
        BY <4>6 DEF ReadSettings, Render
      <4>7. CASE Summarize(m) \/ BeginReset(m) \/ ClearWorkspace(m) \/ FinishReset(m)
        BY <4>7 DEF Summarize, BeginReset, ClearWorkspace, FinishReset
      <4>8. CASE SetVoice(m) \/ OtherCommand(m)
        BY <4>8 DEF SetVoice, OtherCommand
      <4> QED
        BY <1>2, <3>2, <4>1, <4>2, <4>3, <4>4, <4>5, <4>6, <4>7, <4>8 DEF HandleMessage, Pushes
    <3> QED
      BY <3>1, <3>2
  <2> QED
    BY <2>1, <2>2 DEF Ended
<1>3. CASE \/ \E i \in Messages : Work(i)
           \/ BeginTurn \/ DropQueued \/ UNCHANGED vars
  BY <1>3, RouterFacts DEF promptVars, messageVars
<1> QED
  BY <1>1, <1>2, <1>3 DEF Next

\* The buffer keeps the newest of what was recorded.
LEMMA BufferStep ==
    ASSUME TypeOK, FlowInv, RecordedInv, BufferInv, [Next]_vars
    PROVE  BufferInv'
<1>1. ASSUME NEW m \in Messages, Pushes(m) PROVE BufferInv'
  <2>1. /\ recent' = Newest(Append(recent, m)) /\ recorded' = recorded \cup {m}
        /\ \A x \in recorded : x < m
    BY <1>1, PushFacts
  <2>2. recent \in Seq(Messages) /\ recorded \in SUBSET Messages /\ KeptOf(recent, recorded)
    BY DEF TypeOK, BufferInv
  <2>3. KeptOf(Newest(Append(recent, m)), recorded \cup {m})
    BY <2>1, <2>2, KeptPush
  <2> QED
    BY <2>1, <2>3 DEF BufferInv
<1>2. CASE \A m \in Messages : ~Pushes(m)
  <2>1. recent' = recent /\ recorded' = recorded
    BY <1>2, OnlyPushes
  <2> QED
    BY <2>1 DEF BufferInv
<1> QED
  BY <1>1, <1>2

\* Once a prompt is made, what it should hold does not change: pushes of later
\* messages are none of its business.
LEMMA PromptStep ==
    ASSUME TypeOK, TypeOK', FlowInv, RecordedInv, BufferInv, PromptInv, [Next]_vars
    PROVE  PromptInv'
<1> DEFINE Made(m) == \/ pc[m] \in {"enqueue", "queued"}
                      \/ pc[m] \in {"command", "ensure"} /\ kind[m] = "summarize"
<1>1. ASSUME NEW k \in Kinds, Deliver(k) PROVE PromptInv'
  <2>1. /\ delivered' = delivered + 1 /\ UNCHANGED <<prompt, recorded>>
        /\ pc' = [pc EXCEPT ![delivered'] = pc'[delivered']]
        /\ kind' = [kind EXCEPT ![delivered'] = k]
        /\ pc'[delivered'] \in {"silent", "record", "ensure", "replied"}
        /\ pc'[delivered'] = "ensure" => k \in {"text", "document", "voice", "captioned", "link"}
    BY <1>1, DeliverFacts DEF promptVars
  <2> SUFFICES ASSUME NEW m \in Messages, Made(m)' PROVE KeptOf(prompt'[m], Expected(m)')
    BY DEF PromptInv
  <2>2. m # delivered'
    BY <2>1 DEF TypeOK
  <2>3. pc'[m] = pc[m] /\ kind'[m] = kind[m]
    BY <2>1, <2>2 DEF TypeOK
  <2>4. KeptOf(prompt[m], Expected(m))
    BY <2>3 DEF PromptInv
  <2> QED
    BY <2>1, <2>3, <2>4 DEF Expected
<1>2. ASSUME NEW m \in Messages, HandleMessage(m) PROVE PromptInv'
  <2>1. /\ m = delivered /\ delivered' = delivered /\ kind' = kind
        /\ \A x \in Messages \ {m} : pc'[x] = pc[x]
    BY <1>2, ActiveIsLast, HandlerFacts DEF messageVars
  <2>2. \A x \in Messages \ {m} : prompt'[x] = prompt[x]
    <3>1. CASE RecordCommand(m) \/ Render(m)
      BY <3>1 DEF RecordCommand, Render, TypeOK
    <3>2. CASE ~(RecordCommand(m) \/ Render(m))
      BY <1>2, <3>2 DEF HandleMessage, RecordAmbient, Ensure, EnsureFails, Download, FetchSnapshot,
         Import, ImportSnapshot, CopyToWorkspace, Transcribe, Cleanup, RecordTrigger,
         ReadSettings, Enqueue, Summarize, BeginReset, ClearWorkspace, FinishReset, SetVoice,
         OtherCommand, promptVars
    <3> QED
      BY <3>1, <3>2
  <2>3. recorded' \in {recorded, recorded \cup {m}}
    <3>1. CASE Pushes(m)
      BY <3>1, PushFacts
    <3>2. CASE ~Pushes(m)
      BY <1>2, <3>2 DEF Pushes, HandleMessage, Ensure, EnsureFails, Download, FetchSnapshot,
         Import, ImportSnapshot, CopyToWorkspace, Transcribe, Cleanup, ReadSettings, Render,
         Enqueue, Summarize, BeginReset, ClearWorkspace, FinishReset, SetVoice, OtherCommand,
         promptVars
    <3> QED
      BY <3>1, <3>2
  <2>4. ASSUME NEW x \in Messages, x # m, Made(x)' PROVE KeptOf(prompt'[x], Expected(x)')
    <3>1. Made(x) /\ x < m
      BY <2>1, <2>4, MessageSets DEF FlowInv, TypeOK
    <3>2. Expected(x)' = Expected(x)
      <4>1. ~(m < x)
        BY <3>1, MessageSets
      <4> QED
        BY <2>1, <2>3, <4>1 DEF Expected
    <3> QED
      BY <2>2, <2>4, <3>1, <3>2 DEF PromptInv
  <2>5. ASSUME Made(m)' PROVE KeptOf(prompt'[m], Expected(m)')
    <3>1. CASE RecordCommand(m)
      <4>1. pc'[m] = "command"
        BY <3>1 DEF RecordCommand, Go, TypeOK
      <4>2. kind[m] = "summarize"
        BY <2>1, <2>5, <4>1
      <4>3. prompt'[m] = recent
        BY <3>1, <4>2 DEF RecordCommand, TypeOK
      <4>4. recorded' = recorded \cup {m} /\ \A x \in recorded : x < m
        BY <3>1, PushFacts DEF Pushes
      <4>5. Expected(m)' = recorded
        <5>1. ~(m < m)
          BY MessageSets
        <5> QED
          BY <2>1, <4>2, <4>4, <5>1 DEF Expected
      <4> QED
        BY <4>3, <4>5 DEF BufferInv
    <3>2. CASE Render(m)
      <4>1. pc[m] = "render" /\ prompt'[m] = recent /\ recorded' = recorded
        BY <3>2 DEF Render, TypeOK
      <4>2. kind[m] # "summarize" /\ m \in recorded
        BY <4>1 DEF FlowInv, RecordedInv
      <4>3. \A x \in recorded : x < m \/ x = m
        BY <2>1, MessageSets DEF RecordedInv
      <4>4. Expected(m)' = recorded
        BY <2>1, <4>1, <4>2, <4>3 DEF Expected
      <4> QED
        BY <4>1, <4>4 DEF BufferInv
    <3>3. CASE Summarize(m) \/ Enqueue(m) \/ Ensure(m)
      <4>1. UNCHANGED <<prompt, recorded>>
        BY <3>3 DEF Summarize, Enqueue, Ensure, promptVars
      <4>2. Made(m)
        BY <2>1, <2>5, <3>3 DEF Summarize, Enqueue, Ensure, Go, TypeOK
      <4>3. Expected(m)' = Expected(m)
        BY <2>1, <4>1 DEF Expected
      <4> QED
        BY <4>1, <4>2, <4>3 DEF PromptInv
    <3>4. CASE ~(RecordCommand(m) \/ Render(m) \/ Summarize(m) \/ Enqueue(m) \/ Ensure(m))
      <4>1. pc'[m] \notin {"enqueue", "queued", "command", "ensure"}
        <5> USE DEF Go, TypeOK
        <5>1. CASE RecordAmbient(m) \/ RecordTrigger(m)
          BY <5>1 DEF RecordAmbient, RecordTrigger
        <5>2. CASE EnsureFails(m) \/ Download(m) \/ FetchSnapshot(m)
          BY <5>2 DEF EnsureFails, Download, FetchSnapshot
        <5>3. CASE Import(m) \/ ImportSnapshot(m)
          BY <5>3 DEF Import, ImportSnapshot, CopyToWorkspace
        <5>4. CASE Transcribe(m) \/ Cleanup(m) \/ ReadSettings(m)
          BY <5>4 DEF Transcribe, Cleanup, ReadSettings
        <5>5. CASE BeginReset(m) \/ ClearWorkspace(m) \/ FinishReset(m)
          BY <5>5 DEF BeginReset, ClearWorkspace, FinishReset
        <5>6. CASE SetVoice(m) \/ OtherCommand(m)
          BY <5>6 DEF SetVoice, OtherCommand
        <5> QED
          BY <1>2, <3>4, <5>1, <5>2, <5>3, <5>4, <5>5, <5>6 DEF HandleMessage
      <4> QED
        BY <2>5, <4>1
    <3> QED
      BY <3>1, <3>2, <3>3, <3>4
  <2> QED
    BY <2>4, <2>5 DEF PromptInv
<1>3. CASE \/ \E i \in Messages : Work(i)
           \/ BeginTurn \/ DropQueued \/ UNCHANGED vars
  <2>1. UNCHANGED <<pc, kind, prompt, recorded>>
    BY <1>3, RouterFacts DEF promptVars, messageVars
  <2>2. \A m \in Messages : Expected(m)' = Expected(m)
    BY <2>1 DEF Expected
  <2> QED
    BY <2>1, <2>2 DEF PromptInv
<1> QED
  BY <1>1, <1>2, <1>3 DEF Next

-----------------------------------------------------------------------------
(* The theorems. *)

\* Before the first message everything is empty.
LEMMA ConversationInit == Init => ConversationInv
<1> SUFFICES ASSUME Init PROVE ConversationInv
  OBVIOUS
<1>1. /\ delivered = 0 /\ kind = [m \in Messages |-> "ambient"]
      /\ pc = [m \in Messages |-> "undelivered"] /\ recent = <<>>
      /\ prompt = [m \in Messages |-> <<>>] /\ offered = {} /\ transcribed = {}
      /\ files = {} /\ temp = [m \in Messages |-> "none"] /\ voice = TRUE
      /\ speech = [m \in Messages |-> "none"] /\ recorded = {} /\ allowed = {}
      /\ now = 0 /\ newest = 0 /\ fate = [m \in Messages |-> "new"]
      /\ waiting = [g \in 1..MaxGeneration |-> <<>>]
      /\ serving = [g \in 1..MaxGeneration |-> {}]
  BY DEF Init, Queue!Init
<1> USE ConversationAssumption
<1>2. TypeOK /\ QueueTypes
  <2>1. <<>> \in Seq(Messages) /\ Len(<<>>) = 0
    BY EmptySeq
  <2>2. 0 \in 0..MaxMessages /\ 0 \in 0..MaxGeneration /\ 0 <= Capacity
    OBVIOUS
  <2> QED
    BY <1>1, <2>1, <2>2 DEF TypeOK, QueueTypes, AllKinds, Ended, Settled
<1>3. FlowInv /\ SessionInv /\ TempInv /\ OfferedInv /\ SpeechInv /\ RecordedInv
  BY <1>1 DEF FlowInv, SessionInv, TempInv, OfferedInv, SpeechInv, RecordedInv,
              Active, NeedsSession, Messages
<1>4. WaitingInv /\ ServingInv /\ PromptInv
  BY <1>1 DEF WaitingInv, Waits, ServingInv, PromptInv
<1>5. BufferInv
  <2>1. recent = <<>> /\ recorded = {} /\ Len(recent) = 0 /\ DOMAIN recent = {}
    BY <1>1
  <2> QED
    BY <2>1 DEF BufferInv, KeptOf, LastOf
<1> QED
  BY <1>2, <1>3, <1>4, <1>5 DEF ConversationInv

LEMMA ConversationStep == ConversationInv /\ [Next]_vars => ConversationInv'
<1> SUFFICES ASSUME ConversationInv, [Next]_vars PROVE ConversationInv'
  OBVIOUS
<1> USE DEF ConversationInv
<1>1. TypeOK' /\ QueueTypes'
  BY TypeStep
<1>2. FlowInv' /\ RecordedInv' /\ PromptInv'
  BY <1>1, FlowStep, RecordedStep, PromptStep
<1> QED
  BY <1>1, <1>2, SessionStep, TempStep, OfferedStep, WaitingStep, SpeechStep, BufferStep,
     ServingStep

LEMMA ConversationInvHolds == Spec => []ConversationInv
BY ConversationInit, ConversationStep, PTL DEF Spec

\* The handlers of AppCore and the queue stay in their ranges, and the rolling
\* buffer never holds more than limits.recent_buffer_messages.
THEOREM TypeCorrect == Spec => []TypeOK
<1>1. ConversationInv => TypeOK
  BY DEF ConversationInv
<1> QED
  BY <1>1, ConversationInvHolds, PTL

\* A prompt that render_prompt has made, or that /summarize has put together, holds
\* the newest recorded messages in the order of delivery, whatever else the chat is
\* sent before the prompt is in the queue.
THEOREM PromptIsFaithfulHolds == Spec => []PromptIsFaithful
<1>1. ConversationInv => PromptIsFaithful
  <2> SUFFICES ASSUME ConversationInv, NEW m \in Messages, pc[m] = "queued"
               PROVE  InOrder(prompt[m], NewestOf(Expected(m)))
    BY DEF PromptIsFaithful
  <2>1. KeptOf(prompt[m], Expected(m))
    BY DEF ConversationInv, PromptInv
  <2>2. prompt[m] \in Seq(Messages) /\ Expected(m) \in SUBSET Messages
    BY DEF ConversationInv, TypeOK, Expected
  <2> QED
    BY <2>1, <2>2, KeptInOrder
<1> QED
  BY <1>1, ConversationInvHolds, PTL

\* When AppCore gets to router.enqueue the chat has a session: ensure_chat_runtime
\* has seen to it, and no command can have come in between.
THEOREM EnqueueFindsSessionHolds == Spec => []EnqueueFindsSession
<1>1. ConversationInv => EnqueueFindsSession
  BY DEF ConversationInv, SessionInv, NeedsSession, EnqueueFindsSession
<1> QED
  BY <1>1, ConversationInvHolds, PTL

\* handle_message removes what it has downloaded on every way out, but for a page
\* written in part.
THEOREM NoTempFileLeftHolds == Spec => []NoTempFileLeft
<1>1. ConversationInv => NoTempFileLeft
  <2> SUFFICES ASSUME ConversationInv, NEW m \in 1..delivered, pc[m] \in Ended, temp[m] # "none"
               PROVE  kind[m] = "link" /\ temp[m] = "partial"
    BY DEF NoTempFileLeft
  <2>1. m \in Messages
    BY ConversationAssumption DEF ConversationInv, TypeOK, Messages
  <2> QED
    BY <2>1 DEF ConversationInv, TempInv, Ended
<1> QED
  BY <1>1, ConversationInvHolds, PTL

\* send_audio_reply sends nothing to a chat that has had voice off ever since the
\* reply was made.
THEOREM SpokenOnlyIfAllowedHolds == Spec => []SpokenOnlyIfAllowed
<1>1. ConversationInv => SpokenOnlyIfAllowed
  BY DEF ConversationInv, SpeechInv, SpokenOnlyIfAllowed
<1> QED
  BY <1>1, ConversationInvHolds, PTL

\* No turn begins with a prompt that names a file which a /reset or /rebuild with a
\* clean workspace has removed.
THEOREM FileIsThereWhenTurnBeginsHolds == Spec => FileIsThereWhenTurnBegins
<1>1. ConversationInv /\ [Next]_vars
          => [\A m \in offered : fate[m] # "running" /\ fate'[m] = "running" => m \in files]_vars
  <2> SUFFICES ASSUME ConversationInv, [Next]_vars, NEW m \in offered,
                      fate[m] # "running", fate'[m] = "running"
               PROVE  m \in files
    OBVIOUS
  <2> USE DEF ConversationInv
  <2>1. Queue!Begin
    <3>1. Queue!Next \/ UNCHANGED queueVars
      BY QueueStep
    <3>2. m \in Messages
      BY DEF TypeOK
    <3>3. Queue!Replace \/ UNCHANGED queueVars => FALSE
      BY DEF Queue!Replace, queueVars
    <3>4. ASSUME NEW i \in Messages, Queue!Accept(i) PROVE FALSE
      BY <3>2, <3>4 DEF Queue!Accept, QueueTypes
    <3>5. ASSUME NEW g \in 1..MaxGeneration, NEW i \in Messages, Queue!Finish(g, i) PROVE FALSE
      BY <3>2, <3>5 DEF Queue!Finish, QueueTypes
    <3>6. ASSUME NEW g \in 1..MaxGeneration, Queue!Drop(g) PROVE FALSE
      BY <3>2, <3>6 DEF Queue!Drop, QueueTypes
    <3> QED
      BY <3>1, <3>3, <3>4, <3>5, <3>6 DEF Queue!Next
  <2>2. now \in 1..MaxGeneration /\ waiting[now] # <<>> /\ waiting[now] \in Seq(Messages)
    BY <2>1, ConversationAssumption DEF Queue!Begin, TypeOK, QueueTypes
  <2>3. m = Head(waiting[now]) /\ m \in Messages
    BY <2>1 DEF Queue!Begin, TypeOK, QueueTypes
  <2>4. Head(waiting[now]) = waiting[now][1] /\ 1 \in DOMAIN waiting[now]
    BY <2>2, EmptySeq, LenProperties
  <2>5. Waits(m, now)
    BY <2>3, <2>4 DEF Waits
  <2> QED
    BY <2>2, <2>3, <2>5 DEF WaitingInv
<1> QED
  BY <1>1, ConversationInvHolds, PTL DEF Spec, FileIsThereWhenTurnBegins

\* The composition uses the router as module ChatQueue describes it: AppCore's
\* handlers and the worker add nothing to what Router is proved to implement.
THEOREM UsesChatQueue == Spec => Queue!Spec
<1>1. Init => Queue!Init
  BY DEF Init
<1>2. ConversationInv /\ [Next]_vars => [Queue!Next]_queueVars
  BY QueueStep DEF ConversationInv
<1> QED
  BY <1>1, <1>2, ConversationInvHolds, PTL DEF Spec, Queue!Spec, Queue!vars, queueVars

=============================================================================
