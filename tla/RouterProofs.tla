----------------------------- MODULE RouterProofs -----------------------------
(***************************************************************************)
(* Proofs about Router, for any items, any depth of the queue and any      *)
(* number of sessions, whether the calls for the chat overlap or not:      *)
(* what a worker counts, leaves in the temporary directory and still says  *)
(* after its session was replaced.                                         *)
(***************************************************************************)
EXTENDS Router, SequenceTheorems, TLAPS

WorkerStates == {"none", "recv", "check", "turn", "stream", "ended", "publish", "files", "audio",
                 "synthesize", "synthesized", "send_audio", "done"}

\* TypeOK, with what it says of wpc and queue as function sets.
Types ==
    /\ session \in Nat /\ latest \in Nat
    /\ sender \in Workers \cup {NoWorker}
    /\ lifecycle \in {"idle", "drop_sender"}
    /\ status \in [Items -> Calling \cup {"new", "missing_session", "queue_closed",
                                         "accepted", "running", "answered", "dropped"}]
    /\ seen \in [Items -> Nat]
    /\ route \in [Items -> Workers \cup {NoWorker}]
    /\ position \in [Items -> Nat]
    /\ generation \in [Workers -> Nat]
    /\ wpc \in [Workers -> WorkerStates]
    /\ queue \in [Workers -> Seq(Items)]
    /\ current \in [Workers -> Items \cup {NoWorker}]
    /\ active \in [Workers -> Nat]
    /\ turn \in [Workers -> {"none", "ok", "failed", "sent", "unsent"}]
    /\ preview \in [Workers -> BOOLEAN]
    /\ temp \in [Workers -> SUBSET {"generated", "audio"}]
    /\ late \in [Workers -> Nat]

\* A session is the newest or none, so that a generation, once replaced, stays so.
GenerationInv ==
    /\ session \in {0, latest}
    /\ \A i \in Items : seen[i] <= latest /\ (status[i] = "route" => seen[i] # 0)
    /\ \A w \in Workers : generation[w] <= latest /\ (wpc[w] # "none" => generation[w] # 0)

\* The worker named by an item is not there before the item's call may spawn it; a
\* call that counts or sends has a worker, and a worker that works has an item.
CallInv ==
    /\ \A i \in Items : status[i] \in {"new", "lookup", "route", "missing_session"}
                            => wpc[i] = "none"
    /\ \A i \in Items : status[i] \in {"count", "count_active", "send"} => route[i] \in Workers
    /\ \A w \in Workers : Begun(w) \/ wpc[w] = "check" => current[w] \in Items

\* The bounds of TypeOK.
BoundInv ==
    /\ \A w \in Workers : Len(queue[w]) <= Depth
    /\ \A i \in Items : position[i] <= Depth + 1
    /\ \A i \in Items : status[i] = "count_active" => position[i] <= Depth

\* A worker that has said something late is past its last check.
LateInv ==
    \A w \in Workers :
        /\ late[w] <= 1
        /\ late[w] # 0 => /\ session # generation[w]
                          /\ wpc[w] \notin {"none", "stream", "publish", "send_audio"}

\* A file in the temporary directory belongs to a turn that succeeded or to a spoken
\* reply that is ready.
TempInv ==
    \A w \in Workers :
        temp[w] # {} => \/ wpc[w] \in {"ended", "publish", "files"} /\ turn[w] # "failed"
                       \/ wpc[w] \in {"synthesized", "send_audio"}

RouterInv ==
    /\ Types
    /\ GenerationInv
    /\ CallInv
    /\ BoundInv
    /\ LateInv
    /\ ActiveItemsAgree
    /\ TempInv

LEMMA TypesStep ==
    ASSUME RouterInv, [Next]_vars
    PROVE  Types'
<1> USE RouterAssumption DEF RouterInv, Types, CallInv, ActiveItemsAgree, Begun, InTurn,
             Calling, WorkerStates
<1>1. CASE RegisterSession \/ MarkSessionStale \/ DropSender
  BY <1>1 DEF DropSender, MarkSessionStale, RegisterSession, callVars, mapVars, turnVars,
          workerVars
<1>2. ASSUME NEW i \in Items, Enqueue(i)
      PROVE  Types'
  BY <1>2 DEF Enqueue, SetStatus, callVars, mapVars, turnVars, workerVars
<1>3. ASSUME NEW i \in Items, LookUpSession(i)
      PROVE  Types'
  BY <1>3 DEF LookUpSession, SetStatus, callVars, mapVars, turnVars, workerVars
<1>4. ASSUME NEW i \in Items, ReuseWorker(i)
      PROVE  Types'
  BY <1>4 DEF Reusable, ReuseWorker, SetStatus, callVars, mapVars, turnVars, workerVars
<1>5. ASSUME NEW i \in Items, CountBuffered(i)
      PROVE  Types'
  BY <1>5 DEF CountBuffered, SetStatus, callVars, mapVars, turnVars, workerVars
<1>6. ASSUME NEW i \in Items, CountActive(i)
      PROVE  Types'
  BY <1>6 DEF CountActive, SetStatus, callVars, mapVars, turnVars, workerVars
<1>7. ASSUME NEW i \in Items, Send(i)
      PROVE  Types'
  BY <1>7 DEF HasRoom, Send, SetStatus, callVars, mapVars, turnVars, workerVars
<1>8. ASSUME NEW i \in Items, SendFails(i)
      PROVE  Types'
  BY <1>8 DEF SendFails, SetStatus, callVars, mapVars, turnVars, workerVars
<1>9. ASSUME NEW i \in Items, SpawnWorker(i)
      PROVE  Types'
  <2>1. /\ status' = [status EXCEPT ![i] = "count"]
        /\ route' = [route EXCEPT ![i] = i]
        /\ sender' = i
        /\ generation' = [generation EXCEPT ![i] = seen[i]]
        /\ wpc' = [wpc EXCEPT ![i] = "recv"]
    BY <1>9 DEF SpawnWorker, SetStatus
  <2>2. /\ status' \in [Items -> Calling \cup {"new", "missing_session", "queue_closed",
                                              "accepted", "running", "answered", "dropped"}]
        /\ route' \in [Items -> Workers \cup {NoWorker}]
        /\ sender' \in Workers \cup {NoWorker}
        /\ generation' \in [Workers -> Nat]
        /\ wpc' \in [Workers -> WorkerStates]
    BY <2>1 DEF Workers
  <2> QED BY <1>9, <2>2 DEF SpawnWorker, turnVars
<1>10. ASSUME NEW w \in Workers, Receive(w)
      PROVE  Types'
  BY <1>10 DEF At, Go, Receive, callVars, mapVars, turnVars, workerVars
<1>11. ASSUME NEW w \in Workers, ChannelClosed(w)
      PROVE  Types'
  BY <1>11 DEF At, ChannelClosed, Go, callVars, mapVars, turnVars, workerVars
<1>12. ASSUME NEW w \in Workers, BeginTurn(w)
      PROVE  Types'
  BY <1>12 DEF At, BeginTurn, Go, SetStatus, Stale, callVars, mapVars, turnVars, workerVars
<1>13. ASSUME NEW w \in Workers, AbandonItem(w)
      PROVE  Types'
  BY <1>13 DEF AbandonItem, At, Break, DropItems, Go, Stale, callVars, mapVars, turnVars,
          workerVars
<1>14. ASSUME NEW w \in Workers, StreamSnapshot(w)
      PROVE  Types'
  BY <1>14 DEF At, Go, Stale, StreamSnapshot, callVars, mapVars, turnVars, workerVars
<1>15. ASSUME NEW w \in Workers, UpdatePreview(w)
      PROVE  Types'
  BY <1>15 DEF At, Go, RecordLateness, UpdatePreview, callVars, mapVars, turnVars, workerVars
<1>16. ASSUME NEW w \in Workers, UpdatePreviewFails(w)
      PROVE  Types'
  BY <1>16 DEF At, Go, RecordLateness, UpdatePreviewFails, callVars, mapVars, turnVars,
          workerVars
<1>17. ASSUME NEW w \in Workers, KeepResult(w)
      PROVE  Types'
  BY <1>17 DEF At, Go, KeepResult, Stale, callVars, mapVars, turnVars, workerVars
<1>18. ASSUME NEW w \in Workers, SuppressResult(w)
      PROVE  Types'
  BY <1>18 DEF At, Break, DropItems, FinishItem, Go, Stale, SuppressResult, callVars, mapVars,
          turnVars, workerVars
<1>19. ASSUME NEW w \in Workers, PublishText(w)
      PROVE  Types'
  BY <1>19 DEF At, Go, PublishText, RecordLateness, callVars, mapVars, turnVars, workerVars
<1>20. ASSUME NEW w \in Workers, PublishFailure(w)
      PROVE  Types'
  BY <1>20 DEF At, FinishItem, Go, NextItem, PublishFailure, RecordLateness, SetStatus,
          callVars, mapVars, turnVars, workerVars
<1>21. ASSUME NEW w \in Workers, BeginSynthesis(w)
      PROVE  Types'
  BY <1>21 DEF At, BeginSynthesis, Go, Stale, callVars, mapVars, turnVars, workerVars
<1>22. ASSUME NEW w \in Workers, SkipAudio(w)
      PROVE  Types'
  BY <1>22 DEF At, FinishItem, Go, NextItem, SetStatus, SkipAudio, Stale, callVars, mapVars,
          turnVars, workerVars
<1>23. ASSUME NEW w \in Workers, Synthesize(w)
      PROVE  Types'
  BY <1>23 DEF At, Go, Synthesize, callVars, mapVars, turnVars, workerVars
<1>24. ASSUME NEW w \in Workers, KeepAudio(w)
      PROVE  Types'
  BY <1>24 DEF At, Go, KeepAudio, Stale, callVars, mapVars, turnVars, workerVars
<1>25. ASSUME NEW w \in Workers, DiscardAudio(w)
      PROVE  Types'
  BY <1>25 DEF At, DiscardAudio, FinishItem, Go, NextItem, SetStatus, Stale, callVars, mapVars,
          turnVars, workerVars
<1>26. ASSUME NEW w \in Workers, SendAudio(w)
      PROVE  Types'
  BY <1>26 DEF At, FinishItem, Go, NextItem, RecordLateness, SendAudio, SetStatus, callVars,
          mapVars, turnVars, workerVars
<1>27. ASSUME NEW w \in Workers, EndTurn(w)
      PROVE  Types'
  <2>1. turn' \in [Workers -> {"none", "ok", "failed", "sent", "unsent"}]
    BY <1>27 DEF EndTurn
  <2>2. temp' \in [Workers -> SUBSET {"generated", "audio"}]
    <3>1. CASE UNCHANGED temp
      BY <3>1
    <3>2. ASSUME NEW files \in {{}, {"generated"}}, temp' = [temp EXCEPT ![w] = files]
          PROVE  temp' \in [Workers -> SUBSET {"generated", "audio"}]
      <4>1. files \in SUBSET {"generated", "audio"}
        BY <3>2
      <4> QED BY <3>2, <4>1
    <3> QED BY <1>27, <3>1, <3>2 DEF EndTurn
  <2>3. wpc' \in [Workers -> WorkerStates]
    BY <1>27 DEF EndTurn, Go
  <2> QED BY <1>27, <2>1, <2>2, <2>3 DEF EndTurn, callVars, mapVars
<1>28. ASSUME NEW w \in Workers, SendFiles(w)
      PROVE  Types'
  <2>1. temp' = [temp EXCEPT ![w] = {}]
    BY <1>28 DEF SendFiles
  <2>2. CASE Go(w, "audio") /\ UNCHANGED <<status, active, current, turn, preview>>
    BY <1>28, <2>1, <2>2 DEF SendFiles, At, Go, callVars, mapVars
  <2>3. CASE NextItem(w)
    BY <1>28, <2>1, <2>3 DEF SendFiles, At, Go, NextItem, FinishItem, SetStatus, callVars, mapVars
  <2> QED BY <1>28, <2>2, <2>3 DEF SendFiles
<1>29. CASE UNCHANGED vars
  BY <1>29 DEF vars, callVars, mapVars, turnVars, workerVars
<1> QED BY <1>1, <1>2, <1>3, <1>4, <1>5, <1>6, <1>7, <1>8, <1>9, <1>10, <1>11, <1>12, <1>13,
           <1>14, <1>15, <1>16, <1>17, <1>18, <1>19, <1>20, <1>21, <1>22, <1>23, <1>24, <1>25,
           <1>26, <1>27, <1>28, <1>29
           DEF Next, CallStep, WorkerStep

LEMMA GenerationStep ==
    ASSUME RouterInv, [Next]_vars
    PROVE  GenerationInv'
<1> USE RouterAssumption DEF RouterInv, Types, CallInv, GenerationInv, WorkerStates
<1>1. CASE RegisterSession \/ MarkSessionStale \/ DropSender
  BY <1>1 DEF DropSender, MarkSessionStale, RegisterSession, callVars, mapVars, turnVars,
          workerVars
<1>2. ASSUME NEW i \in Items, Enqueue(i)
      PROVE  GenerationInv'
  BY <1>2 DEF Enqueue, SetStatus, callVars, mapVars, turnVars, workerVars
<1>3. ASSUME NEW i \in Items, LookUpSession(i)
      PROVE  GenerationInv'
  BY <1>3 DEF LookUpSession, SetStatus, callVars, mapVars, turnVars, workerVars
<1>4. ASSUME NEW i \in Items, ReuseWorker(i)
      PROVE  GenerationInv'
  BY <1>4 DEF Reusable, ReuseWorker, SetStatus, callVars, mapVars, turnVars, workerVars
<1>5. ASSUME NEW i \in Items, SpawnWorker(i)
      PROVE  GenerationInv'
  BY <1>5 DEF SetStatus, SpawnWorker, callVars, mapVars, turnVars, workerVars
<1>6. ASSUME NEW i \in Items, CountBuffered(i)
      PROVE  GenerationInv'
  BY <1>6 DEF CountBuffered, SetStatus, callVars, mapVars, turnVars, workerVars
<1>7. ASSUME NEW i \in Items, CountActive(i)
      PROVE  GenerationInv'
  BY <1>7 DEF CountActive, SetStatus, callVars, mapVars, turnVars, workerVars
<1>8. ASSUME NEW i \in Items, Send(i)
      PROVE  GenerationInv'
  BY <1>8 DEF HasRoom, Send, SetStatus, callVars, mapVars, turnVars, workerVars
<1>9. ASSUME NEW i \in Items, SendFails(i)
      PROVE  GenerationInv'
  BY <1>9 DEF SendFails, SetStatus, callVars, mapVars, turnVars, workerVars
<1>10. ASSUME NEW w \in Workers,
             Receive(w) \/ ChannelClosed(w) \/ BeginTurn(w) \/ AbandonItem(w)
             \/ StreamSnapshot(w)
      PROVE  GenerationInv'
  BY <1>10 DEF AbandonItem, At, BeginTurn, Break, ChannelClosed, DropItems, Go, Receive,
          SetStatus, Stale, StreamSnapshot, callVars, mapVars, turnVars, workerVars
<1>11. ASSUME NEW w \in Workers,
             UpdatePreview(w) \/ UpdatePreviewFails(w) \/ EndTurn(w) \/ KeepResult(w)
             \/ SuppressResult(w)
      PROVE  GenerationInv'
  BY <1>11 DEF At, Break, DropItems, EndTurn, FinishItem, Go, KeepResult, RecordLateness, Stale,
          SuppressResult, UpdatePreview, UpdatePreviewFails, callVars, mapVars, turnVars,
          workerVars
<1>12. ASSUME NEW w \in Workers,
             PublishText(w) \/ PublishFailure(w) \/ SendFiles(w) \/ BeginSynthesis(w)
             \/ SkipAudio(w)
      PROVE  GenerationInv'
  BY <1>12 DEF At, BeginSynthesis, FinishItem, Go, NextItem, PublishFailure, PublishText,
          RecordLateness, SendFiles, SetStatus, SkipAudio, Stale, callVars, mapVars, turnVars,
          workerVars
<1>13. ASSUME NEW w \in Workers,
             Synthesize(w) \/ KeepAudio(w) \/ DiscardAudio(w) \/ SendAudio(w)
      PROVE  GenerationInv'
  BY <1>13 DEF At, DiscardAudio, FinishItem, Go, KeepAudio, NextItem, RecordLateness, SendAudio,
          SetStatus, Stale, Synthesize, callVars, mapVars, turnVars, workerVars
<1>14. CASE UNCHANGED vars
  BY <1>14 DEF vars, callVars, mapVars, turnVars, workerVars
<1> QED BY <1>1, <1>2, <1>3, <1>4, <1>5, <1>6, <1>7, <1>8, <1>9, <1>10, <1>11, <1>12, <1>13,
           <1>14
           DEF Next, CallStep, WorkerStep

LEMMA CallStepInv ==
    ASSUME RouterInv, [Next]_vars
    PROVE  CallInv'
<1> USE RouterAssumption DEF RouterInv, Types, CallInv, Begun, InTurn, WorkerStates
<1>1. CASE RegisterSession \/ MarkSessionStale \/ DropSender
  BY <1>1 DEF DropSender, MarkSessionStale, RegisterSession, callVars, mapVars, turnVars,
          workerVars
<1>2. ASSUME NEW i \in Items,
             Enqueue(i) \/ LookUpSession(i) \/ ReuseWorker(i) \/ CountBuffered(i)
      PROVE  CallInv'
  BY <1>2 DEF CountBuffered, Enqueue, LookUpSession, Reusable, ReuseWorker, SetStatus, callVars,
          mapVars, turnVars, workerVars
<1>3. ASSUME NEW i \in Items, CountActive(i) \/ Send(i) \/ SendFails(i)
      PROVE  CallInv'
  BY <1>3 DEF CountActive, HasRoom, Send, SendFails, SetStatus, callVars, mapVars, turnVars,
          workerVars
<1>4. ASSUME NEW i \in Items, SpawnWorker(i)
      PROVE  CallInv'
  <2>1. /\ status' = [status EXCEPT ![i] = "count"]
        /\ route' = [route EXCEPT ![i] = i]
        /\ wpc' = [wpc EXCEPT ![i] = "recv"]
        /\ current' = current
    BY <1>4 DEF SpawnWorker, SetStatus, turnVars
  <2>2. \A j \in Items : j # i => status'[j] = status[j] /\ route'[j] = route[j] /\ wpc'[j] = wpc[j]
    BY <2>1 DEF Workers
  <2>3. status'[i] = "count" /\ route'[i] = i /\ wpc'[i] = "recv"
    BY <2>1 DEF Workers
  <2> QED BY <2>1, <2>2, <2>3 DEF Workers
<1>5. ASSUME NEW w \in Workers, Receive(w)
      PROVE  CallInv'
  BY <1>5 DEF At, Go, Receive, callVars, mapVars, turnVars, workerVars
<1>6. ASSUME NEW w \in Workers, ChannelClosed(w)
      PROVE  CallInv'
  BY <1>6 DEF At, ChannelClosed, Go, callVars, mapVars, turnVars, workerVars
<1>7. ASSUME NEW w \in Workers, BeginTurn(w)
      PROVE  CallInv'
  BY <1>7 DEF At, BeginTurn, Go, SetStatus, Stale, callVars, mapVars, turnVars, workerVars
<1>8. ASSUME NEW w \in Workers, AbandonItem(w)
      PROVE  CallInv'
  BY <1>8 DEF AbandonItem, At, Break, DropItems, Go, Stale, callVars, mapVars, turnVars,
          workerVars
<1>9. ASSUME NEW w \in Workers, StreamSnapshot(w)
      PROVE  CallInv'
  BY <1>9 DEF At, Go, Stale, StreamSnapshot, callVars, mapVars, turnVars, workerVars
<1>10. ASSUME NEW w \in Workers, UpdatePreview(w)
      PROVE  CallInv'
  BY <1>10 DEF At, Go, RecordLateness, UpdatePreview, callVars, mapVars, turnVars, workerVars
<1>11. ASSUME NEW w \in Workers, UpdatePreviewFails(w)
      PROVE  CallInv'
  BY <1>11 DEF At, Go, RecordLateness, UpdatePreviewFails, callVars, mapVars, turnVars,
          workerVars
<1>12. ASSUME NEW w \in Workers, EndTurn(w)
      PROVE  CallInv'
  BY <1>12 DEF At, EndTurn, Go, callVars, mapVars, turnVars, workerVars
<1>13. ASSUME NEW w \in Workers, KeepResult(w)
      PROVE  CallInv'
  BY <1>13 DEF At, Go, KeepResult, Stale, callVars, mapVars, turnVars, workerVars
<1>14. ASSUME NEW w \in Workers, SuppressResult(w)
      PROVE  CallInv'
  BY <1>14 DEF At, Break, DropItems, FinishItem, Go, Stale, SuppressResult, callVars, mapVars,
          turnVars, workerVars
<1>15. ASSUME NEW w \in Workers, PublishText(w)
      PROVE  CallInv'
  BY <1>15 DEF At, Go, PublishText, RecordLateness, callVars, mapVars, turnVars, workerVars
<1>16. ASSUME NEW w \in Workers, PublishFailure(w)
      PROVE  CallInv'
  BY <1>16 DEF At, FinishItem, Go, NextItem, PublishFailure, RecordLateness, SetStatus,
          callVars, mapVars, turnVars, workerVars
<1>17. ASSUME NEW w \in Workers, BeginSynthesis(w)
      PROVE  CallInv'
  BY <1>17 DEF At, BeginSynthesis, Go, Stale, callVars, mapVars, turnVars, workerVars
<1>18. ASSUME NEW w \in Workers, SkipAudio(w)
      PROVE  CallInv'
  BY <1>18 DEF At, FinishItem, Go, NextItem, SetStatus, SkipAudio, Stale, callVars, mapVars,
          turnVars, workerVars
<1>19. ASSUME NEW w \in Workers, Synthesize(w)
      PROVE  CallInv'
  BY <1>19 DEF At, Go, Synthesize, callVars, mapVars, turnVars, workerVars
<1>20. ASSUME NEW w \in Workers, KeepAudio(w)
      PROVE  CallInv'
  BY <1>20 DEF At, Go, KeepAudio, Stale, callVars, mapVars, turnVars, workerVars
<1>21. ASSUME NEW w \in Workers, DiscardAudio(w)
      PROVE  CallInv'
  BY <1>21 DEF At, DiscardAudio, FinishItem, Go, NextItem, SetStatus, Stale, callVars, mapVars,
          turnVars, workerVars
<1>22. ASSUME NEW w \in Workers, SendAudio(w)
      PROVE  CallInv'
  BY <1>22 DEF At, FinishItem, Go, NextItem, RecordLateness, SendAudio, SetStatus, callVars,
          mapVars, turnVars, workerVars
<1>23. ASSUME NEW w \in Workers, SendFiles(w)
      PROVE  CallInv'
  <2>1. temp' = [temp EXCEPT ![w] = {}]
    BY <1>23 DEF SendFiles
  <2>2. CASE Go(w, "audio") /\ UNCHANGED <<status, active, current, turn, preview>>
    BY <1>23, <2>1, <2>2 DEF SendFiles, At, Go, callVars, mapVars
  <2>3. CASE NextItem(w)
    BY <1>23, <2>1, <2>3 DEF SendFiles, At, Go, NextItem, FinishItem, SetStatus, callVars, mapVars
  <2> QED BY <1>23, <2>2, <2>3 DEF SendFiles
<1>24. CASE UNCHANGED vars
  BY <1>24 DEF vars, callVars, mapVars, turnVars, workerVars
<1> QED BY <1>1, <1>2, <1>3, <1>4, <1>5, <1>6, <1>7, <1>8, <1>9, <1>10, <1>11, <1>12, <1>13,
           <1>14, <1>15, <1>16, <1>17, <1>18, <1>19, <1>20, <1>21, <1>22, <1>23, <1>24
           DEF Next, CallStep, WorkerStep

LEMMA BoundStep ==
    ASSUME RouterInv, [Next]_vars
    PROVE  BoundInv'
<1> USE RouterAssumption DEF RouterInv, Types, BoundInv, CallInv, ActiveItemsAgree, Begun,
             InTurn
<1>1. CASE RegisterSession \/ MarkSessionStale \/ DropSender
  BY <1>1 DEF DropSender, MarkSessionStale, RegisterSession, callVars, mapVars, turnVars,
          workerVars
<1>2. ASSUME NEW i \in Items, Enqueue(i)
      PROVE  BoundInv'
  BY <1>2 DEF Enqueue, SetStatus, callVars, mapVars, turnVars, workerVars
<1>3. ASSUME NEW i \in Items, LookUpSession(i)
      PROVE  BoundInv'
  BY <1>3 DEF LookUpSession, SetStatus, callVars, mapVars, turnVars, workerVars
<1>4. ASSUME NEW i \in Items, ReuseWorker(i)
      PROVE  BoundInv'
  BY <1>4 DEF Reusable, ReuseWorker, SetStatus, callVars, mapVars, turnVars, workerVars
<1>5. ASSUME NEW i \in Items, SpawnWorker(i)
      PROVE  BoundInv'
  BY <1>5 DEF SetStatus, SpawnWorker, callVars, mapVars, turnVars, workerVars
<1>6. ASSUME NEW i \in Items, CountBuffered(i)
      PROVE  BoundInv'
  BY <1>6 DEF CountBuffered, SetStatus, callVars, mapVars, turnVars, workerVars
<1>7. ASSUME NEW i \in Items, Send(i)
      PROVE  BoundInv'
  BY <1>7 DEF HasRoom, Send, SetStatus, callVars, mapVars, turnVars, workerVars
<1>8. ASSUME NEW i \in Items, SendFails(i)
      PROVE  BoundInv'
  BY <1>8 DEF SendFails, SetStatus, callVars, mapVars, turnVars, workerVars
<1>9. ASSUME NEW i \in Items, CountActive(i)
      PROVE  BoundInv'
  <2>1. position' = [position EXCEPT ![i] = @ + active[route[i]]]
    BY <1>9 DEF CountActive
  <2>2. route[i] \in Workers /\ active[route[i]] \in {0, 1} /\ position[i] <= Depth
    BY <1>9 DEF CountActive
  <2>3. position'[i] <= Depth + 1
    BY <2>1, <2>2
  <2>4. /\ \A j \in Items \ {i} : position'[j] = position[j] /\ status'[j] = status[j]
        /\ status'[i] = "send"
    BY <1>9, <2>1 DEF CountActive, SetStatus
  <2> QED BY <1>9, <2>3, <2>4 DEF CountActive, workerVars
<1>10. ASSUME NEW w \in Workers, Receive(w)
      PROVE  BoundInv'
  BY <1>10 DEF At, Go, Receive, callVars, mapVars, turnVars, workerVars
<1>11. ASSUME NEW w \in Workers, ChannelClosed(w)
      PROVE  BoundInv'
  BY <1>11 DEF At, ChannelClosed, Go, callVars, mapVars, turnVars, workerVars
<1>12. ASSUME NEW w \in Workers, BeginTurn(w)
      PROVE  BoundInv'
  BY <1>12 DEF At, BeginTurn, Go, SetStatus, Stale, callVars, mapVars, turnVars, workerVars
<1>13. ASSUME NEW w \in Workers, AbandonItem(w)
      PROVE  BoundInv'
  BY <1>13 DEF AbandonItem, At, Break, DropItems, Go, Stale, callVars, mapVars, turnVars,
          workerVars
<1>14. ASSUME NEW w \in Workers, StreamSnapshot(w)
      PROVE  BoundInv'
  BY <1>14 DEF At, Go, Stale, StreamSnapshot, callVars, mapVars, turnVars, workerVars
<1>15. ASSUME NEW w \in Workers, UpdatePreview(w)
      PROVE  BoundInv'
  BY <1>15 DEF At, Go, RecordLateness, UpdatePreview, callVars, mapVars, turnVars, workerVars
<1>16. ASSUME NEW w \in Workers, UpdatePreviewFails(w)
      PROVE  BoundInv'
  BY <1>16 DEF At, Go, RecordLateness, UpdatePreviewFails, callVars, mapVars, turnVars,
          workerVars
<1>17. ASSUME NEW w \in Workers, EndTurn(w)
      PROVE  BoundInv'
  BY <1>17 DEF At, EndTurn, Go, callVars, mapVars, turnVars, workerVars
<1>18. ASSUME NEW w \in Workers, KeepResult(w)
      PROVE  BoundInv'
  BY <1>18 DEF At, Go, KeepResult, Stale, callVars, mapVars, turnVars, workerVars
<1>19. ASSUME NEW w \in Workers, SuppressResult(w)
      PROVE  BoundInv'
  BY <1>19 DEF At, Break, DropItems, FinishItem, Go, Stale, SuppressResult, callVars, mapVars,
          turnVars, workerVars
<1>20. ASSUME NEW w \in Workers, PublishText(w)
      PROVE  BoundInv'
  BY <1>20 DEF At, Go, PublishText, RecordLateness, callVars, mapVars, turnVars, workerVars
<1>21. ASSUME NEW w \in Workers, PublishFailure(w)
      PROVE  BoundInv'
  BY <1>21 DEF At, FinishItem, Go, NextItem, PublishFailure, RecordLateness, SetStatus,
          callVars, mapVars, turnVars, workerVars
<1>22. ASSUME NEW w \in Workers, SendFiles(w)
      PROVE  BoundInv'
  BY <1>22 DEF At, FinishItem, Go, NextItem, SendFiles, SetStatus, callVars, mapVars, turnVars,
          workerVars
<1>23. ASSUME NEW w \in Workers, BeginSynthesis(w)
      PROVE  BoundInv'
  BY <1>23 DEF At, BeginSynthesis, Go, Stale, callVars, mapVars, turnVars, workerVars
<1>24. ASSUME NEW w \in Workers, SkipAudio(w)
      PROVE  BoundInv'
  BY <1>24 DEF At, FinishItem, Go, NextItem, SetStatus, SkipAudio, Stale, callVars, mapVars,
          turnVars, workerVars
<1>25. ASSUME NEW w \in Workers, Synthesize(w)
      PROVE  BoundInv'
  BY <1>25 DEF At, Go, Synthesize, callVars, mapVars, turnVars, workerVars
<1>26. ASSUME NEW w \in Workers, KeepAudio(w)
      PROVE  BoundInv'
  BY <1>26 DEF At, Go, KeepAudio, Stale, callVars, mapVars, turnVars, workerVars
<1>27. ASSUME NEW w \in Workers, DiscardAudio(w)
      PROVE  BoundInv'
  BY <1>27 DEF At, DiscardAudio, FinishItem, Go, NextItem, SetStatus, Stale, callVars, mapVars,
          turnVars, workerVars
<1>28. ASSUME NEW w \in Workers, SendAudio(w)
      PROVE  BoundInv'
  BY <1>28 DEF At, FinishItem, Go, NextItem, RecordLateness, SendAudio, SetStatus, callVars,
          mapVars, turnVars, workerVars
<1>29. CASE UNCHANGED vars
  BY <1>29 DEF vars, callVars, mapVars, turnVars, workerVars
<1> QED BY <1>1, <1>2, <1>3, <1>4, <1>5, <1>6, <1>7, <1>8, <1>9, <1>10, <1>11, <1>12, <1>13,
           <1>14, <1>15, <1>16, <1>17, <1>18, <1>19, <1>20, <1>21, <1>22, <1>23, <1>24, <1>25,
           <1>26, <1>27, <1>28, <1>29
           DEF Next, CallStep, WorkerStep

LEMMA LateStep ==
    ASSUME RouterInv, [Next]_vars
    PROVE  LateInv'
<1> USE RouterAssumption DEF RouterInv, Types, LateInv, CallInv, GenerationInv, WorkerStates
<1>1. CASE RegisterSession \/ MarkSessionStale \/ DropSender
  BY <1>1 DEF DropSender, MarkSessionStale, RegisterSession, callVars, mapVars, turnVars,
          workerVars
<1>2. ASSUME NEW i \in Items,
             Enqueue(i) \/ LookUpSession(i) \/ ReuseWorker(i) \/ SpawnWorker(i)
             \/ CountBuffered(i) \/ CountActive(i) \/ Send(i) \/ SendFails(i)
      PROVE  LateInv'
  BY <1>2 DEF CountActive, CountBuffered, Enqueue, HasRoom, LookUpSession, Reusable,
          ReuseWorker, Send, SendFails, SetStatus, SpawnWorker, callVars, mapVars, turnVars,
          workerVars
<1>3. ASSUME NEW w \in Workers, Receive(w)
      PROVE  LateInv'
  BY <1>3 DEF At, Go, Receive, callVars, mapVars, turnVars, workerVars
<1>4. ASSUME NEW w \in Workers, ChannelClosed(w)
      PROVE  LateInv'
  BY <1>4 DEF At, ChannelClosed, Go, callVars, mapVars, turnVars, workerVars
<1>5. ASSUME NEW w \in Workers, BeginTurn(w)
      PROVE  LateInv'
  BY <1>5 DEF At, BeginTurn, Go, SetStatus, Stale, callVars, mapVars, turnVars, workerVars
<1>6. ASSUME NEW w \in Workers, AbandonItem(w)
      PROVE  LateInv'
  BY <1>6 DEF AbandonItem, At, Break, DropItems, Go, Stale, callVars, mapVars, turnVars,
          workerVars
<1>7. ASSUME NEW w \in Workers, StreamSnapshot(w)
      PROVE  LateInv'
  BY <1>7 DEF At, Go, Stale, StreamSnapshot, callVars, mapVars, turnVars, workerVars
<1>8. ASSUME NEW w \in Workers, UpdatePreview(w)
      PROVE  LateInv'
  BY <1>8 DEF At, Go, RecordLateness, UpdatePreview, callVars, mapVars, turnVars, workerVars
<1>9. ASSUME NEW w \in Workers, UpdatePreviewFails(w)
      PROVE  LateInv'
  BY <1>9 DEF At, Go, RecordLateness, UpdatePreviewFails, callVars, mapVars, turnVars,
          workerVars
<1>10. ASSUME NEW w \in Workers, EndTurn(w)
      PROVE  LateInv'
  BY <1>10 DEF At, EndTurn, Go, callVars, mapVars, turnVars, workerVars
<1>11. ASSUME NEW w \in Workers, KeepResult(w)
      PROVE  LateInv'
  BY <1>11 DEF At, Go, KeepResult, Stale, callVars, mapVars, turnVars, workerVars
<1>12. ASSUME NEW w \in Workers, SuppressResult(w)
      PROVE  LateInv'
  BY <1>12 DEF At, Break, DropItems, FinishItem, Go, Stale, SuppressResult, callVars, mapVars,
          turnVars, workerVars
<1>13. ASSUME NEW w \in Workers, PublishText(w)
      PROVE  LateInv'
  BY <1>13 DEF At, Go, PublishText, RecordLateness, callVars, mapVars, turnVars, workerVars
<1>14. ASSUME NEW w \in Workers, PublishFailure(w)
      PROVE  LateInv'
  BY <1>14 DEF At, FinishItem, Go, NextItem, PublishFailure, RecordLateness, SetStatus,
          callVars, mapVars, turnVars, workerVars
<1>15. ASSUME NEW w \in Workers, SendFiles(w)
      PROVE  LateInv'
  BY <1>15 DEF At, FinishItem, Go, NextItem, SendFiles, SetStatus, callVars, mapVars, turnVars,
          workerVars
<1>16. ASSUME NEW w \in Workers, BeginSynthesis(w)
      PROVE  LateInv'
  BY <1>16 DEF At, BeginSynthesis, Go, Stale, callVars, mapVars, turnVars, workerVars
<1>17. ASSUME NEW w \in Workers, SkipAudio(w)
      PROVE  LateInv'
  BY <1>17 DEF At, FinishItem, Go, NextItem, SetStatus, SkipAudio, Stale, callVars, mapVars,
          turnVars, workerVars
<1>18. ASSUME NEW w \in Workers, Synthesize(w)
      PROVE  LateInv'
  BY <1>18 DEF At, Go, Synthesize, callVars, mapVars, turnVars, workerVars
<1>19. ASSUME NEW w \in Workers, KeepAudio(w)
      PROVE  LateInv'
  BY <1>19 DEF At, Go, KeepAudio, Stale, callVars, mapVars, turnVars, workerVars
<1>20. ASSUME NEW w \in Workers, DiscardAudio(w)
      PROVE  LateInv'
  BY <1>20 DEF At, DiscardAudio, FinishItem, Go, NextItem, SetStatus, Stale, callVars, mapVars,
          turnVars, workerVars
<1>21. ASSUME NEW w \in Workers, SendAudio(w)
      PROVE  LateInv'
  BY <1>21 DEF At, FinishItem, Go, NextItem, RecordLateness, SendAudio, SetStatus, callVars,
          mapVars, turnVars, workerVars
<1>22. CASE UNCHANGED vars
  BY <1>22 DEF vars, callVars, mapVars, turnVars, workerVars
<1> QED BY <1>1, <1>2, <1>3, <1>4, <1>5, <1>6, <1>7, <1>8, <1>9, <1>10, <1>11, <1>12, <1>13,
           <1>14, <1>15, <1>16, <1>17, <1>18, <1>19, <1>20, <1>21, <1>22
           DEF Next, CallStep, WorkerStep

LEMMA ActiveStep ==
    ASSUME RouterInv, [Next]_vars
    PROVE  ActiveItemsAgree'
<1> USE RouterAssumption DEF RouterInv, Types, CallInv, ActiveItemsAgree, Begun, InTurn,
             WorkerStates
<1>1. CASE RegisterSession \/ MarkSessionStale \/ DropSender
  BY <1>1 DEF DropSender, MarkSessionStale, RegisterSession, callVars, mapVars, turnVars,
          workerVars
<1>2. ASSUME NEW i \in Items,
             Enqueue(i) \/ LookUpSession(i) \/ ReuseWorker(i) \/ SpawnWorker(i)
             \/ CountBuffered(i) \/ CountActive(i) \/ Send(i) \/ SendFails(i)
      PROVE  ActiveItemsAgree'
  BY <1>2 DEF CountActive, CountBuffered, Enqueue, HasRoom, LookUpSession, Reusable,
          ReuseWorker, Send, SendFails, SetStatus, SpawnWorker, callVars, mapVars, turnVars,
          workerVars
<1>3. ASSUME NEW w \in Workers,
             Receive(w) \/ ChannelClosed(w) \/ BeginTurn(w) \/ AbandonItem(w)
             \/ StreamSnapshot(w)
      PROVE  ActiveItemsAgree'
  BY <1>3 DEF AbandonItem, At, BeginTurn, Break, ChannelClosed, DropItems, Go, Receive,
          SetStatus, Stale, StreamSnapshot, callVars, mapVars, turnVars, workerVars
<1>4. ASSUME NEW w \in Workers,
             UpdatePreview(w) \/ UpdatePreviewFails(w) \/ EndTurn(w) \/ KeepResult(w)
             \/ SuppressResult(w)
      PROVE  ActiveItemsAgree'
  BY <1>4 DEF At, Break, DropItems, EndTurn, FinishItem, Go, KeepResult, RecordLateness, Stale,
          SuppressResult, UpdatePreview, UpdatePreviewFails, callVars, mapVars, turnVars,
          workerVars
<1>5. ASSUME NEW w \in Workers,
             PublishText(w) \/ PublishFailure(w) \/ SendFiles(w) \/ BeginSynthesis(w)
             \/ SkipAudio(w)
      PROVE  ActiveItemsAgree'
  BY <1>5 DEF At, BeginSynthesis, FinishItem, Go, NextItem, PublishFailure, PublishText,
          RecordLateness, SendFiles, SetStatus, SkipAudio, Stale, callVars, mapVars, turnVars,
          workerVars
<1>6. ASSUME NEW w \in Workers, Synthesize(w) \/ KeepAudio(w) \/ DiscardAudio(w) \/ SendAudio(w)
      PROVE  ActiveItemsAgree'
  BY <1>6 DEF At, DiscardAudio, FinishItem, Go, KeepAudio, NextItem, RecordLateness, SendAudio,
          SetStatus, Stale, Synthesize, callVars, mapVars, turnVars, workerVars
<1>7. CASE UNCHANGED vars
  BY <1>7 DEF vars, callVars, mapVars, turnVars, workerVars
<1> QED BY <1>1, <1>2, <1>3, <1>4, <1>5, <1>6, <1>7
           DEF Next, CallStep, WorkerStep

LEMMA TempStep ==
    ASSUME RouterInv, [Next]_vars
    PROVE  TempInv'
<1> USE RouterAssumption DEF RouterInv, Types, CallInv, TempInv, WorkerStates
<1>1. CASE RegisterSession \/ MarkSessionStale \/ DropSender
  BY <1>1 DEF DropSender, MarkSessionStale, RegisterSession, callVars, mapVars, turnVars,
          workerVars
<1>2. ASSUME NEW i \in Items,
             Enqueue(i) \/ LookUpSession(i) \/ ReuseWorker(i) \/ SpawnWorker(i)
             \/ CountBuffered(i) \/ CountActive(i) \/ Send(i) \/ SendFails(i)
      PROVE  TempInv'
  BY <1>2 DEF CountActive, CountBuffered, Enqueue, HasRoom, LookUpSession, Reusable,
          ReuseWorker, Send, SendFails, SetStatus, SpawnWorker, callVars, mapVars, turnVars,
          workerVars
<1>3. ASSUME NEW w \in Workers, Receive(w) \/ ChannelClosed(w)
      PROVE  TempInv'
  BY <1>3 DEF At, ChannelClosed, Go, Receive, callVars, mapVars, turnVars, workerVars
<1>4. ASSUME NEW w \in Workers, BeginTurn(w) \/ AbandonItem(w)
      PROVE  TempInv'
  BY <1>4 DEF AbandonItem, At, BeginTurn, Break, DropItems, Go, SetStatus, Stale, callVars,
          mapVars, turnVars, workerVars
<1>5. ASSUME NEW w \in Workers, StreamSnapshot(w) \/ UpdatePreview(w)
      PROVE  TempInv'
  BY <1>5 DEF At, Go, RecordLateness, Stale, StreamSnapshot, UpdatePreview, callVars, mapVars,
          turnVars, workerVars
<1>6. ASSUME NEW w \in Workers, UpdatePreviewFails(w) \/ EndTurn(w)
      PROVE  TempInv'
  BY <1>6 DEF At, EndTurn, Go, RecordLateness, UpdatePreviewFails, callVars, mapVars, turnVars,
          workerVars
<1>7. ASSUME NEW w \in Workers, KeepResult(w) \/ SuppressResult(w)
      PROVE  TempInv'
  BY <1>7 DEF At, Break, DropItems, FinishItem, Go, KeepResult, Stale, SuppressResult, callVars,
          mapVars, turnVars, workerVars
<1>8. ASSUME NEW w \in Workers, PublishText(w) \/ PublishFailure(w)
      PROVE  TempInv'
  BY <1>8 DEF At, FinishItem, Go, NextItem, PublishFailure, PublishText, RecordLateness,
          SetStatus, callVars, mapVars, turnVars, workerVars
<1>9. ASSUME NEW w \in Workers, SendFiles(w) \/ BeginSynthesis(w)
      PROVE  TempInv'
  BY <1>9 DEF At, BeginSynthesis, FinishItem, Go, NextItem, SendFiles, SetStatus, Stale,
          callVars, mapVars, turnVars, workerVars
<1>10. ASSUME NEW w \in Workers, SkipAudio(w) \/ Synthesize(w)
      PROVE  TempInv'
  BY <1>10 DEF At, FinishItem, Go, NextItem, SetStatus, SkipAudio, Stale, Synthesize, callVars,
          mapVars, turnVars, workerVars
<1>11. ASSUME NEW w \in Workers, KeepAudio(w) \/ DiscardAudio(w)
      PROVE  TempInv'
  BY <1>11 DEF At, DiscardAudio, FinishItem, Go, KeepAudio, NextItem, SetStatus, Stale,
          callVars, mapVars, turnVars, workerVars
<1>12. ASSUME NEW w \in Workers, SendAudio(w)
      PROVE  TempInv'
  BY <1>12 DEF At, FinishItem, Go, NextItem, RecordLateness, SendAudio, SetStatus, callVars,
          mapVars, turnVars, workerVars
<1>13. CASE UNCHANGED vars
  BY <1>13 DEF vars, callVars, mapVars, turnVars, workerVars
<1> QED BY <1>1, <1>2, <1>3, <1>4, <1>5, <1>6, <1>7, <1>8, <1>9, <1>10, <1>11, <1>12, <1>13
           DEF Next, CallStep, WorkerStep

LEMMA InitInv == Init => RouterInv
BY RouterAssumption DEF Init, RouterInv, Types, GenerationInv, CallInv, BoundInv, LateInv, TempInv,
       ActiveItemsAgree, Begun, InTurn, WorkerStates, Calling, Workers

LEMMA RouterInvHolds == Spec => []RouterInv
<1>1. RouterInv /\ [Next]_vars => RouterInv'
  BY TypesStep, GenerationStep, CallStepInv, BoundStep, LateStep, ActiveStep, TempStep DEF RouterInv
<1> QED BY InitInv, <1>1, PTL DEF Spec

\* Types, and the capacity of a worker's channel, for any number of items.
THEOREM TypeCorrect == Spec => []TypeOK
<1>1. RouterInv => TypeOK
  BY RouterAssumption DEF RouterInv, Types, BoundInv, TypeOK, Begun, InTurn, WorkerStates, Buffered
<1> QED BY RouterInvHolds, <1>1, PTL

\* The queue position never counts an item that is no longer worked on (WorkerState).
THEOREM ActiveItemsAgreeHolds == Spec => []ActiveItemsAgree
<1>1. RouterInv => ActiveItemsAgree
  BY DEF RouterInv
<1> QED BY RouterInvHolds, <1>1, PTL

\* Every way out of the loop's body has removed the files of the item.
THEOREM NoTempFileLeftHolds == Spec => []NoTempFileLeft
<1>1. RouterInv => NoTempFileLeft
  BY DEF RouterInv, TempInv, NoTempFileLeft, Begun, InTurn
<1> QED BY RouterInvHolds, <1>1, PTL

\* However often a session is replaced, its worker says one thing more at most.
THEOREM SaysAtMostOneThingLateHolds == Spec => []SaysAtMostOneThingLate
<1>1. RouterInv => SaysAtMostOneThingLate
  BY DEF RouterInv, LateInv, SaysAtMostOneThingLate
<1> QED BY RouterInvHolds, <1>1, PTL
-----------------------------------------------------------------------------
(* Which items are dropped. *)

Sent == {"accepted", "running", "answered", "dropped"}

\* An item is only with the worker its call holds the sender of.
Placed(i, w) == route[i] = w /\ status[i] \in Sent

RouteInv ==
    \A i \in Items, w \in Workers : i \in Buffered(w) \cup {current[w]} => Placed(i, w)

\* An item that was sent stays with its worker.
SentItemsStay ==
    \A i \in Items : status[i] \in Sent => route'[i] = route[i] /\ status'[i] \in Sent

OnlyReplacement ==
    \A i \in Items :
        status'[i] = "dropped" /\ status[i] # "dropped" => session # generation[route[i]]

\* Queues and current items only lose items.
NothingArrives ==
    \A w \in Workers : queue'[w] \in {queue[w], <<>>} /\ current'[w] \in {current[w], NoWorker}

ItemArrives ==
    NothingArrives \/ (\E i \in Items : Send(i)) \/ (\E w \in Workers : Receive(w))

LEMMA SentStays ==
    ASSUME RouterInv, [Next]_vars
    PROVE  SentItemsStay
<1> USE RouterAssumption DEF RouterInv, Types, CallInv, SentItemsStay, Sent, Calling, Begun,
             InTurn
<1>1. CASE RegisterSession \/ MarkSessionStale \/ DropSender
  BY <1>1 DEF DropSender, MarkSessionStale, RegisterSession, callVars, mapVars, turnVars,
          workerVars
<1>2. ASSUME NEW i \in Items,
             Enqueue(i) \/ LookUpSession(i) \/ ReuseWorker(i) \/ SpawnWorker(i)
             \/ CountBuffered(i) \/ CountActive(i) \/ Send(i) \/ SendFails(i)
      PROVE  SentItemsStay
  BY <1>2 DEF CountActive, CountBuffered, Enqueue, HasRoom, LookUpSession, Reusable,
          ReuseWorker, Send, SendFails, SetStatus, SpawnWorker, callVars, mapVars, turnVars,
          workerVars
<1>3. ASSUME NEW w \in Workers, Receive(w) \/ ChannelClosed(w) \/ BeginTurn(w) \/ AbandonItem(w)
      PROVE  SentItemsStay
  BY <1>3 DEF AbandonItem, At, BeginTurn, Break, ChannelClosed, DropItems, Go, Receive,
          SetStatus, Stale, callVars, mapVars, turnVars, workerVars
<1>4. ASSUME NEW w \in Workers,
             StreamSnapshot(w) \/ UpdatePreview(w) \/ UpdatePreviewFails(w) \/ EndTurn(w)
      PROVE  SentItemsStay
  BY <1>4 DEF At, EndTurn, Go, RecordLateness, Stale, StreamSnapshot, UpdatePreview,
          UpdatePreviewFails, callVars, mapVars, turnVars, workerVars
<1>5. ASSUME NEW w \in Workers,
             KeepResult(w) \/ SuppressResult(w) \/ PublishText(w) \/ PublishFailure(w)
      PROVE  SentItemsStay
  BY <1>5 DEF At, Break, DropItems, FinishItem, Go, KeepResult, NextItem, PublishFailure,
          PublishText, RecordLateness, SetStatus, Stale, SuppressResult, callVars, mapVars,
          turnVars, workerVars
<1>6. ASSUME NEW w \in Workers,
             SendFiles(w) \/ BeginSynthesis(w) \/ SkipAudio(w) \/ Synthesize(w)
      PROVE  SentItemsStay
  BY <1>6 DEF At, BeginSynthesis, FinishItem, Go, NextItem, SendFiles, SetStatus, SkipAudio,
          Stale, Synthesize, callVars, mapVars, turnVars, workerVars
<1>7. ASSUME NEW w \in Workers, KeepAudio(w) \/ DiscardAudio(w) \/ SendAudio(w)
      PROVE  SentItemsStay
  BY <1>7 DEF At, DiscardAudio, FinishItem, Go, KeepAudio, NextItem, RecordLateness, SendAudio,
          SetStatus, Stale, callVars, mapVars, turnVars, workerVars
<1>8. CASE UNCHANGED vars
  BY <1>8 DEF vars, callVars, mapVars, turnVars, workerVars
<1> QED BY <1>1, <1>2, <1>3, <1>4, <1>5, <1>6, <1>7, <1>8
           DEF Next, CallStep, WorkerStep

LEMMA QueueFrame ==
    ASSUME RouterInv, [Next]_vars
    PROVE  ItemArrives
<1> USE RouterAssumption DEF RouterInv, Types, NothingArrives, ItemArrives
<1>1. CASE RegisterSession \/ MarkSessionStale \/ DropSender
  BY <1>1 DEF DropSender, MarkSessionStale, RegisterSession, callVars, mapVars, turnVars,
          workerVars
<1>2. ASSUME NEW i \in Items,
             Enqueue(i) \/ LookUpSession(i) \/ ReuseWorker(i) \/ SpawnWorker(i)
             \/ CountBuffered(i) \/ CountActive(i) \/ SendFails(i)
      PROVE  ItemArrives
  BY <1>2 DEF CountActive, CountBuffered, Enqueue, LookUpSession, Reusable, ReuseWorker,
          SendFails, SetStatus, SpawnWorker, callVars, mapVars, turnVars, workerVars
<1>3. ASSUME NEW i \in Items, Send(i)
      PROVE  ItemArrives
  BY <1>3
<1>4. ASSUME NEW w \in Workers,
             ChannelClosed(w) \/ BeginTurn(w) \/ AbandonItem(w) \/ StreamSnapshot(w)
             \/ UpdatePreview(w)
      PROVE  ItemArrives
  BY <1>4 DEF AbandonItem, At, BeginTurn, Break, ChannelClosed, DropItems, Go, RecordLateness,
          SetStatus, Stale, StreamSnapshot, UpdatePreview, callVars, mapVars, turnVars,
          workerVars
<1>5. ASSUME NEW w \in Workers,
             UpdatePreviewFails(w) \/ EndTurn(w) \/ KeepResult(w) \/ SuppressResult(w)
             \/ PublishText(w)
      PROVE  ItemArrives
  BY <1>5 DEF At, Break, DropItems, EndTurn, FinishItem, Go, KeepResult, PublishText,
          RecordLateness, Stale, SuppressResult, UpdatePreviewFails, callVars, mapVars,
          turnVars, workerVars
<1>6. ASSUME NEW w \in Workers,
             PublishFailure(w) \/ SendFiles(w) \/ BeginSynthesis(w) \/ SkipAudio(w)
             \/ Synthesize(w)
      PROVE  ItemArrives
  BY <1>6 DEF At, BeginSynthesis, FinishItem, Go, NextItem, PublishFailure, RecordLateness,
          SendFiles, SetStatus, SkipAudio, Stale, Synthesize, callVars, mapVars, turnVars,
          workerVars
<1>7. ASSUME NEW w \in Workers, KeepAudio(w) \/ DiscardAudio(w) \/ SendAudio(w)
      PROVE  ItemArrives
  BY <1>7 DEF At, DiscardAudio, FinishItem, Go, KeepAudio, NextItem, RecordLateness, SendAudio,
          SetStatus, Stale, callVars, mapVars, turnVars, workerVars
<1>8. ASSUME NEW w \in Workers, Receive(w)
      PROVE  ItemArrives
  BY <1>8
<1>9. CASE UNCHANGED vars
  BY <1>9 DEF vars, callVars, mapVars, turnVars, workerVars
<1> QED BY <1>1, <1>2, <1>3, <1>4, <1>5, <1>6, <1>7, <1>8, <1>9
           DEF Next, CallStep, WorkerStep

LEMMA RouteStep ==
    ASSUME RouterInv, RouteInv, [Next]_vars
    PROVE  RouteInv'
<1> USE RouterAssumption DEF RouterInv, Types, RouteInv, Placed
<1>1. \A i \in Items, w \in Workers : Placed(i, w) => Placed(i, w)'
  BY SentStays DEF SentItemsStay
<1>2. CASE NothingArrives
  <2>1. \A w \in Workers : /\ Buffered(w)' \subseteq Buffered(w)
                           /\ current'[w] \in {current[w], NoWorker}
    <3> TAKE w \in Workers
    <3>1. CASE queue'[w] = queue[w]
      BY <1>2, <3>1 DEF NothingArrives, Buffered
    <3>2. CASE queue'[w] = <<>>
      BY <1>2, <3>2 DEF NothingArrives, Buffered
    <3> QED BY <1>2, <3>1, <3>2 DEF NothingArrives
  <2> QED BY <1>1, <2>1
<1>3. ASSUME NEW i \in Items, Send(i)
      PROVE  RouteInv'
  <2>1. /\ route[i] \in Workers
        /\ queue' = [queue EXCEPT ![route[i]] = Append(@, i)]
        /\ status' = [status EXCEPT ![i] = "accepted"]
        /\ route' = route
        /\ current' = current
    BY <1>3 DEF Send, SetStatus, CallInv, turnVars
  <2>2. \A w \in Workers : queue[w] \in Seq(Items)
    OBVIOUS
  <2>3. Buffered(route[i])' \subseteq Buffered(route[i]) \cup {i}
    BY <2>1, <2>2 DEF Buffered
  <2>4. \A w \in Workers \ {route[i]} : Buffered(w)' = Buffered(w)
    BY <2>1 DEF Buffered
  <2>5. Placed(i, route[i])'
    BY <2>1 DEF Sent
  <2> QED BY <1>1, <2>1, <2>3, <2>4, <2>5
<1>4. ASSUME NEW w \in Workers, Receive(w)
      PROVE  RouteInv'
  <2>1. /\ queue[w] \in Seq(Items) /\ queue[w] # <<>>
        /\ queue' = [queue EXCEPT ![w] = Tail(queue[w])]
        /\ current' = [current EXCEPT ![w] = Head(queue[w])]
    BY <1>4 DEF Receive
  <2>2. Buffered(w)' \cup {current'[w]} \subseteq Buffered(w)
    BY <2>1 DEF Buffered
  <2>3. \A x \in Workers \ {w} : Buffered(x)' = Buffered(x) /\ current'[x] = current[x]
    BY <2>1 DEF Buffered
  <2> QED BY <1>1, <2>2, <2>3
<1> QED BY <1>2, <1>3, <1>4, QueueFrame DEF ItemArrives

LEMMA DropStep ==
    ASSUME RouterInv, RouteInv, [Next]_vars
    PROVE  OnlyReplacement
<1> USE RouterAssumption DEF RouterInv, Types, OnlyReplacement
<1>1. CASE RegisterSession \/ MarkSessionStale \/ DropSender
  BY <1>1 DEF DropSender, MarkSessionStale, RegisterSession, callVars, mapVars, turnVars,
          workerVars
<1>2. ASSUME NEW i \in Items,
             Enqueue(i) \/ LookUpSession(i) \/ ReuseWorker(i) \/ SpawnWorker(i)
             \/ CountBuffered(i) \/ CountActive(i) \/ Send(i) \/ SendFails(i)
      PROVE  OnlyReplacement
  BY <1>2 DEF CountActive, CountBuffered, Enqueue, HasRoom, LookUpSession, Reusable,
          ReuseWorker, Send, SendFails, SetStatus, SpawnWorker, callVars, mapVars, turnVars,
          workerVars
<1>3. ASSUME NEW w \in Workers,
             Receive(w) \/ ChannelClosed(w) \/ BeginTurn(w) \/ StreamSnapshot(w)
             \/ UpdatePreview(w)
      PROVE  OnlyReplacement
  BY <1>3 DEF At, BeginTurn, ChannelClosed, Go, Receive, RecordLateness, SetStatus, Stale,
          StreamSnapshot, UpdatePreview, callVars, mapVars, turnVars, workerVars
<1>4. ASSUME NEW w \in Workers,
             UpdatePreviewFails(w) \/ EndTurn(w) \/ KeepResult(w) \/ PublishText(w)
             \/ PublishFailure(w)
      PROVE  OnlyReplacement
  BY <1>4 DEF At, EndTurn, FinishItem, Go, KeepResult, NextItem, PublishFailure, PublishText,
          RecordLateness, SetStatus, Stale, UpdatePreviewFails, callVars, mapVars, turnVars,
          workerVars
<1>5. ASSUME NEW w \in Workers,
             SendFiles(w) \/ BeginSynthesis(w) \/ SkipAudio(w) \/ Synthesize(w) \/ KeepAudio(w)
      PROVE  OnlyReplacement
  BY <1>5 DEF At, BeginSynthesis, FinishItem, Go, KeepAudio, NextItem, SendFiles, SetStatus,
          SkipAudio, Stale, Synthesize, callVars, mapVars, turnVars, workerVars
<1>6. ASSUME NEW w \in Workers, DiscardAudio(w) \/ SendAudio(w)
      PROVE  OnlyReplacement
  BY <1>6 DEF At, DiscardAudio, FinishItem, Go, NextItem, RecordLateness, SendAudio, SetStatus,
          Stale, callVars, mapVars, turnVars, workerVars
<1>7. ASSUME NEW w \in Workers, AbandonItem(w)
      PROVE  OnlyReplacement
  <2>1. session # generation[w]
    BY <1>7 DEF AbandonItem, Stale
  <2>2. \A i \in Items : status'[i] = "dropped" /\ status[i] # "dropped"
                           => i \in Buffered(w) \cup {current[w]}
    BY <1>7 DEF AbandonItem, DropItems
  <2>3. \A i \in Buffered(w) \cup {current[w]} : i \in Items => route[i] = w
    BY RouterAssumption DEF Buffered, RouteInv, Placed
  <2> QED BY <2>1, <2>2, <2>3
<1>8. ASSUME NEW w \in Workers, SuppressResult(w)
      PROVE  OnlyReplacement
  <2>1. session # generation[w]
    BY <1>8 DEF SuppressResult, Stale
  <2>2. \A i \in Items : status'[i] = "dropped" /\ status[i] # "dropped"
                           => i \in Buffered(w) \cup {current[w]}
    BY <1>8 DEF SuppressResult, DropItems
  <2>3. \A i \in Buffered(w) \cup {current[w]} : i \in Items => route[i] = w
    BY RouterAssumption DEF Buffered, RouteInv, Placed
  <2> QED BY <2>1, <2>2, <2>3
<1>9. CASE UNCHANGED vars
  BY <1>9 DEF vars, callVars, mapVars, turnVars, workerVars
<1> QED BY <1>1, <1>2, <1>3, <1>4, <1>5, <1>6, <1>7, <1>8, <1>9
           DEF Next, CallStep, WorkerStep

\* No answer is lost but for a session that is no longer the chat's, whatever fails.
THEOREM OnlyReplacementDropsHolds == Spec => OnlyReplacementDrops
<1>1. Init => RouteInv
  BY RouterAssumption DEF Init, RouteInv, Buffered, Workers
<1>2. RouterInv /\ RouteInv /\ [Next]_vars => RouteInv'
  BY RouteStep
<1>3. RouterInv /\ RouteInv /\ [Next]_vars => [OnlyReplacement]_vars
  BY DropStep
<1> QED BY RouterInvHolds, <1>1, <1>2, <1>3, PTL DEF Spec, OnlyReplacementDrops, OnlyReplacement
-----------------------------------------------------------------------------
(* For calls made one after the other, the refinement of ChatQueue. *)

\* No two calls run at once, nor a call and a replacement.
OneCallInv ==
    /\ \A i, j \in Items : status[i] \in Calling /\ status[j] \in Calling => i = j
    /\ \A i \in Items : status[i] \in Calling => lifecycle = "idle"

\* So what a call has read stays true while it runs.
RoutedInv ==
    /\ \A i \in Items : status[i] = "route" => seen[i] = session
    /\ \A i \in Items : status[i] \in {"count", "count_active", "send"}
                            => route[i] = sender /\ generation[sender] = session

\* A generation has one worker, and the session's is the one in `senders`.
OneWorkerInv ==
    /\ sender # NoWorker => wpc[sender] # "none"
    /\ \A w \in Workers : wpc[w] = "none" => queue[w] = <<>>
    /\ \A w \in Workers : wpc[w] # "none" /\ generation[w] = session
                              => wpc[w] # "done" /\ sender = w /\ lifecycle = "idle"
    /\ \A v, w \in Workers :
           wpc[v] # "none" /\ wpc[w] # "none" /\ generation[v] = generation[w] => v = w

SerialInv ==
    /\ RouterInv
    /\ RouteInv
    /\ latest <= MaxGeneration
    /\ OneCallInv
    /\ RoutedInv
    /\ OneWorkerInv

\* What every step of a worker leaves alone.
WorkerFrame(w) ==
    /\ UNCHANGED <<session, sender, latest, lifecycle, seen, route, generation>>
    /\ wpc[w] # "none" /\ wpc'[w] # "none"
    /\ \A v \in Workers \ {w} : wpc'[v] = wpc[v] /\ queue'[v] = queue[v] /\ current'[v] = current[v]
    /\ \A i \in Items : status'[i] # status[i] => status[i] \in Sent /\ status'[i] \in Sent
    /\ wpc'[w] = "done" => generation[w] # session \/ sender # w

Elements(s) == {s[k] : k \in DOMAIN s}

\* What a worker has begun.
ServedAt(w) == IF Begun(w) THEN {current[w]} ELSE {}

Quiet(w) ==
    /\ status' = status
    /\ WaitingAt(w)' = WaitingAt(w)
    /\ ServedAt(w)' = ServedAt(w)

Begins(w) ==
    /\ generation[w] = session
    /\ current[w] \in Items
    /\ ServedAt(w) = {}
    /\ WaitingAt(w) = <<current[w]>> \o queue[w]
    /\ WaitingAt(w)' = queue[w]
    /\ ServedAt(w)' = {current[w]}
    /\ status' = [status EXCEPT ![current[w]] = "running"]

Finishes(w) ==
    /\ current[w] \in Items
    /\ ServedAt(w) = {current[w]}
    /\ ServedAt(w)' = {}
    /\ WaitingAt(w)' = WaitingAt(w)
    /\ status' = [status EXCEPT ![current[w]] = "answered"]

Breaks(w) ==
    /\ generation[w] # session
    /\ ServedAt(w) \cup Elements(WaitingAt(w)) = Buffered(w) \cup {current[w]}
    /\ WaitingAt(w)' = <<>>
    /\ ServedAt(w)' = {}
    /\ DropItems(w)

\* A step of a worker, seen from the abstract queue.
Abstractly(w) == Quiet(w) \/ Begins(w) \/ Finishes(w) \/ Breaks(w)

LEMMA ConsHeadTail ==
    ASSUME NEW S, NEW s \in Seq(S), s # <<>>
    PROVE  <<Head(s)>> \o Tail(s) = s
<1>1. /\ Head(s) \in S /\ Head(s) = s[1]
      /\ Tail(s) \in Seq(S) /\ Len(Tail(s)) = Len(s) - 1
      /\ \A k \in 1..Len(Tail(s)) : Tail(s)[k] = s[k + 1]
  BY HeadTailProperties
<1>2. <<Head(s)>> \in Seq(S) /\ Len(<<Head(s)>>) = 1 /\ <<Head(s)>>[1] = s[1]
  BY <1>1
<1> DEFINE t == <<Head(s)>> \o Tail(s)
<1>3. /\ t \in Seq(S) /\ Len(t) = Len(s)
      /\ \A k \in 1..Len(s) : t[k] = IF k <= 1 THEN s[1] ELSE Tail(s)[k - 1]
  BY <1>1, <1>2, ConcatProperties
<1>4. ASSUME NEW k \in 1..Len(s), ~ k <= 1
      PROVE  Tail(s)[k - 1] = s[k]
  <2>1. k - 1 \in 1..Len(Tail(s)) /\ (k - 1) + 1 = k
    BY <1>1, <1>4
  <2> QED BY <1>1, <2>1
<1>5. \A k \in 1..Len(s) : k <= 1 => k = 1
  OBVIOUS
<1>6. \A k \in 1..Len(s) : t[k] = s[k]
  BY <1>3, <1>4, <1>5
<1> QED BY <1>3, <1>6, SeqEqual

LEMMA HeadTailOfCons ==
    ASSUME NEW S, NEW s \in Seq(S), NEW e \in S
    PROVE  /\ <<e>> \o s # <<>>
           /\ Head(<<e>> \o s) = e
           /\ Tail(<<e>> \o s) = s
<1> DEFINE t == <<e>> \o s
<1>1. <<e>> \in Seq(S) /\ Len(<<e>>) = 1 /\ <<e>>[1] = e
  OBVIOUS
<1>2. /\ t \in Seq(S) /\ Len(t) = Len(<<e>>) + Len(s)
      /\ \A k \in 1..Len(<<e>>) + Len(s) :
             t[k] = IF k <= Len(<<e>>) THEN <<e>>[k] ELSE s[k - Len(<<e>>)]
  BY <1>1, ConcatProperties
<1> HIDE DEF t
<1>3. /\ Len(s) \in Nat /\ Len(t) = 1 + Len(s) /\ t[1] = e
      /\ \A k \in 1..Len(s) : t[k + 1] = s[k]
  BY <1>1, <1>2
<1>4. t # <<>>
  BY <1>3
<1>5. /\ Tail(t) \in Seq(S) /\ Len(Tail(t)) = Len(s)
      /\ \A k \in 1..Len(s) : Tail(t)[k] = t[k + 1]
  BY <1>2, <1>3, <1>4, HeadTailProperties
<1>6. Tail(t) = s
  BY <1>3, <1>5, SeqEqual
<1>7. Head(t) = e
  BY <1>2, <1>3, <1>4
<1> QED BY <1>4, <1>6, <1>7 DEF t

LEMMA AppendOfConcat ==
    ASSUME NEW S, NEW s \in Seq(S), NEW t \in Seq(S), NEW e \in S
    PROVE  s \o Append(t, e) = Append(s \o t, e)
<1>1. <<e>> \in Seq(S) /\ Append(t, e) = t \o <<e>>
  BY AppendIsConcat
<1>2. s \o t \in Seq(S)
  BY ConcatProperties
<1>3. Append(s \o t, e) = (s \o t) \o <<e>>
  BY <1>2, AppendIsConcat
<1>4. (s \o t) \o <<e>> = s \o (t \o <<e>>)
  BY <1>1, ConcatAssociative
<1> QED BY <1>1, <1>3, <1>4

LEMMA ConsElements ==
    ASSUME NEW S, NEW s \in Seq(S), NEW e \in S,
           NEW u \in Seq(S), Len(u) = 1, u[1] = e
    PROVE  Elements(u \o s) = Elements(s) \cup {e}
<1> DEFINE t == u \o s
<1>1. /\ t \in Seq(S) /\ Len(t) = Len(u) + Len(s)
      /\ \A k \in 1..Len(u) + Len(s) : t[k] = IF k <= Len(u) THEN u[k] ELSE s[k - Len(u)]
  BY ConcatProperties
<1> HIDE DEF t
<1>2. /\ t \in Seq(S) /\ Len(t) = 1 + Len(s)
      /\ \A k \in 1..1 + Len(s) : t[k] = IF k <= 1 THEN u[k] ELSE s[k - 1]
  BY <1>1
<1>3. Len(s) \in Nat /\ DOMAIN s = 1..Len(s) /\ DOMAIN t = 1..1 + Len(s)
  BY <1>2
<1>4. \A k \in DOMAIN t : k = 1 \/ (~ k <= 1 /\ k - 1 \in DOMAIN s)
  BY <1>3
<1>5. 1 \in DOMAIN t /\ t[1] = e
  BY <1>2, <1>3
<1>6. \A k \in DOMAIN t : k = 1 \/ (k - 1 \in DOMAIN s /\ t[k] = s[k - 1])
  BY <1>2, <1>3, <1>4
<1>7. \A k \in DOMAIN s : k + 1 \in DOMAIN t /\ ~ k + 1 <= 1 /\ (k + 1) - 1 = k
  BY <1>3
<1>8. \A k \in DOMAIN s : k + 1 \in DOMAIN t /\ t[k + 1] = s[k]
  BY <1>2, <1>3, <1>7
<1>9. ASSUME NEW k \in DOMAIN t
      PROVE  t[k] \in Elements(s) \cup {e}
  BY <1>5, <1>6 DEF Elements
<1>10. ASSUME NEW k \in DOMAIN s
       PROVE  s[k] \in Elements(t)
  BY <1>8 DEF Elements
<1>11. e \in Elements(t)
  BY <1>5 DEF Elements
<1>12. Elements(t) = Elements(s) \cup {e}
  BY <1>9, <1>10, <1>11 DEF Elements
<1> QED BY <1>12 DEF t

LEMMA CheckedItems ==
    ASSUME NEW w \in Workers, queue[w] \in Seq(Items), current[w] \in Items
    PROVE  Elements(<<current[w]>> \o queue[w]) = Buffered(w) \cup {current[w]}
<1> DEFINE q == queue[w]
           c == current[w]
           u == <<c>>
<1>1. q \in Seq(Items) /\ c \in Items
  OBVIOUS
<1>2. u \in Seq(Items) /\ Len(u) = 1 /\ u[1] = c
  OBVIOUS
<1> HIDE DEF q, c, u
<1>3. Elements(u \o q) = Elements(q) \cup {c}
  BY <1>1, <1>2, ConsElements
<1> QED BY <1>3 DEF Buffered, Elements, q, c, u

LEMMA WorkerFrameStep ==
    ASSUME RouterInv, RouteInv, NEW w \in Workers, WorkerStep(w)
    PROVE  WorkerFrame(w)
<1> USE RouterAssumption DEF RouterInv, Types, CallInv, WorkerFrame, Sent, Begun, InTurn, Workers
<1>0. \A i \in Items : i \in Buffered(w) \cup {current[w]} => status[i] \in Sent
  BY DEF RouteInv, Placed
<1>1. CASE Receive(w) \/ ChannelClosed(w) \/ BeginTurn(w)
  BY <1>0, <1>1 DEF At, BeginTurn, ChannelClosed, Go, Receive, SetStatus, Stale, callVars, mapVars,
          turnVars
<1>2. CASE AbandonItem(w) \/ SuppressResult(w)
  <2>1. /\ generation[w] # session /\ wpc[w] # "none"
        /\ UNCHANGED <<session, sender, latest, lifecycle, seen, route, generation>>
        /\ wpc' = [wpc EXCEPT ![w] = "done"]
        /\ queue' = [queue EXCEPT ![w] = <<>>]
        /\ current' = [current EXCEPT ![w] = NoWorker]
    BY <1>2 DEF AbandonItem, SuppressResult, At, Break, FinishItem, Go, Stale, mapVars
  <2>2. \A i \in Items : status'[i] # status[i] =>
            i \in Buffered(w) \cup {current[w]} /\ status'[i] = "dropped"
    BY <1>2 DEF AbandonItem, SuppressResult, DropItems
  <2> QED BY <1>0, <2>1, <2>2
<1>3. CASE StreamSnapshot(w) \/ UpdatePreview(w) \/ UpdatePreviewFails(w) \/ EndTurn(w)
  BY <1>3 DEF At, EndTurn, Go, RecordLateness, Stale, StreamSnapshot, UpdatePreview,
          UpdatePreviewFails, callVars, mapVars, turnVars
<1>4. CASE KeepResult(w) \/ PublishText(w) \/ PublishFailure(w)
  BY <1>0, <1>4 DEF At, FinishItem, Go, KeepResult, NextItem, PublishFailure, PublishText,
          RecordLateness, SetStatus, Stale, callVars, mapVars, turnVars
<1>5. CASE SendFiles(w) \/ BeginSynthesis(w) \/ SkipAudio(w) \/ Synthesize(w)
  BY <1>0, <1>5 DEF At, BeginSynthesis, FinishItem, Go, NextItem, SendFiles, SetStatus, SkipAudio,
          Stale, Synthesize, callVars, mapVars, turnVars
<1>6. CASE KeepAudio(w) \/ DiscardAudio(w) \/ SendAudio(w)
  BY <1>0, <1>6 DEF At, DiscardAudio, FinishItem, Go, KeepAudio, NextItem, RecordLateness, SendAudio,
          SetStatus, Stale, callVars, mapVars, turnVars
<1> QED BY <1>1, <1>2, <1>3, <1>4, <1>5, <1>6 DEF WorkerStep

LEMMA WorkerAbstractly ==
    ASSUME RouterInv, RouteInv, NEW w \in Workers, WorkerStep(w)
    PROVE  Abstractly(w)
<1> USE RouterAssumption DEF RouterInv, Types, CallInv, Abstractly, Begun, InTurn, Workers
<1>0. queue[w] \in Seq(Items)
  OBVIOUS
<1>1. CASE Receive(w)
  <2>1. /\ queue[w] # <<>> /\ wpc[w] = "recv" /\ wpc'[w] = "check"
        /\ current'[w] = Head(queue[w]) /\ queue'[w] = Tail(queue[w]) /\ status' = status
    BY <1>1 DEF Receive, At, Go, callVars
  <2>2. <<Head(queue[w])>> \o Tail(queue[w]) = queue[w]
    BY <1>0, <2>1, ConsHeadTail
  <2>3. <<>> \o queue[w] = queue[w]
    BY <1>0
  <2> QED BY <2>1, <2>2, <2>3 DEF Quiet, WaitingAt, ServedAt
<1>2. CASE BeginTurn(w)
  <2>1. /\ wpc[w] = "check" /\ wpc'[w] = "turn" /\ generation[w] = session
        /\ current'[w] = current[w] /\ queue'[w] = queue[w]
        /\ status' = [status EXCEPT ![current[w]] = "running"]
    BY <1>2 DEF BeginTurn, At, Go, SetStatus, Stale, turnVars
  <2>2. <<>> \o queue[w] = queue[w]
    BY <1>0
  <2> QED BY <2>1, <2>2 DEF Begins, WaitingAt, ServedAt
<1>3. CASE AbandonItem(w)
  <2>1. /\ wpc[w] = "check" /\ wpc'[w] = "done" /\ generation[w] # session
        /\ queue'[w] = <<>> /\ DropItems(w)
    BY <1>3 DEF AbandonItem, At, Break, Go, Stale
  <2>2. WaitingAt(w) = <<current[w]>> \o queue[w] /\ ServedAt(w) = {}
    BY <2>1 DEF WaitingAt, ServedAt
  <2>3. WaitingAt(w)' = <<>> /\ ServedAt(w)' = {}
    BY <2>1 DEF WaitingAt, ServedAt
  <2>4. current[w] \in Items
    BY <2>1
  <2>5. Elements(WaitingAt(w)) = Buffered(w) \cup {current[w]}
    BY <1>0, <2>2, <2>4, CheckedItems
  <2> QED BY <2>1, <2>2, <2>3, <2>5 DEF Breaks
<1>4. CASE SuppressResult(w)
  <2>1. /\ wpc[w] = "ended" /\ wpc'[w] = "done" /\ generation[w] # session
        /\ queue'[w] = <<>> /\ DropItems(w)
    BY <1>4 DEF SuppressResult, At, Break, Go, Stale
  <2>2. WaitingAt(w) = queue[w] /\ ServedAt(w) = {current[w]}
    BY <1>0, <2>1 DEF WaitingAt, ServedAt
  <2>3. WaitingAt(w)' = <<>> /\ ServedAt(w)' = {}
    BY <2>1 DEF WaitingAt, ServedAt
  <2> QED BY <2>1, <2>2, <2>3 DEF Breaks, Buffered, Elements
<1>5. CASE ChannelClosed(w)
  BY <1>5 DEF ChannelClosed, At, Go, Quiet, WaitingAt, ServedAt, callVars, turnVars
<1>6. CASE StreamSnapshot(w) \/ UpdatePreview(w) \/ UpdatePreviewFails(w) \/ EndTurn(w)
           \/ KeepResult(w) \/ PublishText(w)
  BY <1>6 DEF StreamSnapshot, UpdatePreview, UpdatePreviewFails, EndTurn, KeepResult, PublishText,
          At, Go, Quiet, WaitingAt, ServedAt, callVars, turnVars
<1>7. CASE BeginSynthesis(w) \/ Synthesize(w) \/ KeepAudio(w)
  BY <1>7 DEF BeginSynthesis, Synthesize, KeepAudio, At, Go, Quiet, WaitingAt, ServedAt, callVars,
          turnVars
<1>8. ASSUME NextItem(w), Begun(w), queue'[w] = queue[w]
      PROVE  Finishes(w)
  BY <1>8 DEF NextItem, Go, SetStatus, Finishes, WaitingAt, ServedAt
<1>9. CASE PublishFailure(w) \/ SkipAudio(w) \/ DiscardAudio(w) \/ SendAudio(w)
  BY <1>8, <1>9 DEF PublishFailure, SkipAudio, DiscardAudio, SendAudio, At
<1>10. CASE SendFiles(w)
  <2>1. CASE Go(w, "audio") /\ UNCHANGED <<status, active, current, turn, preview>>
    BY <1>10, <2>1 DEF SendFiles, At, Go, Quiet, WaitingAt, ServedAt
  <2>2. CASE NextItem(w)
    BY <1>8, <1>10, <2>2 DEF SendFiles, At
  <2> QED BY <1>10, <2>1, <2>2 DEF SendFiles
<1> QED BY <1>1, <1>2, <1>3, <1>4, <1>5, <1>6, <1>7, <1>9, <1>10 DEF WorkerStep

LEMMA SerialStep ==
    ASSUME Serialized = TRUE, SerialInv, [Next]_vars
    PROVE  SerialInv'
<1> USE RouterAssumption DEF SerialInv, Workers
<1>0. RouterInv' /\ RouteInv'
  BY TypesStep, GenerationStep, CallStepInv, BoundStep, LateStep, ActiveStep, TempStep, RouteStep
     DEF RouterInv
<1>1. ASSUME NEW w \in Workers, WorkerStep(w)
      PROVE  SerialInv'
  <2>1. WorkerFrame(w)
    BY <1>1, WorkerFrameStep
  <2>2. \A i \in Items : status'[i] \in Calling \cup {"route"} => status'[i] = status[i]
    BY <2>1 DEF WorkerFrame, Sent, Calling
  <2>3. latest' <= MaxGeneration /\ OneCallInv' /\ RoutedInv'
    BY <2>1, <2>2 DEF WorkerFrame, OneCallInv, RoutedInv, Calling
  <2>4. OneWorkerInv'
    <3>1. sender \in Workers \cup {NoWorker}
      BY DEF RouterInv, Types
    <3>2. sender' = sender /\ generation' = generation /\ session' = session /\ lifecycle' = lifecycle
      BY <2>1 DEF WorkerFrame
    <3>3. \A v \in Workers : wpc'[v] = "none" <=> wpc[v] = "none"
      BY <2>1 DEF WorkerFrame
    <3>4. \A v \in Workers : wpc'[v] = "none" => queue'[v] = <<>>
      BY <2>1 DEF WorkerFrame, OneWorkerInv
    <3>5. \A v \in Workers : wpc'[v] # "none" /\ generation[v] = session
                                => wpc'[v] # "done" /\ sender = v /\ lifecycle = "idle"
      BY <2>1, <3>3 DEF WorkerFrame, OneWorkerInv
    <3> QED BY <3>1, <3>2, <3>3, <3>4, <3>5 DEF OneWorkerInv
  <2> QED BY <1>0, <2>3, <2>4
<1>2. CASE RegisterSession \/ MarkSessionStale
  BY <1>0, <1>2 DEF RegisterSession, MarkSessionStale, MayCall, NoCallRuns, OneCallInv, RoutedInv,
          OneWorkerInv, Calling, RouterInv, Types, GenerationInv, callVars, mapVars, turnVars, workerVars
<1>3. CASE DropSender
  BY <1>0, <1>3 DEF DropSender, OneCallInv, RoutedInv, OneWorkerInv, Calling, RouterInv, Types,
          callVars, mapVars, turnVars, workerVars
<1>4. ASSUME NEW i \in Items, Enqueue(i)
      PROVE  SerialInv'
  BY <1>0, <1>4 DEF Enqueue, SetStatus, MayCall, NoCallRuns, OneCallInv, RoutedInv, OneWorkerInv,
          Calling, RouterInv, Types, callVars, mapVars, turnVars, workerVars
<1>5. ASSUME NEW i \in Items,
             LookUpSession(i) \/ ReuseWorker(i) \/ CountBuffered(i) \/ CountActive(i) \/ SendFails(i)
      PROVE  SerialInv'
  <2>1. UNCHANGED <<session, sender, latest, lifecycle, generation, wpc, queue>>
    BY <1>5 DEF LookUpSession, ReuseWorker, CountBuffered, CountActive, SendFails, mapVars, workerVars
  <2>2. OneWorkerInv' /\ latest' <= MaxGeneration
    BY <2>1 DEF OneWorkerInv
  <2>3. status[i] \in Calling
    BY <1>5 DEF LookUpSession, ReuseWorker, CountBuffered, CountActive, SendFails, Calling
  <2>4. \A j \in Items \ {i} : /\ status'[j] = status[j] /\ seen'[j] = seen[j]
                               /\ route'[j] = route[j] /\ status[j] \notin Calling
    BY <1>5, <2>3 DEF LookUpSession, ReuseWorker, CountBuffered, CountActive, SendFails, SetStatus,
            OneCallInv, RouterInv, Types
  <2>5. OneCallInv'
    BY <2>1, <2>3, <2>4 DEF OneCallInv
  <2>6. status'[i] = "route" => seen'[i] = session
    BY <1>5 DEF LookUpSession, ReuseWorker, CountBuffered, CountActive, SendFails, SetStatus,
            RouterInv, Types
  <2>7. status'[i] \in {"count", "count_active", "send"}
          => route'[i] = sender /\ generation[sender] = session
    BY <1>5 DEF LookUpSession, ReuseWorker, Reusable, CountBuffered, CountActive, SendFails, SetStatus,
            RoutedInv, RouterInv, Types
  <2>8. RoutedInv'
    BY <2>1, <2>4, <2>6, <2>7 DEF RoutedInv, Calling
  <2> QED BY <1>0, <2>2, <2>5, <2>8
<1>6. ASSUME NEW i \in Items, Send(i)
      PROVE  SerialInv'
  <2>1. /\ status[i] = "send" /\ status' = [status EXCEPT ![i] = "accepted"]
        /\ queue' = [queue EXCEPT ![route[i]] = Append(@, i)]
        /\ UNCHANGED <<session, sender, latest, lifecycle, generation, wpc, seen, route>>
    BY <1>6 DEF Send, SetStatus, mapVars
  <2>2. wpc[route[i]] # "none"
    BY <2>1 DEF RoutedInv, OneWorkerInv, RouterInv, CallInv
  <2>3. \A w \in Workers : wpc[w] = "none" => queue'[w] = queue[w]
    BY <2>1, <2>2 DEF RouterInv, Types
  <2>4. OneWorkerInv' /\ latest' <= MaxGeneration
    BY <2>1, <2>3 DEF OneWorkerInv
  <2>5. OneCallInv' /\ RoutedInv'
    BY <2>1 DEF OneCallInv, RoutedInv, Calling, RouterInv, Types
  <2> QED BY <1>0, <2>4, <2>5
<1>7. ASSUME NEW i \in Items, SpawnWorker(i)
      PROVE  SerialInv'
  <2>1. /\ status[i] = "route" /\ ~ Reusable(i)
        /\ status' = [status EXCEPT ![i] = "count"]
        /\ route' = [route EXCEPT ![i] = i]
        /\ wpc' = [wpc EXCEPT ![i] = "recv"]
        /\ generation' = [generation EXCEPT ![i] = seen[i]]
        /\ sender' = i
        /\ UNCHANGED <<session, latest, lifecycle, seen, queue>>
    BY <1>7 DEF SpawnWorker, SetStatus
  <2>2. wpc[i] = "none" /\ seen[i] = session /\ lifecycle = "idle"
    BY <2>1 DEF RouterInv, CallInv, RoutedInv, OneCallInv, Calling
  <2>3. \A w \in Workers : wpc[w] # "none" => generation[w] # session
    BY <2>1, <2>2 DEF Reusable, OneWorkerInv
  <2>4. OneCallInv' /\ latest' <= MaxGeneration
    BY <2>1 DEF OneCallInv, Calling, RouterInv, Types
  <2>5. RoutedInv'
    BY <2>1, <2>2 DEF RoutedInv, OneCallInv, Calling, RouterInv, Types
  <2>6. OneWorkerInv'
    BY <2>1, <2>2, <2>3 DEF OneWorkerInv, RouterInv, Types
  <2> QED BY <1>0, <2>4, <2>5, <2>6
<1>8. CASE UNCHANGED vars
  BY <1>0, <1>8 DEF vars, callVars, mapVars, turnVars, workerVars, OneCallInv, RoutedInv, OneWorkerInv
<1> QED BY <1>1, <1>2, <1>3, <1>4, <1>5, <1>6, <1>7, <1>8 DEF Next, CallStep

\* The one worker of a generation is what the abstract queue shows of it.
Views ==
    /\ \A w \in Workers :
           wpc[w] # "none" => /\ generation[w] \in 1..MaxGeneration
                              /\ ServedBy(generation[w]) = {w}
                              /\ Waiting[generation[w]] = WaitingAt(w)
                              /\ Serving[generation[w]] = ServedAt(w)
    /\ \A g \in 1..MaxGeneration : ServedBy(g) = {} => Waiting[g] = <<>> /\ Serving[g] = {}
    /\ DOMAIN Waiting = 1..MaxGeneration /\ DOMAIN Serving = 1..MaxGeneration

LEMMA ViewsHold == SerialInv => Views
<1> SUFFICES ASSUME SerialInv
             PROVE  Views
  OBVIOUS
<1>1. ASSUME NEW w \in Workers, wpc[w] # "none"
      PROVE  /\ generation[w] \in 1..MaxGeneration
             /\ ServedBy(generation[w]) = {w}
             /\ Waiting[generation[w]] = WaitingAt(w)
             /\ Serving[generation[w]] = ServedAt(w)
  <2> DEFINE g == generation[w]
  <2>1. g \in 1..MaxGeneration
    BY <1>1, RouterAssumption DEF SerialInv, RouterInv, Types, GenerationInv
  <2>2. ServedBy(g) = {w}
    BY <1>1 DEF ServedBy, SerialInv, OneWorkerInv
  <2>3. (CHOOSE v \in ServedBy(g) : TRUE) = w
    BY <2>2
  <2>4. Waiting[g] = WaitingAt(w)
    BY <2>1, <2>2, <2>3 DEF Waiting
  <2>5. Serving[g] = {current[v] : v \in {x \in {w} : Begun(x)}}
    BY <2>1, <2>2 DEF Serving
  <2>6. Serving[g] = ServedAt(w)
    BY <2>5 DEF ServedAt
  <2> QED BY <2>1, <2>2, <2>4, <2>6
<1>2. ASSUME NEW g \in 1..MaxGeneration, ServedBy(g) = {}
      PROVE  Waiting[g] = <<>> /\ Serving[g] = {}
  BY <1>2 DEF Waiting, Serving
<1> QED BY <1>1, <1>2 DEF Views, Waiting, Serving

\* Only w changes, and it is a worker before and after.
OnlyMoves(w) ==
    /\ generation' = generation
    /\ wpc[w] # "none" /\ wpc'[w] # "none"
    /\ \A v \in Workers \ {w} : wpc'[v] = wpc[v] /\ queue'[v] = queue[v] /\ current'[v] = current[v]

LEMMA MoveOfOne ==
    ASSUME SerialInv, Views, Views', NEW w \in Workers, OnlyMoves(w)
    PROVE  /\ Waiting' = [Waiting EXCEPT ![generation[w]] = WaitingAt(w)']
           /\ Serving' = [Serving EXCEPT ![generation[w]] = ServedAt(w)']
<1> DEFINE g == generation[w]
<1>1. /\ g \in 1..MaxGeneration /\ generation'[w] = g
      /\ Waiting'[g] = WaitingAt(w)' /\ Serving'[g] = ServedAt(w)'
  BY DEF Views, OnlyMoves
<1>2. ASSUME NEW h \in 1..MaxGeneration, h # g
      PROVE  Waiting'[h] = Waiting[h] /\ Serving'[h] = Serving[h]
  <2>1. ServedBy(h)' = ServedBy(h)
    BY <1>2 DEF ServedBy, OnlyMoves
  <2>2. CASE ServedBy(h) = {}
    BY <2>1, <2>2 DEF Views
  <2>3. CASE ServedBy(h) # {}
    <3>1. PICK v \in Workers : wpc[v] # "none" /\ generation[v] = h
      BY <2>3 DEF ServedBy
    <3>2. /\ v # w /\ wpc'[v] = wpc[v] /\ queue'[v] = queue[v] /\ current'[v] = current[v]
          /\ generation'[v] = h
      BY <1>2, <3>1 DEF OnlyMoves
    <3>3. WaitingAt(v)' = WaitingAt(v) /\ ServedAt(v)' = ServedAt(v)
      BY <3>2 DEF WaitingAt, ServedAt, Begun, InTurn
    <3>4. /\ Waiting[h] = WaitingAt(v) /\ Serving[h] = ServedAt(v)
          /\ Waiting'[h] = WaitingAt(v)' /\ Serving'[h] = ServedAt(v)'
      BY <3>1, <3>2 DEF Views
    <3> QED BY <3>3, <3>4
  <2> QED BY <2>2, <2>3
<1>3. /\ DOMAIN Waiting = 1..MaxGeneration /\ DOMAIN Serving = 1..MaxGeneration
      /\ DOMAIN Waiting' = 1..MaxGeneration /\ DOMAIN Serving' = 1..MaxGeneration
  BY DEF Views
<1>4. /\ Waiting = [h \in 1..MaxGeneration |-> Waiting[h]]
      /\ Serving = [h \in 1..MaxGeneration |-> Serving[h]]
      /\ Waiting' = [h \in 1..MaxGeneration |-> Waiting'[h]]
      /\ Serving' = [h \in 1..MaxGeneration |-> Serving'[h]]
  BY DEF Waiting, Serving
<1> HIDE DEF g
<1>5. Waiting' = [Waiting EXCEPT ![g] = WaitingAt(w)']
  BY <1>1, <1>2, <1>4
<1>6. Serving' = [Serving EXCEPT ![g] = ServedAt(w)']
  BY <1>1, <1>2, <1>4
<1> QED BY <1>5, <1>6 DEF g

\* Nothing moves for the abstract queue when no worker does.
LEMMA NothingMoves ==
    ASSUME UNCHANGED <<generation, wpc, queue, current>>
    PROVE  Waiting' = Waiting /\ Serving' = Serving
BY DEF Waiting, Serving, ServedBy, WaitingAt, Begun, InTurn

LEMMA WorkerRefines ==
    ASSUME SerialInv, Views, Views', NEW w \in Workers, WorkerStep(w)
    PROVE  [Queue!Next]_Queue!vars
<1> DEFINE g == generation[w]
           c == current[w]
<1>1. WorkerFrame(w) /\ Abstractly(w)
  BY WorkerFrameStep, WorkerAbstractly DEF SerialInv
<1>2. /\ Waiting' = [Waiting EXCEPT ![g] = WaitingAt(w)']
      /\ Serving' = [Serving EXCEPT ![g] = ServedAt(w)']
  BY <1>1, MoveOfOne DEF WorkerFrame, OnlyMoves
<1>3. session' = session /\ latest' = latest /\ g \in 1..MaxGeneration
  BY <1>1 DEF WorkerFrame, Views
<1>4. Waiting[g] = WaitingAt(w) /\ Serving[g] = ServedAt(w)
  BY <1>1 DEF WorkerFrame, Views
<1>5. status \in [Items -> Calling \cup {"new", "missing_session", "queue_closed",
                                        "accepted", "running", "answered", "dropped"}]
  BY DEF SerialInv, RouterInv, Types
<1>6. queue[w] \in Seq(Items)
  BY DEF SerialInv, RouterInv, Types
<1>7. CASE Quiet(w)
  <2>1. Waiting' = Waiting /\ Serving' = Serving
    BY <1>2, <1>4, <1>7 DEF Quiet, Waiting, Serving
  <2>2. Fate' = Fate
    BY <1>7 DEF Quiet, Fate
  <2> QED BY <1>3, <2>1, <2>2 DEF Queue!vars
<1>8. CASE Begins(w)
  <2>1. /\ session = g /\ Serving[g] = {} /\ Waiting[g] = <<c>> \o queue[w] /\ c \in Items
        /\ Waiting' = [Waiting EXCEPT ![g] = queue[w]]
        /\ Serving' = [Serving EXCEPT ![g] = {c}]
        /\ status' = [status EXCEPT ![c] = "running"]
    BY <1>2, <1>4, <1>8 DEF Begins
  <2> HIDE DEF g, c
  <2>2. Waiting[g] # <<>> /\ Head(Waiting[g]) = c /\ Tail(Waiting[g]) = queue[w]
    BY <1>6, <2>1, HeadTailOfCons
  <2>3. Fate' = [Fate EXCEPT ![c] = "running"]
    BY <1>5, <2>1 DEF Fate
  <2>4. session # 0 /\ Serving[session] = {} /\ Waiting[session] # <<>>
    BY <1>3, <2>1, <2>2
  <2>5. /\ Serving' = [Serving EXCEPT ![session] = {Head(Waiting[session])}]
        /\ Waiting' = [Waiting EXCEPT ![session] = Tail(Waiting[session])]
        /\ Fate' = [Fate EXCEPT ![Head(Waiting[session])] = "running"]
    <3>1. Head(Waiting[session]) = c /\ Tail(Waiting[session]) = queue[w] /\ session = g
      BY <2>1, <2>2
    <3> QED BY <2>1, <2>3, <3>1, Zenon
  <2>6. Queue!Begin
    BY <1>3, <2>4, <2>5 DEF Queue!Begin
  <2> QED BY <2>6 DEF Queue!Next
<1>9. CASE Finishes(w)
  <2>1. /\ Serving[g] = {c} /\ Waiting' = Waiting /\ c \in Items
        /\ Serving' = [Serving EXCEPT ![g] = {}]
        /\ status' = [status EXCEPT ![c] = "answered"]
    BY <1>2, <1>4, <1>9 DEF Finishes, Waiting
  <2>2. Fate' = [Fate EXCEPT ![c] = "answered"]
    BY <1>5, <2>1 DEF Fate
  <2>3. Queue!Finish(g, c)
    BY <1>3, <2>1, <2>2 DEF Queue!Finish
  <2> QED BY <1>3, <2>1, <2>3 DEF Queue!Next
<1>10. CASE Breaks(w)
  <2> DEFINE gone == Serving[g] \cup {Waiting[g][k] : k \in DOMAIN Waiting[g]}
  <2>1. gone = Buffered(w) \cup {c}
    BY <1>4, <1>10 DEF Breaks, Elements
  <2>2. /\ g # session /\ DropItems(w)
        /\ Waiting' = [Waiting EXCEPT ![g] = <<>>]
        /\ Serving' = [Serving EXCEPT ![g] = {}]
    BY <1>2, <1>10 DEF Breaks
  <2> HIDE DEF gone
  <2>3. Fate' = [i \in Items |-> IF i \in gone THEN "dropped" ELSE Fate[i]]
    BY <1>5, <2>1, <2>2 DEF Fate, DropItems
  <2>4. gone # {}
    BY <2>1
  <2>5. Queue!Drop(g)
    BY <1>3, <2>2, <2>3, <2>4 DEF Queue!Drop, gone
  <2> QED BY <1>3, <2>5 DEF Queue!Next
<1> QED BY <1>1, <1>7, <1>8, <1>9, <1>10 DEF Abstractly

LEMMA SendRefines ==
    ASSUME SerialInv, Views, Views', NEW i \in Items, Send(i)
    PROVE  Queue!Next
<1>0. route[i] \in Workers
  BY DEF Send, SerialInv, RouterInv, CallInv
<1> PICK w \in Workers : w = route[i]
  BY <1>0
<1> DEFINE q == queue[w]
<1>1. /\ status[i] = "send" /\ wpc[w] # "done" /\ Len(q) < Depth
      /\ queue' = [queue EXCEPT ![w] = Append(q, i)]
      /\ status' = [status EXCEPT ![i] = "accepted"]
      /\ UNCHANGED <<session, latest, generation, wpc, current>>
  BY DEF Send, SetStatus, HasRoom, mapVars, turnVars
<1>2. w = sender /\ generation[w] = session /\ wpc[w] # "none"
  BY <1>1, RouterAssumption DEF SerialInv, RoutedInv, OneWorkerInv, Workers
<1>3. q \in Seq(Items) /\ queue'[w] = Append(q, i)
  BY <1>1, <1>2 DEF SerialInv, RouterInv, Types
<1>4. /\ session \in 1..MaxGeneration
      /\ Waiting[session] = WaitingAt(w) /\ Serving[session] = ServedAt(w)
  BY <1>2 DEF Views
<1>5. OnlyMoves(w)
  BY <1>1, <1>2 DEF OnlyMoves, SerialInv, RouterInv, Types
<1>6. /\ Waiting' = [Waiting EXCEPT ![session] = WaitingAt(w)']
      /\ Serving' = [Serving EXCEPT ![session] = ServedAt(w)']
  BY <1>2, <1>5, MoveOfOne
<1>7. WaitingAt(w)' = Append(WaitingAt(w), i) /\ Len(WaitingAt(w)) < Depth + 1
  <2>1. CASE wpc[w] = "check"
    <3>1. current[w] \in Items
      BY <1>2, <2>1 DEF SerialInv, RouterInv, CallInv
    <3>2. WaitingAt(w) = <<current[w]>> \o q /\ WaitingAt(w)' = <<current[w]>> \o Append(q, i)
      BY <1>1, <1>3, <2>1 DEF WaitingAt
    <3>3. <<current[w]>> \in Seq(Items) /\ Len(<<current[w]>>) = 1
      BY <3>1
    <3>4. Len(<<current[w]>> \o q) = 1 + Len(q)
      BY <1>3, <3>3, ConcatProperties
    <3>5. <<current[w]>> \o Append(q, i) = Append(<<current[w]>> \o q, i)
      BY <1>3, <3>3, AppendOfConcat
    <3> QED BY <1>1, <1>3, <3>2, <3>4, <3>5, RouterAssumption
  <2>2. CASE wpc[w] # "check"
    <3>1. WaitingAt(w) = q /\ WaitingAt(w)' = Append(q, i)
      <4>1. <<>> \o q = q /\ <<>> \o Append(q, i) = Append(q, i)
        BY <1>3, AppendProperties, ConcatEmptySeq
      <4> QED BY <1>1, <1>3, <2>2, <4>1 DEF WaitingAt
    <3> QED BY <1>1, <1>3, <3>1, RouterAssumption
  <2> QED BY <2>1, <2>2
<1>8. Serving' = Serving
  <2>1. ServedAt(w)' = ServedAt(w)
    BY <1>1 DEF ServedAt, Begun, InTurn
  <2> QED BY <1>4, <1>6, <2>1 DEF Serving
<1>9. Fate[i] = "new" /\ Fate' = [Fate EXCEPT ![i] = "accepted"]
  BY <1>1 DEF Fate, SerialInv, RouterInv, Types
<1> HIDE DEF q
<1>10. Queue!Accept(i)
  BY <1>1, <1>4, <1>6, <1>7, <1>8, <1>9 DEF Queue!Accept
<1> QED BY <1>10 DEF Queue!Next

LEMMA SpawnRefines ==
    ASSUME SerialInv, Views, Views', NEW i \in Items, SpawnWorker(i)
    PROVE  UNCHANGED Queue!vars
<1>1. /\ status[i] = "route" /\ ~ Reusable(i)
      /\ status' = [status EXCEPT ![i] = "count"]
      /\ wpc' = [wpc EXCEPT ![i] = "recv"]
      /\ generation' = [generation EXCEPT ![i] = seen[i]]
      /\ UNCHANGED <<session, latest, queue, current>>
  BY DEF SpawnWorker, SetStatus, turnVars
<1>2. wpc[i] = "none" /\ seen[i] = session /\ queue[i] = <<>>
  BY <1>1 DEF SerialInv, RouterInv, CallInv, RoutedInv, OneWorkerInv, Workers
<1>3. \A w \in Workers : wpc[w] # "none" => generation[w] # session
  BY <1>1, <1>2, RouterAssumption DEF Reusable, SerialInv, OneWorkerInv, Workers
<1>4. /\ wpc'[i] = "recv" /\ generation'[i] = session /\ i \in Workers
      /\ \A w \in Workers \ {i} : wpc'[w] = wpc[w] /\ generation'[w] = generation[w]
  BY <1>1, <1>2 DEF SerialInv, RouterInv, Types, Workers
<1>5. ServedBy(session) = {}
  BY <1>3 DEF ServedBy
<1>6. ASSUME NEW h \in 1..MaxGeneration
      PROVE  Waiting'[h] = Waiting[h] /\ Serving'[h] = Serving[h]
  <2>1. CASE h = session
    <3>1. WaitingAt(i)' = <<>> /\ ServedAt(i)' = {}
      BY <1>1, <1>2, <1>4 DEF WaitingAt, ServedAt, Begun, InTurn
    <3>2. Waiting'[h] = WaitingAt(i)' /\ Serving'[h] = ServedAt(i)'
      BY <1>4, <2>1 DEF Views
    <3> QED BY <1>5, <2>1, <3>1, <3>2 DEF Views
  <2>2. CASE h # session
    <3>1. ServedBy(h)' = ServedBy(h)
      BY <1>2, <1>4, <2>2 DEF ServedBy
    <3>2. CASE ServedBy(h) = {}
      BY <3>1, <3>2 DEF Views
    <3>3. CASE ServedBy(h) # {}
      <4>1. PICK v \in Workers : wpc[v] # "none" /\ generation[v] = h
        BY <3>3 DEF ServedBy
      <4>2. wpc'[v] = wpc[v] /\ generation'[v] = h
        BY <1>2, <1>4, <4>1
      <4>3. WaitingAt(v)' = WaitingAt(v) /\ ServedAt(v)' = ServedAt(v)
        BY <1>1, <4>2 DEF WaitingAt, ServedAt, Begun, InTurn
      <4>4. /\ Waiting[h] = WaitingAt(v) /\ Serving[h] = ServedAt(v)
            /\ Waiting'[h] = WaitingAt(v)' /\ Serving'[h] = ServedAt(v)'
        BY <4>1, <4>2 DEF Views
      <4> QED BY <4>3, <4>4
    <3> QED BY <3>2, <3>3
  <2> QED BY <2>1, <2>2
<1>7. /\ Waiting = [h \in 1..MaxGeneration |-> Waiting[h]]
      /\ Serving = [h \in 1..MaxGeneration |-> Serving[h]]
      /\ Waiting' = [h \in 1..MaxGeneration |-> Waiting'[h]]
      /\ Serving' = [h \in 1..MaxGeneration |-> Serving'[h]]
  BY DEF Waiting, Serving
<1>8. Waiting' = Waiting /\ Serving' = Serving
  BY <1>6, <1>7
<1>9. Fate' = Fate
  BY <1>1 DEF Fate, SerialInv, RouterInv, Types
<1> QED BY <1>1, <1>8, <1>9 DEF Queue!vars

LEMMA StepRefines ==
    ASSUME SerialInv, Views, Views', [Next]_vars
    PROVE  [Queue!Next]_Queue!vars
<1>1. CASE RegisterSession
  <2>1. /\ session' = latest + 1 /\ latest' = latest + 1 /\ latest < MaxGeneration
        /\ UNCHANGED <<status, generation, wpc, queue, current>>
    BY <1>1 DEF RegisterSession, callVars, workerVars, turnVars
  <2>2. session' \in {g \in 1..MaxGeneration : g > latest}
    BY <2>1, RouterAssumption DEF SerialInv, RouterInv, Types
  <2>3. Queue!Replace
    BY <2>1, <2>2, NothingMoves DEF Queue!Replace, Fate
  <2> QED BY <2>3 DEF Queue!Next
<1>2. CASE MarkSessionStale
  <2>1. session' = 0 /\ latest' = latest /\ UNCHANGED <<status, generation, wpc, queue, current>>
    BY <1>2 DEF MarkSessionStale, callVars, workerVars, turnVars
  <2>2. Queue!Replace
    BY <2>1, NothingMoves DEF Queue!Replace, Fate
  <2> QED BY <2>2 DEF Queue!Next
<1>3. CASE DropSender \/ UNCHANGED vars
  <2>1. UNCHANGED <<session, latest, status, generation, wpc, queue, current>>
    BY <1>3 DEF DropSender, vars, callVars, mapVars, workerVars, turnVars
  <2> QED BY <2>1, NothingMoves DEF Queue!vars, Fate
<1>4. ASSUME NEW i \in Items,
             Enqueue(i) \/ LookUpSession(i) \/ ReuseWorker(i) \/ CountBuffered(i)
             \/ CountActive(i) \/ SendFails(i)
      PROVE  [Queue!Next]_Queue!vars
  <2>1. UNCHANGED <<session, latest, generation, wpc, queue, current>>
    BY <1>4 DEF Enqueue, LookUpSession, ReuseWorker, CountBuffered, CountActive, SendFails, mapVars,
            workerVars, turnVars
  <2>2. Fate' = Fate
    BY <1>4 DEF Enqueue, LookUpSession, ReuseWorker, CountBuffered, CountActive, SendFails, SetStatus,
            Fate, SerialInv, RouterInv, Types
  <2> QED BY <2>1, <2>2, NothingMoves DEF Queue!vars
<1>5. ASSUME NEW i \in Items, Send(i) \/ SpawnWorker(i)
      PROVE  [Queue!Next]_Queue!vars
  BY <1>5, SendRefines, SpawnRefines
<1>6. ASSUME NEW w \in Workers, WorkerStep(w)
      PROVE  [Queue!Next]_Queue!vars
  BY <1>6, WorkerRefines
<1> QED BY <1>1, <1>2, <1>3, <1>4, <1>5, <1>6 DEF Next, CallStep

LEMMA InitRefines == Init => Queue!Init
<1> SUFFICES ASSUME Init
             PROVE  Queue!Init
  OBVIOUS
<1>1. \A g : ServedBy(g) = {}
  BY DEF Init, ServedBy
<1>2. Waiting = [g \in 1..MaxGeneration |-> <<>>] /\ Serving = [g \in 1..MaxGeneration |-> {}]
  BY <1>1 DEF Waiting, Serving
<1>3. Fate = [i \in Items |-> "new"]
  BY DEF Init, Fate
<1> QED BY <1>2, <1>3 DEF Init, Queue!Init

\* When the calls for a chat come one after the other, its router is the queue that
\* Conversation is built on: first come, first served, one item at a time for each
\* session, through replacements, for any number of items, sessions and any depth.
THEOREM Refinement ==
    ASSUME Serialized = TRUE
    PROVE  Spec => ImplementsChatQueue
<1>1. Init => SerialInv
  BY InitInv, RouterAssumption DEF Init, SerialInv, RouteInv, Buffered, OneCallInv, RoutedInv,
     OneWorkerInv, Calling, Workers
<1>2. SerialInv /\ [Next]_vars => SerialInv'
  BY SerialStep
<1>3. SerialInv /\ Views /\ Views' /\ [Next]_vars => [Queue!Next]_Queue!vars
  BY StepRefines
<1> QED BY <1>1, <1>2, <1>3, ViewsHold, InitRefines, PTL DEF Spec, ImplementsChatQueue, Queue!Spec
=============================================================================
