-------------------------- MODULE MsgWorkerProofs ---------------------------
(***************************************************************************)
(* The safety of the upstream pipeline, for any number of processes,       *)
(* partitions, messages and faults: PipelineInv is inductive, and the      *)
(* properties of MsgWorker and the refinement of MessageService follow.    *)
(***************************************************************************)
EXTENDS MsgWorkerDuplicateProofs

-----------------------------------------------------------------------------
(* From the save to the end of the handler                                 *)

\* Steps that neither insert nor draw a number, of one goroutine.
Advances(th) ==
    /\ UNCHANGED <<rows, issued, cur, seq, dup>>
    /\ pc[th] # "save" /\ pc'[th] # "save"
    /\ \A other \in Threads : other # th => Idles(other)

\* A goroutine that moves past its save leaves the held numbers alone.
LEMMA AdvanceHeldSeq ==
    ASSUME HeldSeqInv, NEW th \in Threads, Advances(th)
    PROVE  HeldSeqInv'
  BY DEF HeldSeqInv, Advances, Idles, Topic

\* Mentions, backup and conversation rows keep a fresh message fresh.
LEMMA CarryStep ==
    ASSUME PipelineInv, NEW th \in Threads,
           SaveMentions(th) \/ BackupSeq(th) \/ UpsertConversations(th)
    PROVE  HeldSeqInv' /\ StoredInv' /\ DeliveryInv'
<1>0. TypeOK /\ HeldSeqInv /\ StoredInv /\ DeliveryInv
  BY DEF PipelineInv
<1>1. /\ UNCHANGED <<rows, issued, cur, seq, dup, dlq, done, enqueued>>
      /\ pc[th] \in {"mention", "backup", "upsert"}
      /\ pc'[th] \in {"backup", "upsert", "enqueue", "done"}
      /\ CarriesFresh(th)' <=> CarriesFresh(th)
  <2> USE <1>0 DEF Goto, CarriesFresh, TypeOK, HandlerTypeOK, seqVars
  <2>1. CASE SaveMentions(th)
    BY <2>1 DEF SaveMentions, AfterMention
  <2>2. CASE BackupSeq(th)
    BY <2>2 DEF BackupSeq
  <2>3. CASE UpsertConversations(th)
    BY Zenon, <2>3 DEF UpsertConversations
  <2> QED
    BY <2>1, <2>2, <2>3
<1>2. \A other \in Threads : other # th => Idles(other)
  BY <1>0, ThreadStepLocal DEF Progress
<1>3. HeldSeqInv'
  BY ZenonT(40), <1>0, <1>1, <1>2, AdvanceHeldSeq DEF Advances
<1>4. \A t \in Threads : CarriesFresh(t)' <=> CarriesFresh(t)
  BY ZenonT(40), <1>1, <1>2 DEF CarriesFresh, Idles
<1>5. Stored(cur[th].msg)
  BY ZenonT(40), <1>0, <1>1 DEF StoredInv, CarriesFresh
<1>6. StoredInv'
  <2>1. \A m : (Stored(m)' <=> Stored(m)) /\ \A o : HasCopy(o, m)' <=> HasCopy(o, m)
    BY Zenon, <1>1 DEF Stored, HasCopy
  <2>2. HandledIsDurable'
    BY Zenon, <1>0, <1>1, <2>1 DEF StoredInv, HandledIsDurable
  <2>3. \A t \in Threads : cur'[t] = cur[t]
    BY Zenon, <1>1, <1>2 DEF Idles
  <2>4. \A t \in Threads : (pc[t] = "mention" \/ CarriesFresh(t))' => Stored(cur[t].msg)'
    BY Zenon, <1>0, <1>1, <1>2, <1>4, <1>5, <2>1, <2>3 DEF StoredInv, Idles
  <2>5. \A t \in Threads : (pc[t] = "done")' => (Stored(cur[t].msg) \/ cur[t] \in dlq)'
    BY Zenon, <1>0, <1>1, <1>2, <1>5, <2>1, <2>3 DEF StoredInv, Idles
  <2> QED
    BY Zenon, <1>0, <2>1, <2>2, <2>4, <2>5 DEF StoredInv, Transactional
<1>7. DeliveryInv'
  BY ZenonT(40), <1>0, <1>1, <1>4 DEF DeliveryInv, DeliveredAtMostOnce, Stored, HasCopy
<1> QED
  BY <1>3, <1>6, <1>7

\* The one step that submits a delivery uses up the only claim to it.
LEMMA EnqueueStep ==
    ASSUME PipelineInv, NEW th \in Threads, EnqueueDelivery(th)
    PROVE  HeldSeqInv' /\ StoredInv' /\ DeliveryInv'
<1>0. /\ TypeOK /\ HeldSeqInv /\ StoredInv /\ DeliveryInv
      /\ cur[th].msg \in Msgs /\ enqueued \in [Msgs -> Nat]
  BY Zenon, ActiveTask DEF PipelineInv, EnqueueDelivery, Active, TypeOK, HistoryTypeOK
<1>1. /\ UNCHANGED <<rows, issued, cur, seq, dup, dlq, done>>
      /\ enqueued' = [enqueued EXCEPT ![cur[th].msg] = @ + 1]
      /\ pc[th] = "enqueue" /\ pc'[th] = "done"
  BY <1>0 DEF EnqueueDelivery, Goto, TypeOK, HandlerTypeOK, seqVars, storeVars
<1>2. \A other \in Threads : other # th => Idles(other)
  BY <1>0, ThreadStepLocal DEF Progress
<1>3. HeldSeqInv'
  BY <1>0, <1>1, <1>2, AdvanceHeldSeq DEF Advances
<1>4. CarriesFresh(th) /\ Stored(cur[th].msg) /\ enqueued[cur[th].msg] = 0
  BY Zenon, <1>0, <1>1 DEF StoredInv, DeliveryInv, CarriesFresh
<1>5. \A t \in Threads : CarriesFresh(t)' <=> CarriesFresh(t) /\ t # th
  BY <1>1, <1>2 DEF CarriesFresh, Idles
<1>6. StoredInv'
  BY <1>0, <1>1, <1>2, <1>4, <1>5
     DEF StoredInv, Idles, HandledIsDurable, Stored, HasCopy, Transactional
<1>7. DeliveryInv'
  <2>1. \A t \in Threads : CarriesFresh(t)' => enqueued'[cur[t].msg] = 0
    <3>1. SUFFICES ASSUME NEW t \in Threads, CarriesFresh(t)'
                   PROVE  enqueued'[cur[t].msg] = 0
      OBVIOUS
    <3>2. t # th /\ CarriesFresh(t)
      BY Zenon, <1>5, <3>1
    <3>3. enqueued[cur[t].msg] = 0 /\ cur[t].msg # cur[th].msg
      BY Zenon, <1>0, <1>4, <3>2 DEF DeliveryInv
    <3>4. cur[t].msg \in Msgs
      BY Zenon, <3>2, ActiveTask DEF PipelineInv, CarriesFresh, Active
    <3> QED
      BY <1>0, <1>1, <3>3, <3>4
  <2>2. \A n \in Msgs : Stored(n)' <=> Stored(n)
    BY <1>1 DEF Stored, HasCopy
  <2>3. DeliveredAtMostOnce'
    BY <1>0, <1>1, <1>4, <2>2 DEF DeliveryInv, DeliveredAtMostOnce
  <2> QED
    BY ZenonT(40), <1>0, <1>1, <1>5, <2>1, <2>3 DEF DeliveryInv
<1> QED
  BY <1>3, <1>6, <1>7

\* A record leaves the handler stored or dead-lettered.
LEMMA FinishStep ==
    ASSUME PipelineInv, NEW th \in Threads, Finish(th)
    PROVE  HeldSeqInv' /\ StoredInv' /\ DeliveryInv'
<1>0. TypeOK /\ HeldSeqInv /\ StoredInv /\ DeliveryInv
  BY DEF PipelineInv
<1>1. /\ UNCHANGED <<rows, issued, dlq, enqueued>>
      /\ done' = done \cup {cur[th]}
      /\ pc[th] = "done" /\ pc'[th] = "idle"
  BY <1>0 DEF Finish, Return, Goto, TypeOK, HandlerTypeOK, seqVars, storeVars
<1>2. \A other \in Threads : other # th => Idles(other)
  BY <1>0, ThreadStepLocal DEF Progress
<1>3. HeldSeqInv'
  BY <1>0, <1>1, <1>2 DEF HeldSeqInv, Idles, Topic
<1>4. \A t \in Threads : CarriesFresh(t)' => CarriesFresh(t) /\ t # th /\ cur'[t] = cur[t]
  BY <1>1, <1>2 DEF CarriesFresh, Idles
<1>5. Stored(cur[th].msg) \/ cur[th] \in dlq
  BY ZenonT(40), <1>0, <1>1 DEF StoredInv
<1>6. StoredInv'
  <2>1. \A m : (Stored(m)' <=> Stored(m)) /\ \A o : HasCopy(o, m)' <=> HasCopy(o, m)
    BY Zenon, <1>1 DEF Stored, HasCopy
  <2>2. HandledIsDurable'
    BY Zenon, <1>0, <1>1, <1>5, <2>1 DEF StoredInv, HandledIsDurable
  <2>3. \A t \in Threads : (pc[t] = "mention" \/ CarriesFresh(t))' => Stored(cur[t].msg)'
    BY Zenon, <1>0, <1>1, <1>2, <1>4, <2>1 DEF StoredInv, Idles
  <2>4. \A t \in Threads : (pc[t] = "done")' => (Stored(cur[t].msg) \/ cur[t] \in dlq)'
    BY Zenon, <1>0, <1>1, <1>2, <2>1 DEF StoredInv, Idles
  <2> QED
    BY Zenon, <1>0, <2>1, <2>2, <2>3, <2>4 DEF StoredInv, Transactional
<1>7. DeliveryInv'
  <2>1. \A m : Stored(m)' <=> Stored(m)
    BY Zenon, <1>1 DEF Stored, HasCopy
  <2>2. DeliveredAtMostOnce'
    BY Zenon, <1>0, <1>1, <2>1 DEF DeliveryInv, DeliveredAtMostOnce
  <2> QED
    BY Zenon, <1>0, <1>1, <1>4, <2>2 DEF DeliveryInv
<1> QED
  BY <1>3, <1>6, <1>7

\* A record written to the dead-letter topic is durable.
LEMMA SendToDLQStep ==
    ASSUME PipelineInv, NEW th \in Threads, SendToDLQ(th)
    PROVE  HeldSeqInv' /\ StoredInv' /\ DeliveryInv'
<1>0. TypeOK /\ HeldSeqInv /\ StoredInv /\ DeliveryInv
  BY DEF PipelineInv
<1>1. /\ UNCHANGED <<rows, issued, cur, seq, dup, enqueued, done>>
      /\ dlq' = dlq \cup {cur[th]}
      /\ pc[th] = "dlq" /\ pc'[th] = "done"
  BY <1>0 DEF SendToDLQ, Goto, TypeOK, HandlerTypeOK, seqVars, storeVars
<1>2. \A other \in Threads : other # th => Idles(other)
  BY <1>0, ThreadStepLocal DEF Progress
<1>3. HeldSeqInv'
  BY Zenon, <1>0, <1>1, <1>2, AdvanceHeldSeq DEF Advances
<1>4. \A t \in Threads : CarriesFresh(t)' => CarriesFresh(t) /\ t # th
  BY <1>1, <1>2 DEF CarriesFresh, Idles
<1>5. StoredInv'
  BY <1>0, <1>1, <1>2, <1>4
     DEF StoredInv, Idles, HandledIsDurable, Stored, HasCopy, Transactional
<1>6. DeliveryInv'
  BY <1>0, <1>1, <1>4 DEF DeliveryInv, DeliveredAtMostOnce, Stored, HasCopy
<1> QED
  BY <1>3, <1>5, <1>6

-----------------------------------------------------------------------------
(* The invariant is inductive                                              *)

\* Every action outside the save path of HandleMessage is quiet.
LEMMA QuietActions ==
    ASSUME TypeOK, Next,
           \A th \in Threads :
               ~(AllocSeq(th) \/ SaveFresh(th) \/ SaveDuplicate(th) \/ SaveFails(th)
                 \/ SaveMentions(th) \/ BackupSeq(th) \/ UpsertConversations(th)
                 \/ EnqueueDelivery(th) \/ Finish(th) \/ SendToDLQ(th))
    PROVE  Quiet
<1> USE DEF seqVars, kafkaVars, handlerVars, storeVars
<1>1. ASSUME NEW m \in Msgs, Produce(m) PROVE Quiet
  BY <1>1 DEF Produce, Quiet
<1>2. ASSUME NEW w \in Procs, NEW p \in Partitions,
             Rebalance(p, w) \/ Read(w, p) \/ ReadFails(w, p)
      PROVE  Quiet
  BY <1>2 DEF Rebalance, Read, ReadFails, Quiet
<1>3. ASSUME NEW th \in Threads, Progress(th) \/ Failure(th) PROVE Quiet
  <2>1. \A other \in Threads : other # th => Idles(other)
    BY <1>3, ThreadStepLocal
  <2>2. Take(th) \/ CommitPending(th) \/ RetryOrGiveUp(th) \/ InterruptRetry(th)
          \/ WorkerExit(th) \/ AllocSeqFails(th) \/ SendToDLQFails(th)
    BY <1>3 DEF Progress, Failure
  <2>3. UNCHANGED <<rows, issued, done, enqueued>> /\ dlq \subseteq dlq'
    BY ZenonT(40), <2>2 DEF Take, CommitPending, RetryOrGiveUp, InterruptRetry, WorkerExit,
                AllocSeqFails, NextSeqFails, SendToDLQFails
  <2>4. \/ pc'[th] \in {"idle", "exit", "seq", "failed", "dlq"}
        \/ /\ pc'[th] = pc[th] /\ cur'[th] = cur[th]
           /\ seq'[th] = seq[th] /\ dup'[th] = dup[th]
    BY ZenonT(40), <2>2 DEF Take, CommitPending, RetryOrGiveUp, InterruptRetry, WorkerExit,
                AllocSeqFails, SendToDLQFails, Return, Goto, TypeOK, HandlerTypeOK
  <2> QED
    BY Zenon, <2>1, <2>3, <2>4 DEF Quiet, Idles
<1>4. ASSUME NEW w \in Procs, PushWorkerTake(w) \/ StopSignal(w) \/ Restart(w) PROVE Quiet
  BY ZenonT(40), <1>4 DEF PushWorkerTake, StopSignal, Restart, Quiet
<1>5. ASSUME NEW w \in Procs, Halt(w) \/ Crash(w) PROVE Quiet
  BY ZenonT(40), <1>5 DEF Halt, Crash, Vanish, DropRanges, Quiet
<1> QED
  BY <1>1, <1>2, <1>3, <1>4, <1>5 DEF Next

\* Every step of the pipeline keeps PipelineInv.
LEMMA PipelineStep ==
    ASSUME PipelineInv, Next
    PROVE  PipelineInv'
<1>1. TypeOK' /\ SeqInv'
  BY TypeStep DEF PipelineInv
<1>2. TasksInv'
  BY TasksStep DEF PipelineInv
<1>3. HeldSeqInv' /\ StoredInv' /\ DeliveryInv'
  <2>1. ASSUME NEW th \in Threads, AllocSeq(th) PROVE HeldSeqInv' /\ StoredInv' /\ DeliveryInv'
    BY <2>1, AllocSeqStep
  <2>2. ASSUME NEW th \in Threads, SaveFresh(th) \/ SaveDuplicate(th) \/ SaveFails(th)
        PROVE  HeldSeqInv' /\ StoredInv' /\ DeliveryInv'
    BY <2>2, SaveStep
  <2>3. ASSUME NEW th \in Threads, SaveMentions(th) \/ BackupSeq(th) \/ UpsertConversations(th)
        PROVE  HeldSeqInv' /\ StoredInv' /\ DeliveryInv'
    BY <2>3, CarryStep
  <2>4. ASSUME NEW th \in Threads, EnqueueDelivery(th) \/ Finish(th) \/ SendToDLQ(th)
        PROVE  HeldSeqInv' /\ StoredInv' /\ DeliveryInv'
    BY <2>4, EnqueueStep, FinishStep, SendToDLQStep
  <2>5. CASE Quiet
    BY <2>5, QuietStep DEF PipelineInv
  <2> QED
    BY <2>1, <2>2, <2>3, <2>4, <2>5, QuietActions DEF PipelineInv
<1> QED
  BY <1>1, <1>2, <1>3 DEF PipelineInv

\* The invariant only reads the pipeline's variables.
LEMMA PipelineStutter ==
    ASSUME PipelineInv, UNCHANGED vars
    PROVE  PipelineInv'
<1>1. /\ UNCHANGED <<seqVars, kafkaVars, handlerVars, storeVars>>
      /\ UNCHANGED <<status, chan, pending, pool, env>>
      /\ UNCHANGED <<dlq, done, lost, enqueued>>
  BY DEF vars
<1>2. TypeOK' /\ SeqInv'
  BY <1>1, UnchangedTypes DEF PipelineInv, TypeOK, SeqInv, Available, seqVars
<1>3. TasksInv'
  BY Zenon, <1>1, SameTasks DEF PipelineInv, kafkaVars, handlerVars, Active
<1>4. Quiet
  BY Zenon, <1>1 DEF Quiet, handlerVars, storeVars, seqVars
<1> QED
  BY <1>2, <1>3, <1>4, QuietStep DEF PipelineInv

\* The empty pipeline satisfies the invariant.
LEMMA PipelineInit ==
    ASSUME Init PROVE PipelineInv
<1>1. SeqTypeOK /\ SeqInv
  BY DEF Init, SeqInit, SeqTypeOK, SeqInv, EmptyRange, SeqRange, Available
<1>2. KafkaTypeOK /\ ProcTypeOK /\ HistoryTypeOK
  BY DEF Init, KafkaTypeOK, ProcTypeOK, HistoryTypeOK, Env
<1>3. HandlerTypeOK
  BY DEF Init, HandlerTypeOK, Steps
<1>4. StoreTypeOK
  BY DEF Init, StoreTypeOK, Conv
<1>5. \A th \in Threads : pc[th] = "idle" /\ chan[th] = <<>>
  BY DEF Init
<1>6. TasksInv
  BY <1>5 DEF TasksInv, Active
<1>7. \A o, m : ~HasCopy(o, m)
  BY DEF Init, HasCopy
<1>8. HeldSeqInv /\ StoredInv
  BY ZenonT(40), <1>5, <1>7 DEF Init, HeldSeqInv, StoredInv, HandledIsDurable, CarriesFresh
<1>9. DeliveryInv
  BY <1>5 DEF Init, DeliveryInv, DeliveredAtMostOnce, CarriesFresh
<1> QED
  BY <1>1, <1>2, <1>3, <1>4, <1>6, <1>8, <1>9 DEF PipelineInv, TypeOK

\* The invariant behind the pipeline's safety holds in every reachable state,
\* for any number of processes, goroutines, partitions, topics and messages and
\* any number of crashes, rebalances and failed calls.
THEOREM PipelineInvariant == Spec => []PipelineInv
<1>1. Init => PipelineInv
  BY PipelineInit
<1>2. PipelineInv /\ [Next]_vars => PipelineInv'
  BY PipelineStep, PipelineStutter
<1> QED
  BY Zenon, <1>1, <1>2, PTL DEF Spec

\* Every variable of the pipeline keeps its type.
THEOREM TypeCorrect == Spec => []TypeOK
  BY Zenon, PipelineInvariant, PTL DEF PipelineInv

\* A record for which handleMessage returned true is stored for every owner or
\* dead-lettered.
THEOREM HandledDurable == Spec => []HandledIsDurable
<1>1. PipelineInv => HandledIsDurable
  BY Zenon DEF PipelineInv, StoredInv
<1> QED
  BY ZenonT(40), <1>1, PipelineInvariant, PTL

\* No message is submitted for delivery twice, nor before it is stored.
THEOREM DeliveredOnce == Spec => []DeliveredAtMostOnce
<1>1. PipelineInv => DeliveredAtMostOnce
  BY Zenon DEF PipelineInv, DeliveryInv
<1> QED
  BY ZenonT(40), <1>1, PipelineInvariant, PTL

\* SeqGenerator never hands out a topic_seq twice within a topic.
THEOREM SeqUnique == Spec => SeqNeverReused
<1>1. ASSUME PipelineInv, [Next]_vars
      PROVE  [\A th \in Threads : AllocSeq(th) => seq'[th] \notin issued[Topic(th)]]_vars
  <2> SUFFICES ASSUME NEW th \in Threads, AllocSeq(th) PROVE seq'[th] \notin issued[Topic(th)]
    OBVIOUS
  <2>1. TypeOK /\ SeqInv /\ Topic(th) \in Topics /\ th[1] \in Procs
    BY <1>1, ActiveTask DEF PipelineInv, AllocSeq, Active
  <2>2. PICK s : NextSeq(th[1], Topic(th), s) /\ seq' = [seq EXCEPT ![th] = s]
    BY Zenon DEF AllocSeq
  <2>3. seq'[th] = s
    BY <2>1, <2>2 DEF TypeOK, HandlerTypeOK
  <2>4. s \notin issued[Topic(th)]
    BY <2>1, <2>2, NextSeqSafe DEF TypeOK
  <2> QED
    BY <2>3, <2>4
<1> QED
  BY Zenon, <1>1, PipelineInvariant, PTL DEF Spec, SeqNeverReused

-----------------------------------------------------------------------------
(* The pipeline implements MessageService                                  *)

StoredSet == {m \in Msgs : Stored(m)}

\* The empty pipeline maps to the empty service.
LEMMA ServiceInit ==
    ASSUME Init PROVE Service!SvcInit
<1>1. \A p \in Partitions : Len(log[p]) = 0
  BY DEF Init
<1>2. Accepted = {}
  BY <1>1 DEF Accepted
<1>3. \A m \in Msgs : ~Stored(m)
  BY ConstantTypes DEF Init, Stored, HasCopy
<1> QED
  BY <1>2, <1>3 DEF Init, Service!SvcInit

\* A step that logs, stores and submits nothing.
LEMMA ServiceStutter ==
    ASSUME UNCHANGED <<log, rows, enqueued>> PROVE UNCHANGED Service!svcVars
<1>1. Accepted' = Accepted
  BY DEF Accepted
<1>2. \A m \in Msgs : Stored(m)' <=> Stored(m)
  BY DEF Stored, HasCopy
<1> QED
  BY <1>1, <1>2 DEF Service!svcVars

\* Producing a record maps to accepting its message.
LEMMA ServiceAccept ==
    ASSUME TypeOK, NEW m \in Msgs, Produce(m) PROVE Service!Accept(m)
<1> DEFINE q == PartitionOf[TopicOf[m]]
<1>1. q \in Partitions /\ log[q] \in Seq(Msgs) /\ log \in [Partitions -> Seq(Msgs)]
  BY ConstantTypes DEF TypeOK, KafkaTypeOK
<1>2. \A p \in Partitions : log'[p] = IF p = q THEN Append(log[p], m) ELSE log[p]
  BY Zenon, <1>1 DEF Produce
<1>3. Accepted' = Accepted \cup {m}
  <2> DEFINE Of(s) == {s[i] : i \in 1 .. Len(s)}
  <2>1. Of(Append(log[q], m)) = Of(log[q]) \cup {m}
    <3>1. /\ Len(Append(log[q], m)) = Len(log[q]) + 1
          /\ Append(log[q], m)[Len(log[q]) + 1] = m
          /\ \A i \in 1 .. Len(log[q]) : Append(log[q], m)[i] = log[q][i]
          /\ Len(log[q]) \in Nat
      BY <1>1
    <3> QED
      BY <3>1
  <2>2. Accepted = UNION {Of(log[p]) : p \in Partitions}
    BY DEF Accepted
  <2>3. Accepted' = UNION {Of(log'[p]) : p \in Partitions}
    BY DEF Accepted
  <2> HIDE DEF Of
  <2>4. Of(log'[q]) = Of(log[q]) \cup {m}
    BY Zenon, <1>1, <1>2, <2>1
  <2>5. ASSUME NEW p \in Partitions, p # q PROVE Of(log'[p]) = Of(log[p])
    BY <1>2, <2>5
  <2> QED
    BY ZenonT(40), <1>1, <2>2, <2>3, <2>4, <2>5
<1>4. \A n \in Msgs : Stored(n)' <=> Stored(n)
  BY Zenon DEF Produce, storeVars, Stored, HasCopy
<1> QED
  BY <1>3, <1>4 DEF Service!Accept, Produce

\* An insert stores its message or leaves what is stored alone.
LEMMA ServiceStore ==
    ASSUME PipelineInv, NEW th \in Threads, Inserts(th), UNCHANGED log
    PROVE  Service!Store(cur[th].msg) \/ UNCHANGED Service!svcVars
<1> DEFINE m == cur[th].msg
<1>1. cur[th] \in Records /\ m \in Msgs
  BY ActiveTask DEF PipelineInv, TasksInv, Inserts, Active
<1>2. m \in Accepted
  BY <1>1 DEF Records, Accepted, TaskAt
<1>3. Accepted' = Accepted /\ enqueued' = enqueued
  BY DEF Accepted, Inserts
<1>4. \A n \in Msgs : /\ Stored(n) => Stored(n)'
                      /\ n # m => (Stored(n)' <=> Stored(n))
  BY InsertCopies
<1>5. CASE StoredSet' = StoredSet
  BY <1>3, <1>5 DEF Service!svcVars, StoredSet
<1>6. CASE StoredSet' # StoredSet
  <2>1. m \notin StoredSet /\ StoredSet' = StoredSet \cup {m}
    BY <1>1, <1>4, <1>6 DEF StoredSet
  <2> QED
    BY <1>2, <1>3, <2>1 DEF Service!Store, StoredSet
<1> QED
  BY <1>5, <1>6

\* Submitting to the push pool maps to handing the message over, once.
LEMMA ServiceHandOver ==
    ASSUME PipelineInv, NEW th \in Threads, EnqueueDelivery(th)
    PROVE  Service!HandOver(cur[th].msg)
<1>1. /\ cur[th].msg \in Msgs /\ Stored(cur[th].msg) /\ enqueued[cur[th].msg] = 0
  BY ZenonT(40), ActiveTask DEF PipelineInv, EnqueueDelivery, Active, CarriesFresh,
     StoredInv, DeliveryInv
<1>2. UNCHANGED <<log, rows>>
  BY DEF EnqueueDelivery, kafkaVars, storeVars
<1>3. Accepted' = Accepted
  BY <1>2 DEF Accepted
<1>4. \A n \in Msgs : Stored(n)' <=> Stored(n)
  BY <1>2 DEF Stored, HasCopy
<1>5. enqueued' = [enqueued EXCEPT ![cur[th].msg] = 1]
  BY <1>1 DEF EnqueueDelivery, PipelineInv, TypeOK, HistoryTypeOK
<1> QED
  BY <1>1, <1>3, <1>4, <1>5 DEF Service!HandOver

\* Every pipeline step maps to a service step or to a stutter.
LEMMA ServiceStep ==
    ASSUME PipelineInv, Next
    PROVE  Service!SvcNext \/ UNCHANGED Service!svcVars
<1> USE DEF seqVars, kafkaVars, handlerVars, storeVars
<1>1. ASSUME NEW m \in Msgs, Produce(m) PROVE Service!SvcNext
  BY <1>1, ServiceAccept DEF Service!SvcNext, PipelineInv
<1>2. ASSUME NEW w \in Procs, NEW p \in Partitions,
             Rebalance(p, w) \/ Read(w, p) \/ ReadFails(w, p)
      PROVE  UNCHANGED Service!svcVars
  BY <1>2, ServiceStutter DEF Rebalance, Read, ReadFails
<1>3. ASSUME NEW th \in Threads, SaveFresh(th) \/ SaveDuplicate(th) \/ SaveFails(th)
      PROVE  Service!SvcNext \/ UNCHANGED Service!svcVars
  <2>1. Inserts(th) /\ UNCHANGED log
    BY ZenonT(40), <1>3 DEF SaveFresh, SaveDuplicate, SaveFails, Inserts, FreshDocs
  <2>2. cur[th].msg \in Msgs
    BY Zenon, <2>1, ActiveTask DEF PipelineInv, Inserts, Active
  <2> QED
    BY <2>1, <2>2, ServiceStore DEF Service!SvcNext
<1>4. ASSUME NEW th \in Threads, EnqueueDelivery(th) PROVE Service!SvcNext
  <2>1. cur[th].msg \in Msgs
    BY Zenon, <1>4, ActiveTask DEF PipelineInv, EnqueueDelivery, Active
  <2> QED
    BY <1>4, <2>1, ServiceHandOver DEF Service!SvcNext
<1>5. ASSUME NEW th \in Threads, Progress(th) \/ Failure(th), ~EnqueueDelivery(th),
             ~(SaveFresh(th) \/ SaveDuplicate(th) \/ SaveFails(th))
      PROVE  UNCHANGED Service!svcVars
  <2>1. UNCHANGED <<log, rows, enqueued>>
    BY ZenonT(40), <1>5 DEF Progress, Failure, Take, CommitPending, AllocSeq,
       AllocSeqFails, SaveMentions,
         BackupSeq, UpsertConversations, Finish, RetryOrGiveUp, SendToDLQ, SendToDLQFails,
         InterruptRetry, WorkerExit
  <2> QED
    BY <2>1, ServiceStutter
<1>6. ASSUME NEW w \in Procs,
             PushWorkerTake(w) \/ StopSignal(w) \/ Halt(w) \/ Crash(w) \/ Restart(w)
      PROVE  UNCHANGED Service!svcVars
  BY Zenon, <1>6, ServiceStutter DEF PushWorkerTake, StopSignal, Halt, Crash, Restart, Vanish
<1> QED
  BY <1>1, <1>2, <1>3, <1>4, <1>5, <1>6 DEF Next

\* The pipeline, with its processes, retries and crashes, implements the service
\* that stores an accepted message at most once and hands it over at most once.
THEOREM PipelineImplementsService == Spec => ImplementsService
<1>1. Init => Service!SvcInit
  BY ServiceInit
<1>2. PipelineInv /\ [Next]_vars => [Service!SvcNext]_(Service!svcVars)
  <2>1. ASSUME UNCHANGED vars PROVE UNCHANGED Service!svcVars
    BY <2>1, ServiceStutter DEF vars, kafkaVars, storeVars
  <2> QED
    BY <2>1, ServiceStep
<1> QED
  BY Zenon, <1>1, <1>2, PipelineInvariant, PTL DEF Spec, ImplementsService, Service!SvcSpec
=============================================================================
