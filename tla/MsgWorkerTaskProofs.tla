------------------------ MODULE MsgWorkerTaskProofs -------------------------
(***************************************************************************)
(* Type correctness of MsgWorker, second part: dead letters, shutdown and  *)
(* crashes; every action preserves TypeOK, and what the goroutines hold    *)
(* stays a record of the log.                                              *)
(***************************************************************************)
EXTENDS MsgWorkerTypeProofs

\* Retrying and dead-lettering keep every type.
LEMMA DLQStepTypes ==
    ASSUME TypeOK, TasksInv, NEW th \in Threads,
           SendToDLQ(th) \/ SendToDLQFails(th) \/ InterruptRetry(th)
    PROVE  TypeOK'
<1>0. cur[th] \in Task /\ th[1] \in Procs
  BY ZenonT(40), ActiveTask DEF SendToDLQ, SendToDLQFails, InterruptRetry, Active
<1>1. CASE SendToDLQ(th)
  <2>1. HandlerTypeOK'
    BY <1>1 DEF SendToDLQ, Goto, TypeOK, HandlerTypeOK, Steps
  <2>2. HistoryTypeOK'
    BY ZenonT(40), <1>0, <1>1 DEF SendToDLQ, TypeOK, HistoryTypeOK
  <2> QED
    BY Zenon, <1>1, <2>1, <2>2, UnchangedTypes DEF SendToDLQ, TypeOK
<1>2. CASE SendToDLQFails(th)
  <2>1. HandlerTypeOK'
    BY <1>2 DEF SendToDLQFails, Return, Goto, TypeOK, HandlerTypeOK, Steps
  <2>2. HistoryTypeOK'
    BY Zenon, <1>0, <1>2 DEF SendToDLQFails, TypeOK, HistoryTypeOK
  <2>3. ProcTypeOK'
    BY Zenon, <1>0, <1>2, FaultType DEF SendToDLQFails, TypeOK, ProcTypeOK
  <2> QED
    BY Zenon, <1>2, <2>1, <2>2, <2>3, UnchangedTypes DEF SendToDLQFails, TypeOK
<1>3. CASE InterruptRetry(th)
  <2>1. HandlerTypeOK'
    BY <1>3 DEF InterruptRetry, Return, Goto, TypeOK, HandlerTypeOK, Steps
  <2>2. HistoryTypeOK'
    BY <1>0, <1>3 DEF InterruptRetry, TypeOK, HistoryTypeOK
  <2> QED
    BY Zenon, <1>3, <2>1, <2>2, UnchangedTypes DEF InterruptRetry, TypeOK
<1> QED
  BY <1>1, <1>2, <1>3

\* The tasks a goroutine holds are tasks.
LEMMA HeldType ==
    ASSUME TypeOK, TasksInv, NEW th \in Threads PROVE Held(th) \subseteq Task
<1>1. \A i \in DOMAIN chan[th] : chan[th][i] \in Task
  BY DEF TypeOK, ProcTypeOK
<1>2. Active(th) => cur[th] \in Task
  BY ActiveTask
<1> QED
  BY <1>1, <1>2 DEF Held, Active

\* The end of a process keeps every type.
LEMMA VanishTypes ==
    ASSUME TypeOK, SeqInv, TasksInv, NEW w \in Procs, Vanish(w), env' \in Env
    PROVE  TypeOK' /\ SeqInv'
<1>1. SeqTypeOK' /\ SeqInv'
  BY DropRangesSafe DEF Vanish, TypeOK
<1>2. KafkaTypeOK'
  BY DEF Vanish, TypeOK, KafkaTypeOK
<1>3. ProcTypeOK'
  BY DEF Vanish, TypeOK, ProcTypeOK
<1>4. HandlerTypeOK'
  BY ZenonT(40) DEF Vanish, TypeOK, HandlerTypeOK, Steps
<1>5. StoreTypeOK'
  BY UnchangedTypes DEF Vanish, TypeOK
<1>6. \A th \in {w} \X Goroutines : Held(th) \subseteq Task
  BY HeldType DEF Threads
<1>7. HistoryTypeOK'
  BY <1>6 DEF Vanish, TypeOK, HistoryTypeOK
<1> QED
  BY <1>1, <1>2, <1>3, <1>4, <1>5, <1>7 DEF TypeOK

\* Push workers, stop, halt, crash and restart keep every type.
LEMMA ProcessStepTypes ==
    ASSUME TypeOK, SeqInv, TasksInv, NEW w \in Procs,
           PushWorkerTake(w) \/ StopSignal(w) \/ Halt(w) \/ Crash(w) \/ Restart(w)
    PROVE  TypeOK' /\ SeqInv'
<1>1. CASE PushWorkerTake(w)
  <2>1. Tail(pool[w]) \in Seq(Attempt)
    BY <1>1 DEF PushWorkerTake, TypeOK, ProcTypeOK
  <2>2. ProcTypeOK'
    BY <1>1, <2>1 DEF PushWorkerTake, TypeOK, ProcTypeOK
  <2> QED
    BY Zenon, <1>1, <2>2, UnchangedTypes DEF PushWorkerTake, TypeOK, SeqInv, Available, seqVars
<1>2. CASE StopSignal(w)
  <2>1. ProcTypeOK'
    BY <1>2 DEF StopSignal, TypeOK, ProcTypeOK, Env
  <2> QED
    BY <1>2, <2>1, UnchangedTypes DEF StopSignal, TypeOK, SeqInv, Available, seqVars
<1>3. CASE Halt(w)
  BY Zenon, <1>3, VanishTypes DEF Halt, TypeOK, ProcTypeOK
<1>4. CASE Crash(w)
  <2>1. env' \in Env
    BY <1>4 DEF Crash, TypeOK, ProcTypeOK, Env
  <2> QED
    BY Zenon, <1>4, <2>1, VanishTypes DEF Crash
<1>5. CASE Restart(w)
  <2>1. ProcTypeOK'
    BY <1>5 DEF Restart, TypeOK, ProcTypeOK
  <2> QED
    BY Zenon, <1>5, <2>1, UnchangedTypes DEF Restart, TypeOK, SeqInv, Available, seqVars
<1> QED
  BY <1>1, <1>2, <1>3, <1>4, <1>5

\* The last commit of workerLoop keeps every type.
LEMMA WorkerExitTypes ==
    ASSUME TypeOK, TasksInv, NEW th \in Threads, WorkerExit(th)
    PROVE  TypeOK'
<1>1. pending[th] \in Seq(Task) /\ Held(th) \subseteq Task
  BY HeldType DEF TypeOK, ProcTypeOK
<1>2. CommittedWith(pending[th]) \in [Partitions -> Nat]
  BY <1>1, CommittedType DEF TypeOK
<1>3. KafkaTypeOK'
  BY <1>2 DEF WorkerExit, TypeOK, KafkaTypeOK
<1>4. ProcTypeOK'
  BY DEF WorkerExit, TypeOK, ProcTypeOK
<1>5. HandlerTypeOK'
  BY DEF WorkerExit, Goto, TypeOK, HandlerTypeOK, Steps
<1>6. HistoryTypeOK'
  BY Zenon, <1>1 DEF WorkerExit, TypeOK, HistoryTypeOK
<1> QED
  BY Zenon, <1>3, <1>4, <1>5, <1>6, UnchangedTypes DEF WorkerExit, TypeOK

\* Every step keeps the types and the allocator's invariant.
LEMMA TypeStep ==
    ASSUME TypeOK, SeqInv, TasksInv, Next
    PROVE  TypeOK' /\ SeqInv'
<1>0. UNCHANGED seqVars => SeqInv'
  BY ZenonT(40) DEF SeqInv, Available, seqVars
<1>1. ASSUME NEW m \in Msgs, Produce(m) PROVE TypeOK' /\ SeqInv'
  <2>1. KafkaTypeOK'
    <3> DEFINE q == PartitionOf[TopicOf[m]]
    <3>1. q \in Partitions /\ Append(log[q], m) \in Seq(Msgs)
      <4>1. q \in Partitions
        BY ConstantTypes
      <4>2. log[q] \in Seq(Msgs)
        BY Zenon, <4>1 DEF TypeOK, KafkaTypeOK
      <4> QED
        BY <4>1, <4>2, AppendType
    <3> QED
      BY ZenonT(40), <1>1, <3>1 DEF Produce, TypeOK, KafkaTypeOK
  <2> QED
    BY ZenonT(40), <1>0, <1>1, <2>1, UnchangedTypes DEF Produce, TypeOK
<1>2. ASSUME NEW w \in Procs, NEW p \in Partitions,
             Rebalance(p, w) \/ Read(w, p) \/ ReadFails(w, p)
      PROVE  TypeOK' /\ SeqInv'
  BY <1>0, <1>2, KafkaStepTypes DEF Rebalance, Read, ReadFails
<1>3. ASSUME NEW th \in Threads, Progress(th) PROVE TypeOK' /\ SeqInv'
  <2>1. CASE AllocSeq(th)
    BY <2>1, SeqStepTypes
  <2>2. CASE Take(th) \/ CommitPending(th) \/ Finish(th) \/ RetryOrGiveUp(th)
    BY ZenonT(40), <1>0, <2>2, LoopStepTypes DEF Take, CommitPending, Finish, RetryOrGiveUp
  <2>3. CASE SaveFresh(th) \/ SaveDuplicate(th) \/ SaveMentions(th)
    BY ZenonT(40), <1>0, <2>3, SaveStepTypes DEF SaveFresh, SaveDuplicate, SaveMentions
  <2>4. CASE BackupSeq(th) \/ UpsertConversations(th) \/ EnqueueDelivery(th)
    BY ZenonT(40), <1>0, <2>4, AfterSaveStepTypes
       DEF BackupSeq, UpsertConversations, EnqueueDelivery
  <2>5. CASE SendToDLQ(th) \/ InterruptRetry(th)
    BY ZenonT(40), <1>0, <2>5, DLQStepTypes DEF SendToDLQ, InterruptRetry
  <2>6. CASE WorkerExit(th)
    BY Zenon, <1>0, <2>6, WorkerExitTypes DEF WorkerExit
  <2> QED
    BY <1>3, <2>1, <2>2, <2>3, <2>4, <2>5, <2>6 DEF Progress
<1>4. ASSUME NEW th \in Threads, Failure(th) PROVE TypeOK' /\ SeqInv'
  <2>1. CASE AllocSeqFails(th)
    BY <2>1, SeqStepTypes
  <2>2. CASE SaveFails(th)
    BY ZenonT(40), <1>0, <2>2, SaveStepTypes DEF SaveFails
  <2>3. CASE SendToDLQFails(th)
    BY Zenon, <1>0, <2>3, DLQStepTypes DEF SendToDLQFails
  <2> QED
    BY <1>4, <2>1, <2>2, <2>3 DEF Failure
<1>5. ASSUME NEW w \in Procs,
             PushWorkerTake(w) \/ StopSignal(w) \/ Halt(w) \/ Crash(w) \/ Restart(w)
      PROVE  TypeOK' /\ SeqInv'
  BY <1>5, ProcessStepTypes
<1> QED
  BY <1>1, <1>2, <1>3, <1>4, <1>5 DEF Next

-----------------------------------------------------------------------------
(* What is handled is a record of the log                                  *)

\* The log only grows at its end.
LEMMA RecordsGrow ==
    ASSUME TypeOK, UNCHANGED log \/ \E m \in Msgs : Produce(m)
    PROVE  Records \subseteq Records'
<1>1. CASE UNCHANGED log
  BY <1>1 DEF Records, TaskAt
<1>2. ASSUME NEW m \in Msgs, Produce(m) PROVE Records \subseteq Records'
  <2> SUFFICES ASSUME NEW p \in Partitions, NEW i \in 1 .. Len(log[p])
               PROVE  i \in 1 .. Len(log'[p]) /\ log'[p][i] = log[p][i]
    BY DEF Records, TaskAt
  <2> DEFINE q == PartitionOf[TopicOf[m]]
  <2>1. log[p] \in Seq(Msgs) /\ log' = [log EXCEPT ![q] = Append(@, m)]
    BY ZenonT(40), <1>2 DEF Produce, TypeOK, KafkaTypeOK
  <2>2. log'[p] = IF p = q THEN Append(log[p], m) ELSE log[p]
    BY <2>1 DEF TypeOK, KafkaTypeOK
  <2> QED
    BY <2>1, <2>2
<1> QED
  BY <1>1, <1>2

\* A step that takes up no new task keeps the invariant.
LEMMA SameTasks ==
    ASSUME TypeOK, TasksInv, UNCHANGED log \/ \E m \in Msgs : Produce(m),
           \A th \in Threads :
               /\ Active(th)' => Active(th) /\ cur'[th] = cur[th]
               /\ chan'[th] = chan[th] \/ chan'[th] = <<>>
    PROVE  TasksInv'
<1>1. Records \subseteq Records'
  BY RecordsGrow
<1> SUFFICES ASSUME NEW th \in Threads
             PROVE  /\ Active(th)' => cur'[th] \in Records'
                    /\ \A i \in 1 .. Len(chan'[th]) : chan'[th][i] \in Records'
  BY DEF TasksInv
<1>2. Active(th)' => cur'[th] \in Records'
  BY <1>1 DEF TasksInv
<1>3. \A i \in 1 .. Len(chan'[th]) : chan'[th][i] \in Records'
  BY <1>1 DEF TasksInv
<1> QED
  BY <1>2, <1>3

-----------------------------------------------------------------------------
(* A step of one goroutine leaves the handler state of the others alone    *)

\* The handler state and the channel of goroutine th are what they were.
Idles(th) ==
    /\ pc'[th] = pc[th] /\ cur'[th] = cur[th] /\ seq'[th] = seq[th]
    /\ dup'[th] = dup[th] /\ chan'[th] = chan[th]

\* A handler step touches its own goroutine only.
LEMMA ThreadStepLocal ==
    ASSUME TypeOK, NEW th \in Threads, Progress(th) \/ Failure(th),
           NEW other \in Threads, other # th
    PROVE  Idles(other)
<1> USE DEF Idles, handlerVars, TypeOK, HandlerTypeOK, ProcTypeOK, Goto, Return
<1>1. CASE Take(th)
  BY <1>1 DEF Take
<1>2. CASE CommitPending(th)
  BY <1>2 DEF CommitPending
<1>3. CASE AllocSeq(th)
  BY Zenon, <1>3 DEF AllocSeq
<1>4. CASE SaveFresh(th)
  BY <1>4 DEF SaveFresh
<1>5. CASE SaveDuplicate(th)
  BY <1>5 DEF SaveDuplicate
<1>6. CASE SaveMentions(th)
  BY <1>6 DEF SaveMentions
<1>7. CASE BackupSeq(th)
  BY <1>7 DEF BackupSeq
<1>8. CASE UpsertConversations(th)
  BY Zenon, <1>8 DEF UpsertConversations
<1>9. CASE EnqueueDelivery(th)
  BY <1>9 DEF EnqueueDelivery
<1>10. CASE Finish(th)
  BY <1>10 DEF Finish
<1>11. CASE RetryOrGiveUp(th)
  BY <1>11 DEF RetryOrGiveUp
<1>12. CASE SendToDLQ(th)
  BY <1>12 DEF SendToDLQ
<1>13. CASE InterruptRetry(th)
  BY <1>13 DEF InterruptRetry
<1>14. CASE WorkerExit(th)
  BY <1>14 DEF WorkerExit
<1>15. CASE AllocSeqFails(th)
  BY <1>15 DEF AllocSeqFails
<1>16. CASE SaveFails(th)
  BY <1>16 DEF SaveFails
<1>17. CASE SendToDLQFails(th)
  BY <1>17 DEF SendToDLQFails
<1> QED
  BY ZenonT(40), <1>1, <1>2, <1>3, <1>4, <1>5, <1>6, <1>7, <1>8, <1>9, <1>10, <1>11,
     <1>12, <1>13, <1>14, <1>15, <1>16, <1>17 DEF Progress, Failure

\* Every step keeps the tasks in flight records of the log.
LEMMA TasksStep ==
    ASSUME TypeOK, TasksInv, Next
    PROVE  TasksInv'
<1> USE DEF kafkaVars, handlerVars
<1>1. ASSUME NEW m \in Msgs, Produce(m) PROVE TasksInv'
  BY ZenonT(40), <1>1, SameTasks DEF Produce, Active
<1>2. ASSUME NEW w \in Procs, NEW p \in Partitions, Rebalance(p, w) \/ ReadFails(w, p)
      PROVE  TasksInv'
  BY <1>2, SameTasks DEF Rebalance, ReadFails, Active
<1>3. ASSUME NEW w \in Procs, NEW p \in Partitions, Read(w, p) PROVE TasksInv'
  <2> DEFINE g == <<w, WorkerOf(p)>>
  <2>1. TaskAt(p, pos[p] + 1) \in Records /\ Records' = Records
    <3>1. pos[p] \in Nat /\ log[p] \in Seq(Msgs) /\ pos[p] < Len(log[p]) /\ log' = log
      BY <1>3 DEF Read, CanRead, TypeOK, KafkaTypeOK
    <3>2. pos[p] + 1 \in 1 .. Len(log[p])
      BY <3>1
    <3>3. TaskAt(p, pos[p] + 1) \in Records
      BY <3>2 DEF Records
    <3>4. Records' = Records
      BY <3>1 DEF Records, TaskAt
    <3> QED
      BY <3>3, <3>4
  <2>2. \A th \in Threads : Active(th)' = Active(th) /\ cur'[th] = cur[th]
    BY Zenon, <1>3 DEF Read, Active
  <2>3. \A th \in Threads : chan'[th] = IF th = g THEN Append(chan[th], TaskAt(p, pos[p] + 1))
                                       ELSE chan[th]
    BY ZenonT(40), <1>3 DEF Read, TypeOK, ProcTypeOK
  <2>4. \A th \in Threads : chan[th] \in Seq(Task)
    BY DEF TypeOK, ProcTypeOK
  <2>5. ASSUME NEW th \in Threads, NEW i \in 1 .. Len(chan'[th])
        PROVE  chan'[th][i] \in Records
    <3>1. CASE th # g
      BY <2>3, <3>1 DEF TasksInv
    <3>2. CASE th = g
      <4>1. chan'[th] = Append(chan[th], TaskAt(p, pos[p] + 1))
        BY Zenon, <2>3, <3>2
      <4>2. i \in 1 .. Len(chan[th]) => chan[th][i] \in Records
        BY DEF TasksInv
      <4> QED
        BY <2>1, <2>4, <4>1, <4>2
    <3> QED
      BY <3>1, <3>2
  <2> QED
    BY Zenon, <2>1, <2>2, <2>5 DEF TasksInv
<1>4. ASSUME NEW th \in Threads, Take(th) PROVE TasksInv'
  <2>1. Records' = Records
    BY <1>4 DEF Take, Records, TaskAt
  <2>2. \A t \in Threads : t # th => /\ Active(t)' = Active(t) /\ cur'[t] = cur[t]
                                    /\ chan'[t] = chan[t]
    BY <1>4 DEF Take, Active, TypeOK, ProcTypeOK, HandlerTypeOK
  <2>3. /\ cur'[th] = chan[th][1] /\ chan'[th] = Tail(chan[th])
        /\ chan[th] \in Seq(Task) /\ Len(chan[th]) > 0
    BY <1>4 DEF Take, TypeOK, ProcTypeOK, HandlerTypeOK
  <2>4. \A i \in 1 .. Len(Tail(chan[th])) : Tail(chan[th])[i] = chan[th][i + 1]
                                           /\ i + 1 \in 1 .. Len(chan[th])
    BY <2>3
  <2>5. \A i \in 1 .. Len(chan[th]) : chan[th][i] \in Records
    BY DEF TasksInv
  <2>6. cur'[th] \in Records /\ \A i \in 1 .. Len(chan'[th]) : chan'[th][i] \in Records
    BY <2>3, <2>4, <2>5
  <2>7. \A t \in Threads : t # th =>
           /\ Active(t)' => cur'[t] \in Records
           /\ \A i \in 1 .. Len(chan'[t]) : chan'[t][i] \in Records
    BY <2>2 DEF TasksInv
  <2> QED
    BY <2>1, <2>6, <2>7 DEF TasksInv
<1>5. ASSUME NEW th \in Threads, Progress(th) \/ Failure(th), ~Take(th) PROVE TasksInv'
  <2>1. UNCHANGED log
    BY ZenonT(40), <1>5 DEF Progress, Failure, CommitPending, AllocSeq, SaveFresh,
       SaveDuplicate,
         SaveMentions, BackupSeq, UpsertConversations, EnqueueDelivery, Finish,
         RetryOrGiveUp, SendToDLQ, InterruptRetry, WorkerExit, AllocSeqFails, SaveFails,
         SendToDLQFails
  <2>2. Active(th)' => Active(th) /\ cur'[th] = cur[th]
    <3> USE DEF Active, Goto, Return, TypeOK, HandlerTypeOK
    <3>1. CASE Finish(th) \/ SendToDLQFails(th) \/ InterruptRetry(th) \/ WorkerExit(th)
      BY ZenonT(40), <3>1 DEF Finish, SendToDLQFails, InterruptRetry, WorkerExit
    <3>2. CASE CommitPending(th) \/ AllocSeq(th) \/ AllocSeqFails(th) \/ RetryOrGiveUp(th)
                 \/ SendToDLQ(th)
      BY ZenonT(40), <3>2 DEF CommitPending, AllocSeq, AllocSeqFails, RetryOrGiveUp, SendToDLQ
    <3>3. CASE SaveFresh(th) \/ SaveDuplicate(th) \/ SaveFails(th) \/ SaveMentions(th)
      BY ZenonT(40), <3>3 DEF SaveFresh, SaveDuplicate, SaveFails, SaveMentions
    <3>4. CASE BackupSeq(th) \/ UpsertConversations(th) \/ EnqueueDelivery(th)
      BY <3>4 DEF BackupSeq, UpsertConversations, EnqueueDelivery
    <3> QED
      BY ZenonT(40), <1>5, <3>1, <3>2, <3>3, <3>4 DEF Progress, Failure
  <2>3. chan'[th] = chan[th] \/ chan'[th] = <<>>
    BY Zenon, <1>5 DEF Progress, Failure, CommitPending, AllocSeq, SaveFresh, SaveDuplicate,
         SaveMentions, BackupSeq, UpsertConversations, EnqueueDelivery, Finish,
         RetryOrGiveUp, SendToDLQ, InterruptRetry, WorkerExit, AllocSeqFails, SaveFails,
         SendToDLQFails, TypeOK, ProcTypeOK
  <2>4. \A other \in Threads : other # th =>
           (Active(other)' <=> Active(other)) /\ cur'[other] = cur[other]
                                              /\ chan'[other] = chan[other]
    BY ZenonT(40), <1>5, ThreadStepLocal DEF Idles, Active
  <2> QED
    BY <2>1, <2>2, <2>3, <2>4, SameTasks
<1>6. ASSUME NEW w \in Procs, PushWorkerTake(w) \/ StopSignal(w) \/ Restart(w) PROVE TasksInv'
  BY Zenon, <1>6, SameTasks DEF PushWorkerTake, StopSignal, Restart, Active
<1>7. ASSUME NEW w \in Procs, Halt(w) \/ Crash(w) PROVE TasksInv'
  BY ZenonT(40), <1>7, SameTasks DEF Halt, Crash, Vanish, Active
<1> QED
  BY <1>1, <1>2, <1>3, <1>4, <1>5, <1>6, <1>7 DEF Next
=============================================================================
