------------------------ MODULE MsgWorkerTypeProofs -------------------------
(***************************************************************************)
(* Type correctness of MsgWorker, first part: what the read loop, the      *)
(* sequence numbers, the saves and the steps after them do to TypeOK.      *)
(***************************************************************************)
EXTENDS MsgWorker, SeqGeneratorProofs

\* The configuration functions of a message have their types.
LEMMA ConstantTypes ==
    ASSUME NEW m \in Msgs
    PROVE  /\ TopicOf[m] \in Topics
           /\ PartitionOf[TopicOf[m]] \in Partitions
           /\ OwnersOf[m] \subseteq Accounts
           /\ OwnersOf[m] # {}
           /\ MentionsOf[m] \subseteq Accounts
           /\ MembersOf[m] \subseteq Accounts
  BY PipelineAssumption

\* Queues and logs grow by elements of their own type.
LEMMA AppendType ==
    ASSUME NEW S, NEW s \in Seq(S), NEW e \in S
    PROVE  Append(s, e) \in Seq(S)
  OBVIOUS

\* A record of the log is a well-typed task.
LEMMA RecordsAreTasks ==
    ASSUME TypeOK PROVE Records \subseteq Task
<1>1. \A p \in Partitions : \A i \in 1 .. Len(log[p]) : log[p][i] \in Msgs
  BY DEF TypeOK, KafkaTypeOK
<1> QED
  BY <1>1 DEF Records, TaskAt, Task

\* The message a running handler works on is well typed.
LEMMA ActiveTask ==
    ASSUME TypeOK, TasksInv, NEW th \in Threads, Active(th)
    PROVE  /\ cur[th] \in Task
           /\ cur[th].msg \in Msgs
           /\ cur[th].part \in Partitions
           /\ Topic(th) \in Topics
           /\ th[1] \in Procs
<1>1. cur[th] \in Task
  BY RecordsAreTasks DEF TasksInv
<1> QED
  BY <1>1, ConstantTypes DEF Task, Topic, Threads

\* A group of variables a step leaves alone keeps its type.
LEMMA UnchangedTypes ==
    /\ SeqTypeOK /\ UNCHANGED seqVars => SeqTypeOK'
    /\ KafkaTypeOK /\ UNCHANGED kafkaVars => KafkaTypeOK'
    /\ HandlerTypeOK /\ UNCHANGED handlerVars => HandlerTypeOK'
    /\ StoreTypeOK /\ UNCHANGED storeVars => StoreTypeOK'
    /\ ProcTypeOK /\ UNCHANGED <<status, chan, pending, pool, env>> => ProcTypeOK'
    /\ HistoryTypeOK /\ UNCHANGED <<dlq, done, lost, enqueued>> => HistoryTypeOK'
  BY DEF SeqTypeOK, KafkaTypeOK, HandlerTypeOK, StoreTypeOK, ProcTypeOK, HistoryTypeOK,
         seqVars, kafkaVars, handlerVars, storeVars

\* Counting an injected fault keeps the environment typed.
LEMMA FaultType ==
    ASSUME ProcTypeOK, NEW w \in Procs, Fault(w) PROVE env' \in Env
  BY DEF ProcTypeOK, Fault, Env

\* Producing, rebalancing and reading keep every type.
LEMMA KafkaStepTypes ==
    ASSUME TypeOK, NEW w \in Procs, NEW p \in Partitions,
           Rebalance(p, w) \/ Read(w, p) \/ ReadFails(w, p)
    PROVE  TypeOK'
<1>1. CASE Rebalance(p, w)
  <2>1. KafkaTypeOK'
    BY <1>1 DEF Rebalance, TypeOK, KafkaTypeOK
  <2>2. ProcTypeOK'
    BY <1>1 DEF Rebalance, TypeOK, ProcTypeOK, Env
  <2> QED
    BY <1>1, <2>1, <2>2, UnchangedTypes DEF Rebalance, TypeOK
<1>2. CASE Read(w, p)
  <2>1. TaskAt(p, pos[p] + 1) \in Task
    BY <1>2 DEF Read, CanRead, TaskAt, Task, TypeOK, KafkaTypeOK
  <2>2. KafkaTypeOK'
    BY <1>2 DEF Read, TypeOK, KafkaTypeOK
  <2>4. WorkerOf(p) \in Goroutines
    BY PipelineAssumption DEF WorkerOf, Goroutines
  <2>5. Append(chan[<<w, WorkerOf(p)>>], TaskAt(p, pos[p] + 1)) \in Seq(Task)
    BY <2>1, <2>4 DEF TypeOK, ProcTypeOK, Threads
  <2>3. ProcTypeOK'
    BY Zenon, <1>2, <2>5 DEF Read, TypeOK, ProcTypeOK
  <2> QED
    BY <1>2, <2>2, <2>3, UnchangedTypes DEF Read, TypeOK
<1>3. CASE ReadFails(w, p)
  <2>1. TaskAt(p, pos[p] + 1) \in Task
    BY <1>3 DEF ReadFails, CanRead, TaskAt, Task, TypeOK, KafkaTypeOK
  <2>2. KafkaTypeOK'
    BY <1>3 DEF ReadFails, TypeOK, KafkaTypeOK
  <2>3. ProcTypeOK'
    BY <1>3, FaultType DEF ReadFails, TypeOK, ProcTypeOK
  <2>4. HistoryTypeOK'
    BY <1>3, <2>1 DEF ReadFails, TypeOK, HistoryTypeOK
  <2> QED
    BY <1>3, <2>2, <2>3, <2>4, UnchangedTypes DEF ReadFails, TypeOK
<1> QED
  BY <1>1, <1>2, <1>3

\* CommitMessages stores natural offsets.
LEMMA CommittedType ==
    ASSUME KafkaTypeOK, NEW s \in Seq(Task) PROVE CommittedWith(s) \in [Partitions -> Nat]
<1>0. \A i \in DOMAIN s : s[i] \in Task
  OBVIOUS
<1>1. ASSUME NEW p \in Partitions PROVE Offsets(s, p) \subseteq Nat
  BY <1>0 DEF Offsets, Task
<1>2. ASSUME NEW p \in Partitions PROVE HighestOffset(s, p, committed[p]) \in Nat
  BY <1>1 DEF HighestOffset, KafkaTypeOK
<1> QED
  BY <1>2 DEF CommittedWith

\* The documents of a save are rows.
LEMMA DocsType ==
    ASSUME NEW m \in Msgs, NEW s \in Nat, NEW owners \in SUBSET Accounts
    PROVE  Docs(owners, m, s) \subseteq Row
  BY ConstantTypes DEF Docs, Row

\* Taking a record off the channel keeps every type.
LEMMA TakeTypes ==
    ASSUME TypeOK, TasksInv, NEW th \in Threads, Take(th)
    PROVE  TypeOK'
<1>1. Head(chan[th]) \in Task /\ Tail(chan[th]) \in Seq(Task)
  BY DEF Take, TypeOK, ProcTypeOK
<1>2. HandlerTypeOK'
  BY <1>1 DEF Take, TypeOK, HandlerTypeOK, Steps
<1>3. ProcTypeOK'
  BY <1>1 DEF Take, TypeOK, ProcTypeOK
<1> QED
  BY <1>2, <1>3, UnchangedTypes DEF Take, TypeOK

\* A commit, successful or not, keeps every type.
LEMMA CommitTypes ==
    ASSUME TypeOK, TasksInv, NEW th \in Threads, CommitPending(th)
    PROVE  TypeOK'
<1>1. pending[th] \in Seq(Task) /\ th[1] \in Procs
  BY DEF TypeOK, ProcTypeOK, Threads
<1>2. committed' \in [Partitions -> Nat]
  BY <1>1, CommittedType DEF CommitPending, TypeOK, KafkaTypeOK
<1>3. env' \in Env
  BY <1>1, FaultType DEF CommitPending, TypeOK, ProcTypeOK
<1>4. KafkaTypeOK'
  BY <1>2 DEF CommitPending, TypeOK, KafkaTypeOK
<1>5. ProcTypeOK'
  BY <1>3 DEF CommitPending, TypeOK, ProcTypeOK
<1> QED
  BY <1>4, <1>5, UnchangedTypes DEF CommitPending, TypeOK

\* Returning from the handler keeps every type.
LEMMA FinishTypes ==
    ASSUME TypeOK, TasksInv, NEW th \in Threads, Finish(th)
    PROVE  TypeOK'
<1>1. cur[th] \in Task
  BY ActiveTask DEF Finish, Active
<1>2. Append(pending[th], cur[th]) \in Seq(Task)
  BY <1>1 DEF TypeOK, ProcTypeOK
<1>3. HandlerTypeOK'
  BY DEF Finish, Return, Goto, TypeOK, HandlerTypeOK, Steps
<1>4. ProcTypeOK'
  BY <1>2 DEF Finish, TypeOK, ProcTypeOK
<1>5. HistoryTypeOK'
  BY <1>1 DEF Finish, TypeOK, HistoryTypeOK
<1> QED
  BY <1>3, <1>4, <1>5, UnchangedTypes DEF Finish, TypeOK

\* Another attempt, or giving up, keeps every type.
LEMMA RetryTypes ==
    ASSUME TypeOK, TasksInv, NEW th \in Threads, RetryOrGiveUp(th)
    PROVE  TypeOK'
<1>1. HandlerTypeOK'
  BY DEF RetryOrGiveUp, Goto, TypeOK, HandlerTypeOK, Steps
<1> QED
  BY <1>1, UnchangedTypes DEF RetryOrGiveUp, TypeOK

\* The steps of workerLoop keep every type.
LEMMA LoopStepTypes ==
    ASSUME TypeOK, TasksInv, NEW th \in Threads,
           Take(th) \/ CommitPending(th) \/ Finish(th) \/ RetryOrGiveUp(th)
    PROVE  TypeOK'
  BY TakeTypes, CommitTypes, FinishTypes, RetryTypes

\* Sequence allocation, successful or not, keeps every type.
LEMMA SeqStepTypes ==
    ASSUME TypeOK, SeqInv, TasksInv, NEW th \in Threads, AllocSeq(th) \/ AllocSeqFails(th)
    PROVE  TypeOK' /\ SeqInv'
<1>0. Topic(th) \in Topics /\ th[1] \in Procs
  BY Zenon, ActiveTask DEF AllocSeq, AllocSeqFails, Active
<1>1. CASE AllocSeq(th)
  <2>1. PICK s : NextSeq(th[1], Topic(th), s) /\ seq' = [seq EXCEPT ![th] = s]
    BY Zenon, <1>1 DEF AllocSeq
  <2>2. s \in Nat /\ SeqTypeOK' /\ SeqInv'
    BY <1>0, <2>1, NextSeqSafe DEF TypeOK
  <2>3. HandlerTypeOK'
    BY <1>1, <2>1, <2>2 DEF AllocSeq, Goto, TypeOK, HandlerTypeOK, Steps
  <2> QED
    BY Zenon, <1>1, <2>2, <2>3, UnchangedTypes DEF AllocSeq, TypeOK
<1>2. CASE AllocSeqFails(th)
  <2>1. SeqTypeOK' /\ SeqInv'
    BY <1>0, <1>2, NextSeqFailsSafe DEF AllocSeqFails, TypeOK
  <2>2. HandlerTypeOK'
    BY <1>2 DEF AllocSeqFails, Goto, TypeOK, HandlerTypeOK, Steps
  <2>3. ProcTypeOK'
    BY <1>0, <1>2, FaultType DEF AllocSeqFails, TypeOK, ProcTypeOK
  <2> QED
    BY <1>2, <2>1, <2>2, <2>3, UnchangedTypes DEF AllocSeqFails, TypeOK
<1> QED
  BY <1>1, <1>2

\* What the save steps write is well typed.
LEMMA SaveTypes ==
    ASSUME TypeOK, TasksInv, NEW th \in Threads, Active(th)
    PROVE  /\ SaveDocs(th) \subseteq Row
           /\ FreshDocs(th) \subseteq Row
           /\ EventDocs(th) \subseteq Attempt
           /\ Event(th) \in Attempt
           /\ MentionDocs(th) \subseteq Row
<1>1. cur[th].msg \in Msgs /\ seq[th] \in Nat
  BY ActiveTask DEF TypeOK, HandlerTypeOK
<1>2. SaveDocs(th) \subseteq Row /\ FreshDocs(th) \subseteq Row
  BY <1>1, DocsType, ConstantTypes DEF SaveDocs, FreshDocs
<1>3. MentionDocs(th) \subseteq Row
  BY <1>1, DocsType, ConstantTypes DEF MentionDocs
<1>4. Event(th) \in Attempt
  BY <1>1 DEF Event, Attempt
<1> QED
  BY <1>2, <1>3, <1>4 DEF EventDocs

\* The step after a save is a step.
LEMMA AfterSaveType ==
    ASSUME NEW m, NEW d PROVE AfterSave(m, d) \in {"mention", "done", "backup"}
  BY DEF AfterSave, AfterMention

\* The three outcomes of a save keep every type.
LEMMA SaveStepTypes ==
    ASSUME TypeOK, TasksInv, NEW th \in Threads,
           SaveFresh(th) \/ SaveDuplicate(th) \/ SaveFails(th) \/ SaveMentions(th)
    PROVE  TypeOK'
<1>0. /\ Active(th) /\ th[1] \in Procs
      /\ SaveDocs(th) \subseteq Row /\ FreshDocs(th) \subseteq Row
      /\ EventDocs(th) \subseteq Attempt /\ MentionDocs(th) \subseteq Row
  BY Zenon, SaveTypes DEF SaveFresh, SaveDuplicate, SaveFails, SaveMentions, Active, Threads
<1>1. CASE SaveFresh(th)
  <2>1. HandlerTypeOK'
    BY Zenon, <1>1, AfterSaveType DEF SaveFresh, Goto, TypeOK, HandlerTypeOK, Steps
  <2>2. StoreTypeOK'
    BY <1>0, <1>1 DEF SaveFresh, TypeOK, StoreTypeOK
  <2> QED
    BY Zenon, <1>1, <2>1, <2>2, UnchangedTypes DEF SaveFresh, TypeOK
<1>2. CASE SaveDuplicate(th)
  <2>1. HandlerTypeOK'
    BY Zenon, <1>2, AfterSaveType DEF SaveDuplicate, Goto, TypeOK, HandlerTypeOK, Steps
  <2>2. StoreTypeOK'
    BY <1>0, <1>2 DEF SaveDuplicate, TypeOK, StoreTypeOK
  <2> QED
    BY Zenon, <1>2, <2>1, <2>2, UnchangedTypes DEF SaveDuplicate, TypeOK
<1>3. CASE SaveFails(th)
  <2>1. HandlerTypeOK'
    BY <1>3 DEF SaveFails, Goto, TypeOK, HandlerTypeOK, Steps
  <2>2. StoreTypeOK'
    BY ZenonT(40), <1>0, <1>3 DEF SaveFails, TypeOK, StoreTypeOK
  <2>3. ProcTypeOK'
    BY ZenonT(40), <1>0, <1>3, FaultType DEF SaveFails, TypeOK, ProcTypeOK
  <2> QED
    BY <1>3, <2>1, <2>2, <2>3, UnchangedTypes DEF SaveFails, TypeOK
<1>4. CASE SaveMentions(th)
  <2>1. HandlerTypeOK'
    BY <1>4 DEF SaveMentions, AfterMention, Goto, TypeOK, HandlerTypeOK, Steps
  <2>2. StoreTypeOK'
    BY ZenonT(40), <1>0, <1>4 DEF SaveMentions, TypeOK, StoreTypeOK
  <2>3. ProcTypeOK'
    BY Zenon, <1>0, <1>4, FaultType DEF SaveMentions, TypeOK, ProcTypeOK
  <2> QED
    BY Zenon, <1>4, <2>1, <2>2, <2>3, UnchangedTypes DEF SaveMentions, TypeOK
<1> QED
  BY <1>1, <1>2, <1>3, <1>4

\* Mention, backup, conversation and delivery steps keep every type.
LEMMA AfterSaveStepTypes ==
    ASSUME TypeOK, TasksInv, NEW th \in Threads,
           BackupSeq(th) \/ UpsertConversations(th) \/ EnqueueDelivery(th)
    PROVE  TypeOK'
<1>0. /\ th[1] \in Procs /\ cur[th].msg \in Msgs /\ Topic(th) \in Topics
      /\ Event(th) \in Attempt /\ seq[th] \in Nat
  BY Zenon, ActiveTask, SaveTypes
     DEF BackupSeq, UpsertConversations, EnqueueDelivery, Active, TypeOK, HandlerTypeOK
<1>1. CASE BackupSeq(th)
  <2>1. HandlerTypeOK'
    BY <1>1 DEF BackupSeq, Goto, TypeOK, HandlerTypeOK, Steps
  <2>2. StoreTypeOK'
    BY ZenonT(40), <1>0, <1>1 DEF BackupSeq, TypeOK, StoreTypeOK
  <2>3. ProcTypeOK'
    BY <1>0, <1>1, FaultType DEF BackupSeq, TypeOK, ProcTypeOK
  <2> QED
    BY Zenon, <1>1, <2>1, <2>2, <2>3, UnchangedTypes DEF BackupSeq, TypeOK
<1>2. CASE UpsertConversations(th)
  <2>1. HandlerTypeOK'
    BY ZenonT(40), <1>2 DEF UpsertConversations, Goto, TypeOK, HandlerTypeOK, Steps
  <2>2. \A c \in Conv, u \in Accounts : Upserted(c, u, cur[th].msg, seq[th]) \in Conv
    BY <1>0 DEF Upserted, Conv
  <2>3. StoreTypeOK'
    <3>1. convs \in [Accounts \X Topics -> Conv]
      BY DEF TypeOK, StoreTypeOK
    <3>2. \E ok \in SUBSET Accounts :
            convs' = [x \in Accounts \X Topics |->
                        IF x[1] \in ok /\ x[2] = Topic(th)
                        THEN Upserted(convs[x], x[1], cur[th].msg, seq[th]) ELSE convs[x]]
      BY Zenon, <1>0, <1>2, ConstantTypes DEF UpsertConversations, Topic
    <3>3. \A x \in Accounts \X Topics : x[1] \in Accounts /\ convs[x] \in Conv
      BY <3>1
    <3>4. convs' \in [Accounts \X Topics -> Conv]
      BY <2>2, <3>2, <3>3
    <3>5. UNCHANGED <<rows, mentions, outbox, backup>>
      BY Zenon, <1>2 DEF UpsertConversations
    <3> QED
      BY <3>4, <3>5 DEF TypeOK, StoreTypeOK
  <2>4. ProcTypeOK'
    BY Zenon, <1>0, <1>2, FaultType DEF UpsertConversations, TypeOK, ProcTypeOK
  <2> QED
    BY ZenonT(40), <1>2, <2>1, <2>3, <2>4, UnchangedTypes DEF UpsertConversations, TypeOK
<1>3. CASE EnqueueDelivery(th)
  <2>1. HandlerTypeOK'
    BY <1>3 DEF EnqueueDelivery, Goto, TypeOK, HandlerTypeOK, Steps
  <2>2. Append(pool[th[1]], Event(th)) \in Seq(Attempt)
    <3>1. pool[th[1]] \in Seq(Attempt)
      BY Zenon, <1>0 DEF TypeOK, ProcTypeOK
    <3> QED
      BY <1>0, <3>1, AppendType
  <2>3. ProcTypeOK'
    BY Zenon, <1>3, <2>2 DEF EnqueueDelivery, TypeOK, ProcTypeOK
  <2>4. HistoryTypeOK'
    <3>1. /\ enqueued' = [enqueued EXCEPT ![cur[th].msg] = @ + 1]
          /\ UNCHANGED <<dlq, done, lost>>
      BY Zenon, <1>3 DEF EnqueueDelivery
    <3>2. HistoryTypeOK
      BY DEF TypeOK
    <3> QED
      BY <1>0, <3>1, <3>2 DEF HistoryTypeOK
  <2> QED
    BY Zenon, <1>3, <2>1, <2>3, <2>4, UnchangedTypes DEF EnqueueDelivery, TypeOK
<1> QED
  BY <1>1, <1>2, <1>3
=============================================================================
