------------------------ MODULE MsgWorkerSaveProofs -------------------------
(***************************************************************************)
(* Sequence numbers and saves of MsgWorker: drawing a number and storing a *)
(* message under it preserve what PipelineInv says of rows and deliveries. *)
(***************************************************************************)
EXTENDS MsgWorkerTaskProofs

\* A step that stores, finishes and submits nothing: a goroutine either keeps
\* its handler state or moves to a step that claims nothing about the store.
Quiet ==
    /\ UNCHANGED <<rows, issued, done, enqueued>>
    /\ dlq \subseteq dlq'
    /\ \A th \in Threads :
         \/ pc'[th] \in {"idle", "exit", "seq", "failed", "dlq"}
         \/ /\ pc'[th] = pc[th] /\ cur'[th] = cur[th]
            /\ seq'[th] = seq[th] /\ dup'[th] = dup[th]

\* The pipeline invariant survives a quiet step: an error, a give-up, a read, a
\* rebalance, a stop or a crash of the process.
LEMMA QuietStep ==
    ASSUME HeldSeqInv, StoredInv, DeliveryInv, Quiet
    PROVE  HeldSeqInv' /\ StoredInv' /\ DeliveryInv'
<1>1. \A th \in Threads : pc'[th] \in {"save", "mention", "done", "backup", "upsert", "enqueue"} =>
        pc'[th] = pc[th] /\ cur'[th] = cur[th] /\ seq'[th] = seq[th] /\ dup'[th] = dup[th]
  BY DEF Quiet
<1>2. \A m \in Msgs : Stored(m)' <=> Stored(m)
  BY DEF Quiet, Stored, HasCopy
<1>3. \A th \in Threads : CarriesFresh(th)' => CarriesFresh(th) /\ cur'[th] = cur[th]
  BY <1>1 DEF CarriesFresh
<1>4. HeldSeqInv'
  BY <1>1 DEF HeldSeqInv, Quiet, Topic
<1>5. StoredInv'
  BY <1>1, <1>3 DEF StoredInv, Quiet, HandledIsDurable, Stored, HasCopy, Transactional
<1>6. DeliveryInv'
  BY <1>1, <1>2, <1>3 DEF DeliveryInv, Quiet, DeliveredAtMostOnce
<1> QED
  BY <1>4, <1>5, <1>6

-----------------------------------------------------------------------------
(* Drawing a sequence number                                               *)

\* NextSeq gives the goroutine a number no row and no other goroutine holds.
LEMMA AllocSeqStep ==
    ASSUME PipelineInv, NEW th \in Threads, AllocSeq(th)
    PROVE  HeldSeqInv' /\ StoredInv' /\ DeliveryInv'
<1>0. /\ TypeOK /\ SeqInv /\ TasksInv /\ HeldSeqInv /\ StoredInv /\ DeliveryInv
      /\ Topic(th) \in Topics /\ th[1] \in Procs
  BY ActiveTask DEF PipelineInv, AllocSeq, Active
<1>1. PICK s : NextSeq(th[1], Topic(th), s) /\ seq' = [seq EXCEPT ![th] = s]
  BY Zenon DEF AllocSeq
<1>2. s \notin issued[Topic(th)] /\ issued' = [issued EXCEPT ![Topic(th)] = @ \cup {s}]
  BY <1>0, <1>1, NextSeqSafe DEF TypeOK
<1>3. /\ pc[th] = "seq" /\ pc'[th] = "save" /\ seq'[th] = s
      /\ UNCHANGED <<cur, rows, done, dlq, enqueued>>
  BY <1>0, <1>1 DEF AllocSeq, Goto, TypeOK, HandlerTypeOK, storeVars
<1>4. \A other \in Threads : other # th => Idles(other)
  BY <1>0, ThreadStepLocal DEF Progress
<1>5. \A t \in Topics : issued[t] \subseteq issued'[t]
  BY <1>0, <1>2 DEF TypeOK, SeqTypeOK
<1>6. /\ s \in issued'[Topic(th)]
      /\ \A t \in Topics : t # Topic(th) => issued'[t] = issued[t]
  BY <1>0, <1>2 DEF TypeOK, SeqTypeOK
<1>7. \A t \in Threads : Topic(t)' = Topic(t)
  BY <1>3 DEF Topic
<1>8. HeldSeqInv'
  <2>1. \A r \in rows' : r.topic = TopicOf[r.msg] /\ r.seq \in issued'[r.topic]
    BY <1>0, <1>3, <1>5 DEF HeldSeqInv, TypeOK, StoreTypeOK, Row
  <2>2. \A r \in rows' : ~(r.topic = Topic(th) /\ r.seq = s)
    BY <1>0, <1>2, <1>3 DEF HeldSeqInv
  <2>3. \A other \in Threads : other # th /\ pc[other] = "save" =>
          /\ seq[other] \in issued[Topic(other)]
          /\ Topic(other) \in Topics
    BY <1>0, ActiveTask DEF HeldSeqInv, Active
  <2>4. \A other \in Threads : (other # th /\ pc'[other] = "save") =>
          /\ pc[other] = "save" /\ seq'[other] = seq[other]
          /\ seq'[other] \in issued'[Topic(other)]
          /\ Topic(other) = Topic(th) => seq'[other] # s
    BY <1>2, <1>4, <1>5, <2>3 DEF Idles
  <2> QED
    BY <1>0, <1>3, <1>6, <1>7, <2>1, <2>2, <2>4 DEF HeldSeqInv
<1>9. \A t \in Threads : CarriesFresh(t)' => CarriesFresh(t) /\ t # th
  BY <1>3, <1>4 DEF CarriesFresh, Idles
<1>10. StoredInv'
  BY <1>0, <1>3, <1>4, <1>9
     DEF StoredInv, Idles, HandledIsDurable, Stored, HasCopy, Transactional
<1>11. DeliveryInv'
  BY <1>0, <1>3, <1>9 DEF DeliveryInv, DeliveredAtMostOnce, Stored, HasCopy
<1> QED
  BY <1>8, <1>10, <1>11

-----------------------------------------------------------------------------
(* Saving a message                                                        *)

\* The insert of goroutine th adds some of its own documents and nothing else.
Inserts(th) ==
    /\ pc[th] = "save"
    /\ rows \subseteq rows'
    /\ rows' \subseteq rows \cup SaveDocs(th)
    /\ UNCHANGED <<issued, cur, seq, dlq, done, enqueued>>

\* Inserting rows under the saver's own number keeps the held numbers exclusive.
LEMMA InsertHeldSeq ==
    ASSUME PipelineInv, NEW th \in Threads, Inserts(th), pc'[th] # "save",
           \A other \in Threads : other # th => Idles(other)
    PROVE  HeldSeqInv'
<1>0. HeldSeqInv /\ TypeOK /\ cur[th].msg \in Msgs /\ Topic(th) = TopicOf[cur[th].msg]
  BY ActiveTask DEF PipelineInv, Inserts, Active, Topic
<1>1. \A d \in SaveDocs(th) : d.topic = Topic(th) /\ d.seq = seq[th] /\ d.msg = cur[th].msg
  BY <1>0 DEF SaveDocs, Docs
<1>2. \A r \in rows' : r.topic = TopicOf[r.msg] /\ r.seq \in issued'[r.topic]
  BY <1>0, <1>1 DEF Inserts, HeldSeqInv
<1>3. \A t \in Threads : Topic(t)' = Topic(t)
  BY DEF Inserts, Topic
<1>4. ASSUME NEW other \in Threads, other # th, pc[other] = "save"
      PROVE  \A r \in rows' : ~(r.topic = Topic(other) /\ r.seq = seq[other])
  BY <1>0, <1>1, <1>4 DEF Inserts, HeldSeqInv
<1> QED
  BY <1>0, <1>2, <1>3, <1>4 DEF Inserts, HeldSeqInv, Idles

\* It changes what is stored of its own message only, and only adds to it.
LEMMA InsertCopies ==
    ASSUME PipelineInv, NEW th \in Threads, Inserts(th)
    PROVE  /\ \A o, m : HasCopy(o, m) => HasCopy(o, m)'
           /\ \A o, m : m # cur[th].msg => (HasCopy(o, m)' <=> HasCopy(o, m))
           /\ \A m : Stored(m) => Stored(m)'
           /\ \A m : m # cur[th].msg => (Stored(m)' <=> Stored(m))
<1>1. \A d \in SaveDocs(th) : d.msg = cur[th].msg
  BY DEF SaveDocs, Docs
<1>2. \A o, m : HasCopy(o, m) => HasCopy(o, m)'
  BY DEF Inserts, HasCopy
<1>3. \A o, m : m # cur[th].msg => (HasCopy(o, m)' <=> HasCopy(o, m))
  BY <1>1 DEF Inserts, HasCopy
<1> QED
  BY <1>2, <1>3 DEF Stored

\* The document a save writes for one owner.
LEMMA OwnerDoc ==
    ASSUME NEW th \in Threads, NEW o \in OwnersOf[cur[th].msg]
    PROVE  \E d \in SaveDocs(th) : /\ d.owner = o /\ d.msg = cur[th].msg
                                   /\ d.topic = Topic(th) /\ d.seq = seq[th]
<1> DEFINE d == [owner |-> o, topic |-> Topic(th), seq |-> seq[th], msg |-> cur[th].msg]
<1>1. d \in SaveDocs(th)
  BY DEF SaveDocs, Docs, Topic
<1>2. d.owner = o /\ d.msg = cur[th].msg /\ d.topic = Topic(th) /\ d.seq = seq[th]
  OBVIOUS
<1> QED
  BY <1>1, <1>2

\* A save without a duplicate key stores a message nobody had a copy of.
LEMMA SaveFreshStores ==
    ASSUME PipelineInv, NEW th \in Threads, SaveFresh(th)
    PROVE  /\ Inserts(th)
           /\ ~Stored(cur[th].msg) /\ Stored(cur[th].msg)'
           /\ pc'[th] \in {"mention", "backup"} /\ ~dup'[th]
<1>0. TypeOK /\ cur[th].msg \in Msgs /\ OwnersOf[cur[th].msg] # {}
  BY ActiveTask, ConstantTypes DEF PipelineInv, SaveFresh, Active
<1>1. Inserts(th)
  BY DEF SaveFresh, Inserts, seqVars
<1>2. \A o \in OwnersOf[cur[th].msg] :
        \E d \in SaveDocs(th) : d.owner = o /\ d.msg = cur[th].msg
  BY OwnerDoc
<1>3. \A o \in OwnersOf[cur[th].msg] : ~HasCopy(o, cur[th].msg)
  BY <1>2 DEF SaveFresh, FreshDocs, DuplicateKey, HasCopy
<1>4. ~Stored(cur[th].msg)
  BY <1>0, <1>3 DEF Stored
<1>5. Stored(cur[th].msg)'
  BY <1>2 DEF SaveFresh, Stored, HasCopy
<1>6. pc'[th] \in {"mention", "backup"} /\ ~dup'[th]
  BY <1>0 DEF SaveFresh, Goto, AfterSave, AfterMention, TypeOK, HandlerTypeOK
<1> QED
  BY <1>1, <1>4, <1>5, <1>6

\* A fresh save makes the saver the one goroutine that carries the message.
LEMMA SaveFreshStep ==
    ASSUME PipelineInv, NEW th \in Threads, SaveFresh(th)
    PROVE  HeldSeqInv' /\ StoredInv' /\ DeliveryInv'
<1>0. /\ TypeOK /\ StoredInv /\ DeliveryInv /\ cur[th].msg \in Msgs
      /\ enqueued \in [Msgs -> Nat]
  BY ActiveTask DEF PipelineInv, SaveFresh, Active, TypeOK, HistoryTypeOK
<1> DEFINE m == cur[th].msg
<1>1. /\ Inserts(th) /\ ~Stored(m) /\ Stored(m)'
      /\ pc'[th] \in {"mention", "backup"} /\ ~dup'[th]
  BY SaveFreshStores
<1>2. \A other \in Threads : other # th => Idles(other)
  BY <1>0, ThreadStepLocal DEF Progress
<1>3. HeldSeqInv'
  BY <1>1, <1>2, InsertHeldSeq
<1>4. /\ cur' = cur /\ UNCHANGED <<enqueued, done, dlq>>
      /\ \A n : Stored(n) => Stored(n)'
      /\ \A n : n # m => (Stored(n)' <=> Stored(n))
      /\ \A o, n : n # m => (HasCopy(o, n)' <=> HasCopy(o, n))
  BY <1>1, InsertCopies DEF Inserts
<1>5. \A other \in Threads : other # th => (CarriesFresh(other)' <=> CarriesFresh(other))
  BY <1>2 DEF CarriesFresh, Idles
<1>6. StoredInv'
  <2>1. \A n \in Msgs : Transactional(n) /\ (\E o \in OwnersOf[n] : HasCopy(o, n)') => Stored(n)'
    BY <1>0, <1>1, <1>4 DEF StoredInv
  <2>2. \A other \in Threads : other # th =>
          /\ pc'[other] = "mention" \/ CarriesFresh(other)' => Stored(cur[other].msg)'
          /\ pc'[other] = "done" => Stored(cur[other].msg)' \/ cur'[other] \in dlq'
    <3> SUFFICES ASSUME NEW other \in Threads, other # th
                 PROVE  /\ pc'[other] = "mention" \/ CarriesFresh(other)' => Stored(cur[other].msg)'
                        /\ pc'[other] = "done" => Stored(cur[other].msg)' \/ cur'[other] \in dlq'
      OBVIOUS
    <3>1. Stored(cur[other].msg) => Stored(cur[other].msg)'
      BY <1>1, <1>4 DEF Inserts, Stored, HasCopy
    <3> QED
      BY <1>0, <1>2, <1>4, <1>5, <3>1 DEF StoredInv, Idles
  <2>3. HandledIsDurable'
    BY <1>0, <1>4 DEF StoredInv, HandledIsDurable
  <2>4. Stored(cur[th].msg)'
    BY <1>1
  <2> QED
    BY <1>1, <1>4, <2>1, <2>2, <2>3, <2>4 DEF StoredInv, Transactional
<1>7. DeliveryInv'
  <2>1. enqueued[m] = 0
    BY <1>0, <1>1 DEF DeliveryInv, DeliveredAtMostOnce
  <2>2. \A other \in Threads : CarriesFresh(other) => cur[other].msg # m
    BY <1>0, <1>1 DEF StoredInv
  <2>3. DeliveredAtMostOnce'
    BY <1>0, <1>4 DEF DeliveryInv, DeliveredAtMostOnce
  <2> QED
    BY <1>0, <1>4, <1>5, <2>1, <2>2, <2>3 DEF DeliveryInv
<1> QED
  BY <1>3, <1>6, <1>7
=============================================================================
