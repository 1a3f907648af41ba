---------------------- MODULE MsgWorkerDuplicateProofs ----------------------
(***************************************************************************)
(* Saves of MsgWorker that meet a duplicate key or an error: whatever an   *)
(* earlier attempt stored, PipelineInv is preserved.                       *)
(***************************************************************************)
EXTENDS MsgWorkerSaveProofs

\* A save in which every error is a duplicate key finds, or leaves, the message
\* stored for every owner: the sequence number being fresh, the key that
\* collided is the message's own.
LEMMA SaveDuplicateStores ==
    ASSUME PipelineInv, NEW th \in Threads, SaveDuplicate(th)
    PROVE  /\ Inserts(th)
           /\ Stored(cur[th].msg)'
           /\ Transactional(cur[th].msg) => rows' = rows
           /\ pc'[th] = "done" \/ (pc'[th] = "mention" /\ dup'[th])
<1>0. TypeOK /\ HeldSeqInv /\ StoredInv /\ cur[th].msg \in Msgs
  BY ActiveTask DEF PipelineInv, SaveDuplicate, Active
<1> DEFINE m == cur[th].msg
<1>1. Inserts(th)
  BY DEF SaveDuplicate, Inserts, seqVars, FreshDocs
<1>2. \A d \in SaveDocs(th) :
        d.owner \in OwnersOf[m] /\ d.msg = m /\ d.topic = Topic(th) /\ d.seq = seq[th]
  BY DEF SaveDocs, Docs, Topic
<1>3. \A d \in SaveDocs(th) : DuplicateKey(rows, d) => HasCopy(d.owner, m)
  BY <1>0, <1>2 DEF SaveDuplicate, HeldSeqInv, DuplicateKey, HasCopy
<1>4. cur' = cur
  BY <1>1 DEF Inserts
<1>5. \A d \in SaveDocs(th) : d \in rows' => HasCopy(d.owner, m)'
  BY <1>2, <1>4 DEF HasCopy
<1>6. Stored(m)'
  <2>1. CASE Transactional(m)
    <3>1. \E o \in OwnersOf[m] : HasCopy(o, m)
      BY <1>2, <1>3 DEF SaveDuplicate, FreshDocs
    <3>2. Stored(m)
      BY <1>0, <2>1, <3>1 DEF StoredInv
    <3> QED
      BY <1>1, <3>2 DEF Inserts, Stored, HasCopy
  <2>2. CASE ~Transactional(m)
    <3>1. ASSUME NEW o \in OwnersOf[m] PROVE HasCopy(o, m)'
      <4>1. PICK d \in SaveDocs(th) : d.owner = o
        BY OwnerDoc
      <4>2. CASE DuplicateKey(rows, d)
        BY <1>1, <1>3, <1>4, <4>1, <4>2 DEF HasCopy, Inserts
      <4>3. CASE ~DuplicateKey(rows, d)
        BY <1>5, <2>2, <4>1, <4>3 DEF SaveDuplicate, FreshDocs
      <4> QED
        BY <4>2, <4>3
    <3> QED
      BY <1>4, <3>1 DEF Stored, HasCopy
  <2> QED
    BY <2>1, <2>2
<1>7. pc'[th] = "done" \/ (pc'[th] = "mention" /\ dup'[th])
  BY <1>0 DEF SaveDuplicate, Goto, AfterSave, AfterMention, TypeOK, HandlerTypeOK
<1> QED
  BY <1>1, <1>6, <1>7 DEF SaveDuplicate

\* A save that is not fresh starts no delivery.
LEMMA StaleSaveStep ==
    ASSUME PipelineInv, NEW th \in Threads, Inserts(th), pc'[th] # "save", ~CarriesFresh(th)',
           pc'[th] \in {"mention", "done"} => Stored(cur[th].msg)',
           Transactional(cur[th].msg) =>
               rows' = rows \/ Stored(cur[th].msg)',
           \A other \in Threads : other # th => Idles(other)
    PROVE  HeldSeqInv' /\ StoredInv' /\ DeliveryInv'
<1>0. TypeOK /\ StoredInv /\ DeliveryInv
  BY DEF PipelineInv
<1> DEFINE m == cur[th].msg
<1>1. HeldSeqInv'
  BY InsertHeldSeq
<1>2. /\ cur' = cur /\ UNCHANGED <<enqueued, done, dlq>>
      /\ \A n : Stored(n) => Stored(n)'
      /\ \A n : n # m => (Stored(n)' <=> Stored(n))
      /\ \A o, n : n # m => (HasCopy(o, n)' <=> HasCopy(o, n))
  BY InsertCopies DEF Inserts
<1>3. \A other \in Threads : other # th => (CarriesFresh(other)' <=> CarriesFresh(other))
  BY DEF CarriesFresh, Idles
<1>4. StoredInv'
  <2>1. \A n \in Msgs : Transactional(n) /\ (\E o \in OwnersOf[n] : HasCopy(o, n)') => Stored(n)'
    <3> SUFFICES ASSUME NEW n \in Msgs, Transactional(n), \E o \in OwnersOf[n] : HasCopy(o, n)'
                 PROVE  Stored(n)'
      OBVIOUS
    <3>1. CASE n # m
      BY <1>0, <1>2, <3>1 DEF StoredInv
    <3>2. CASE n = m
      <4>1. CASE rows' = rows
        BY <1>0, <1>2, <4>1 DEF StoredInv, HasCopy
      <4>2. CASE Stored(cur[th].msg)'
        BY <1>2, <3>2, <4>2
      <4> QED
        BY <3>2, <4>1, <4>2
    <3> QED
      BY <3>1, <3>2
  <2>2. ASSUME NEW other \in Threads, other # th
        PROVE  /\ pc'[other] = "mention" \/ CarriesFresh(other)' => Stored(cur[other].msg)'
               /\ pc'[other] = "done" => Stored(cur[other].msg)' \/ cur'[other] \in dlq'
    <3>1. Stored(cur[other].msg) => Stored(cur[other].msg)'
      BY <1>2 DEF Inserts, Stored, HasCopy
    <3> QED
      BY <1>0, <1>2, <1>3, <2>2, <3>1 DEF StoredInv, Idles
  <2>3. HandledIsDurable'
    BY <1>0, <1>2 DEF StoredInv, HandledIsDurable
  <2> QED
    BY <1>2, <2>1, <2>2, <2>3 DEF StoredInv, Transactional
<1>5. DeliveryInv'
  <2>1. DeliveredAtMostOnce'
    BY Zenon, <1>0, <1>2 DEF DeliveryInv, DeliveredAtMostOnce
  <2> QED
    BY ZenonT(40), <1>0, <1>2, <1>3, <2>1 DEF DeliveryInv
<1> QED
  BY <1>1, <1>4, <1>5

\* Whatever a save returns (fresh, duplicate, error), the invariant survives.
LEMMA SaveStep ==
    ASSUME PipelineInv, NEW th \in Threads,
           SaveFresh(th) \/ SaveDuplicate(th) \/ SaveFails(th)
    PROVE  HeldSeqInv' /\ StoredInv' /\ DeliveryInv'
<1>0. TypeOK /\ \A other \in Threads : other # th => Idles(other)
  BY ThreadStepLocal DEF PipelineInv, Progress, Failure
<1>1. CASE SaveFresh(th)
  BY <1>1, SaveFreshStep
<1>2. CASE SaveDuplicate(th)
  <2>1. /\ Inserts(th) /\ Stored(cur[th].msg)'
        /\ pc'[th] # "save" /\ ~CarriesFresh(th)'
    BY <1>2, SaveDuplicateStores DEF CarriesFresh
  <2> QED
    BY <1>0, <2>1, StaleSaveStep
<1>3. CASE SaveFails(th)
  <2>1. pc'[th] = "failed" /\ cur' = cur
    BY <1>0, <1>3 DEF SaveFails, Goto, TypeOK, HandlerTypeOK
  <2>2. Inserts(th)
    BY <1>3 DEF SaveFails, Inserts, seqVars, FreshDocs
  <2>3. Transactional(cur[th].msg) => rows' = rows \/ Stored(cur[th].msg)'
    <3>1. \A o \in OwnersOf[cur[th].msg] :
            \E d \in SaveDocs(th) : d.owner = o /\ d.msg = cur[th].msg
      BY OwnerDoc
    <3>2. rows' = rows \cup SaveDocs(th) => Stored(cur[th].msg)'
      BY <2>1, <3>1 DEF Stored, HasCopy
    <3> QED
      BY ZenonT(40), <1>3, <3>2 DEF SaveFails
  <2> QED
    BY <1>0, <2>1, <2>2, <2>3, StaleSaveStep DEF CarriesFresh
<1> QED
  BY <1>1, <1>2, <1>3
=============================================================================
