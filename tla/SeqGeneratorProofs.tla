-------------------------- MODULE SeqGeneratorProofs --------------------------
(***************************************************************************)
(* What one call of SeqGenerator.NextSeq preserves and guarantees, for any *)
(* number of processes and topics and any batch size.                      *)
(***************************************************************************)
EXTENDS SeqGenerator, TLAPS

\* Handing out a cached number keeps the counter, the cached ranges and the
\* numbers already handed out apart.
LEMMA NextSeqCachedSafe ==
    ASSUME SeqTypeOK, SeqInv, NEW p \in Procs, NEW t \in Topics, NEW s,
           NextSeqCached(p, t, s)
    PROVE  /\ s \in Nat /\ s \notin issued[t]
           /\ SeqTypeOK'
           /\ SeqInv'
<1>1. s \in Nat /\ s > 0 /\ s <= ranges[<<p, t>>].max
  BY DEF NextSeqCached, Cached, SeqTypeOK, SeqRange
<1>2. s \in Available(p, t)
  BY <1>1 DEF NextSeqCached, Available, SeqTypeOK, SeqRange
<1>3. s \notin issued[t] /\ s \in 1 .. redisSeq[t]
  BY <1>2 DEF SeqInv
<1>4. SeqTypeOK'
  BY <1>1 DEF NextSeqCached, SeqTypeOK, SeqRange
<1>5. Available(p, t)' = Available(p, t) \ {s}
  <2>1. Available(p, t) = s .. ranges[<<p, t>>].max
    BY <1>1 DEF NextSeqCached, Available
  <2>2. Available(p, t)' = s + 1 .. ranges[<<p, t>>].max
    BY <1>1 DEF NextSeqCached, Available, SeqTypeOK, SeqRange
  <2>3. ranges[<<p, t>>].max \in Nat
    BY DEF SeqTypeOK, SeqRange
  <2> QED
    BY <1>1, <2>1, <2>2, <2>3
<1>6. \A q \in Procs, u \in Topics : <<q, u>> # <<p, t>> => Available(q, u)' = Available(q, u)
  BY DEF NextSeqCached, Available, SeqTypeOK, SeqRange
<1>7. issued' = [issued EXCEPT ![t] = @ \cup {s}] /\ redisSeq' = redisSeq
  BY DEF NextSeqCached
<1>8. \A q \in Procs : q # p => s \notin Available(q, t)
  BY <1>2 DEF SeqInv
<1>9. SeqInv'
  <2>1. \A u \in Topics : issued'[u] \subseteq 1 .. redisSeq'[u]
    BY <1>3, <1>7 DEF SeqInv, SeqTypeOK
  <2>2. \A q \in Procs, u \in Topics : Available(q, u)' \subseteq Available(q, u)
    BY <1>5, <1>6
  <2>3. \A q \in Procs, u \in Topics : Available(q, u)' \cap issued'[u] = {}
    <3> SUFFICES ASSUME NEW q \in Procs, NEW u \in Topics
                 PROVE  Available(q, u)' \cap issued'[u] = {}
      OBVIOUS
    <3>1. CASE u # t
      BY <3>1, <1>6, <1>7 DEF SeqInv, SeqTypeOK
    <3>2. CASE u = t
      BY <3>2, <1>5, <1>6, <1>7, <1>8 DEF SeqInv, SeqTypeOK
    <3> QED
      BY <3>1, <3>2
  <2> QED
    BY <2>1, <2>2, <2>3, <1>7 DEF SeqInv
<1> QED
  BY <1>1, <1>3, <1>4, <1>9

\* A fresh batch lies above everything cached or handed out so far.
LEMMA NextSeqFetchSafe ==
    ASSUME SeqTypeOK, SeqInv, NEW p \in Procs, NEW t \in Topics, NEW s,
           NextSeqFetch(p, t, s)
    PROVE  /\ s \in Nat /\ s \notin issued[t]
           /\ SeqTypeOK'
           /\ SeqInv'
<1>1. /\ s = redisSeq[t] + 1
      /\ redisSeq' = [redisSeq EXCEPT ![t] = @ + BatchSize]
      /\ ranges' = [ranges EXCEPT ![<<p, t>>] =
                      [next |-> s + 1, max |-> redisSeq[t] + BatchSize]]
      /\ issued' = [issued EXCEPT ![t] = @ \cup {s}]
  BY SeqAssumption DEF NextSeqFetch, SeqTypeOK
<1>2. s \in Nat /\ s \notin issued[t]
  BY <1>1 DEF SeqInv, SeqTypeOK
<1>3. SeqTypeOK'
  BY <1>1, SeqAssumption DEF SeqTypeOK, SeqRange
<1>4. Available(p, t)' = redisSeq[t] + 2 .. redisSeq[t] + BatchSize
  BY <1>1, SeqAssumption DEF Available, SeqTypeOK, SeqRange
<1>5. \A q \in Procs, u \in Topics : <<q, u>> # <<p, t>> => Available(q, u)' = Available(q, u)
  BY <1>1 DEF Available, SeqTypeOK, SeqRange
<1>6. SeqInv'
  <2>1. \A u \in Topics : issued'[u] \subseteq 1 .. redisSeq'[u]
    BY <1>1, SeqAssumption DEF SeqInv, SeqTypeOK
  <2>2. \A q \in Procs, u \in Topics : Available(q, u)' \subseteq 1 .. redisSeq'[u]
    BY <1>1, <1>4, <1>5, SeqAssumption DEF SeqInv, SeqTypeOK
  <2>3. \A q \in Procs, u \in Topics : Available(q, u)' \cap issued'[u] = {}
    <3> SUFFICES ASSUME NEW q \in Procs, NEW u \in Topics
                 PROVE  Available(q, u)' \cap issued'[u] = {}
      OBVIOUS
    <3>1. CASE u # t
      BY <3>1, <1>1, <1>5 DEF SeqInv, SeqTypeOK
    <3>2. CASE u = t /\ q = p
      BY <3>2, <1>1, <1>4, SeqAssumption DEF SeqInv, SeqTypeOK
    <3>3. CASE u = t /\ q # p
      BY <3>3, <1>1, <1>5 DEF SeqInv, SeqTypeOK
    <3> QED
      BY <3>1, <3>2, <3>3
  <2>4. \A q, r \in Procs, u \in Topics :
           q # r => Available(q, u)' \cap Available(r, u)' = {}
    BY <1>4, <1>5, SeqAssumption DEF SeqInv, SeqTypeOK
  <2> QED
    BY <2>1, <2>2, <2>3, <2>4 DEF SeqInv
<1> QED
  BY <1>2, <1>3, <1>6

\* NextSeq never returns a number it returned before for the topic, and keeps
\* the invariant of the allocator.
THEOREM NextSeqSafe ==
    ASSUME SeqTypeOK, SeqInv, NEW p \in Procs, NEW t \in Topics, NEW s,
           NextSeq(p, t, s)
    PROVE  /\ s \in Nat /\ s \notin issued[t]
           /\ issued' = [issued EXCEPT ![t] = @ \cup {s}]
           /\ SeqTypeOK'
           /\ SeqInv'
<1>1. CASE NextSeqCached(p, t, s)
  BY <1>1, NextSeqCachedSafe DEF NextSeqCached
<1>2. CASE NextSeqFetch(p, t, s)
  BY <1>2, NextSeqFetchSafe DEF NextSeqFetch
<1> QED
  BY <1>1, <1>2 DEF NextSeq

\* A failed INCRBY loses at most a batch, whether or not Redis applied it.
LEMMA NextSeqFailsSafe ==
    ASSUME SeqTypeOK, SeqInv, NEW p \in Procs, NEW t \in Topics, NextSeqFails(p, t)
    PROVE  SeqTypeOK' /\ SeqInv'
<1>1. PICK n \in Nat : redisSeq' = [redisSeq EXCEPT ![t] = @ + n]
  BY SeqAssumption DEF NextSeqFails
<1>2. ranges' = ranges /\ issued' = issued
  BY DEF NextSeqFails
<1>3. SeqTypeOK'
  BY <1>1, <1>2 DEF SeqTypeOK
<1>4. \A u \in Topics : 1 .. redisSeq[u] \subseteq 1 .. redisSeq'[u]
  BY <1>1 DEF SeqTypeOK
<1>5. \A q \in Procs, u \in Topics : Available(q, u)' = Available(q, u)
  BY <1>2 DEF Available
<1> QED
  BY <1>2, <1>3, <1>4, <1>5 DEF SeqInv

\* A process that dies gives its cached numbers up for good.
LEMMA DropRangesSafe ==
    ASSUME SeqTypeOK, SeqInv, NEW p \in Procs, DropRanges(p)
    PROVE  SeqTypeOK' /\ SeqInv'
<1>1. /\ redisSeq' = redisSeq /\ issued' = issued
      /\ ranges' = [x \in Procs \X Topics |-> IF x[1] = p THEN EmptyRange ELSE ranges[x]]
  BY DEF DropRanges
<1>2. SeqTypeOK'
  BY <1>1 DEF SeqTypeOK, EmptyRange, SeqRange
<1>3. \A q \in Procs, u \in Topics :
        Available(q, u)' = IF q = p THEN {} ELSE Available(q, u)
  BY <1>1 DEF Available, EmptyRange, SeqTypeOK
<1> QED
  BY <1>1, <1>2, <1>3 DEF SeqInv
===============================================================================
