---------------------------- MODULE SeqGenerator ----------------------------
(***************************************************************************)
(* internal/msgworker/seq.go: topic-scoped sequence numbers.  Redis holds  *)
(* one counter per topic (key im:seq:<topic>); every MsgWorker process     *)
(* takes BatchSize numbers at a time with INCRBY and hands them out of a   *)
(* locally cached range.  NextSeq runs under the range's mutex, so one     *)
(* call is one step.                                                       *)
(***************************************************************************)
EXTENDS Integers

CONSTANTS Procs,      \* MsgWorker processes
          Topics,
          BatchSize   \* defaultSeqBatchSize

ASSUME SeqAssumption == BatchSize \in Nat \ {0}

VARIABLES redisSeq,   \* redisSeq[t]: value of the Redis key im:seq:<t>
          ranges,     \* ranges[<<p, t>>]: the seqRange process p caches for t
          issued      \* history: issued[t] is every number NextSeq returned

seqVars == <<redisSeq, ranges, issued>>

SeqRange == [next : Nat, max : Nat]

\* The zero value LoadOrStore installs on first use: next = 0 means "empty".
EmptyRange == [next |-> 0, max |-> 0]

SeqInit ==
    /\ redisSeq = [t \in Topics |-> 0]
    /\ ranges = [x \in Procs \X Topics |-> EmptyRange]
    /\ issued = [t \in Topics |-> {}]

\* sr.next > 0 && sr.next <= sr.max
Cached(p, t) == ranges[<<p, t>>].next > 0 /\ ranges[<<p, t>>].next <= ranges[<<p, t>>].max

\* Mutant: the cached range is not advanced.
NextSeqCachedStuck(p, t, s) ==
    /\ Cached(p, t)
    /\ s = ranges[<<p, t>>].next
    /\ issued' = [issued EXCEPT ![t] = @ \cup {s}]
    /\ UNCHANGED <<redisSeq, ranges>>

NextSeqCached(p, t, s) ==
    /\ Cached(p, t)
    /\ s = ranges[<<p, t>>].next
    /\ ranges' = [ranges EXCEPT ![<<p, t>>] = [next |-> s + 1, max |-> @.max]]
    /\ issued' = [issued EXCEPT ![t] = @ \cup {s}]
    /\ UNCHANGED redisSeq

\* Mutant: the first number of the batch is computed without the + 1.
NextSeqFetchOffByOne(p, t, s) ==
    LET endSeq == redisSeq[t] + BatchSize IN
    /\ ~Cached(p, t)
    /\ redisSeq' = [redisSeq EXCEPT ![t] = endSeq]
    /\ s = endSeq - BatchSize
    /\ ranges' = [ranges EXCEPT ![<<p, t>>] = [next |-> s + 1, max |-> endSeq]]
    /\ issued' = [issued EXCEPT ![t] = @ \cup {s}]

\* The cache is exhausted: INCRBY BatchSize returns endSeq.
NextSeqFetch(p, t, s) ==
    LET endSeq == redisSeq[t] + BatchSize IN
    /\ ~Cached(p, t)
    /\ redisSeq' = [redisSeq EXCEPT ![t] = endSeq]
    /\ s = endSeq - BatchSize + 1
    /\ ranges' = [ranges EXCEPT ![<<p, t>>] = [next |-> s + 1, max |-> endSeq]]
    /\ issued' = [issued EXCEPT ![t] = @ \cup {s}]

NextSeq(p, t, s) == NextSeqCached(p, t, s) \/ NextSeqFetch(p, t, s)

\* INCRBY fails; the increment may or may not have reached Redis.
NextSeqFails(p, t) ==
    /\ ~Cached(p, t)
    /\ \E lost \in {0, BatchSize} : redisSeq' = [redisSeq EXCEPT ![t] = @ + lost]
    /\ UNCHANGED <<ranges, issued>>

\* A process that dies takes its cached ranges with it.
DropRanges(p) ==
    /\ ranges' = [x \in Procs \X Topics |->
                    IF x[1] = p THEN EmptyRange ELSE ranges[x]]
    /\ UNCHANGED <<redisSeq, issued>>

-----------------------------------------------------------------------------
SeqTypeOK ==
    /\ redisSeq \in [Topics -> Nat]
    /\ ranges \in [Procs \X Topics -> SeqRange]
    /\ issued \in [Topics -> SUBSET Nat]

\* The numbers process p can still hand out for t without asking Redis.
Available(p, t) ==
    IF ranges[<<p, t>>].next > 0 THEN ranges[<<p, t>>].next .. ranges[<<p, t>>].max ELSE {}

\* Everything cached or handed out came out of the counter, a cached number
\* has not been handed out, and no two processes cache the same number.
SeqInv ==
    /\ \A t \in Topics : issued[t] \subseteq 1 .. redisSeq[t]
    /\ \A p \in Procs, t \in Topics :
         /\ Available(p, t) \subseteq 1 .. redisSeq[t]
         /\ Available(p, t) \cap issued[t] = {}
    /\ \A p, q \in Procs, t \in Topics :
         p # q => Available(p, t) \cap Available(q, t) = {}
=============================================================================
