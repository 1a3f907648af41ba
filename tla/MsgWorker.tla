----------------------------- MODULE MsgWorker -----------------------------
(***************************************************************************)
(* The upstream pipeline of internal/msgworker: the Kafka consumer loop    *)
(* (consumer.go), the message handler (MsgWorker.HandleMessage), sequence  *)
(* allocation (SeqGenerator) and the writes of MessageStorage, run by      *)
(* several MsgWorker processes of one consumer group.                      *)
(*                                                                         *)
(* One logical message is a member of Msgs: its (sender, client_msg_id).   *)
(* The same message may sit in the log several times, because the Gateway  *)
(* producer and the client both retry.                                     *)
(***************************************************************************)
EXTENDS SeqGenerator, Sequences, FiniteSets

CONSTANTS
    Partitions,      \* a set of partition numbers
    WorkerCount,     \* worker goroutines per process
    Msgs,
    Accounts,        \* users, and groups as owners of their one stored copy
    TopicOf,         \* TopicOf[m]
    KindOf,          \* KindOf[t]: "p2p", "group" or "system"
    PartitionOf,     \* PartitionOf[t]: the producer keys records by topic
    OwnersOf,        \* OwnersOf[m]: whose copies a save of m writes
    SenderOf,
    MembersOf,       \* MembersOf[m]: users whose conversation row m touches
    MentionsOf,      \* MentionsOf[m]: mentioned_user_ids (group messages)
    AgentEnabled,    \* agentPublisher # nil: message and event in one transaction
    MaxRetries, QueueCap, CommitBatchSize, PoolCap,
    NoProc, NoTask,  \* "no process owns it", "no message being handled"
    MaxLog, MaxCrashes, MaxMoves, MaxFaults   \* bounds of the model

ASSUME PipelineAssumption ==
    /\ Partitions \subseteq Nat
    /\ WorkerCount \in Nat \ {0}
    /\ TopicOf \in [Msgs -> Topics]
    /\ KindOf \in [Topics -> {"p2p", "group", "system"}]
    /\ PartitionOf \in [Topics -> Partitions]
    /\ OwnersOf \in [Msgs -> (SUBSET Accounts) \ {{}}]
    /\ SenderOf \in [Msgs -> Accounts]
    /\ MembersOf \in [Msgs -> SUBSET Accounts]
    /\ MentionsOf \in [Msgs -> SUBSET Accounts]
    /\ AgentEnabled \in BOOLEAN
    /\ MaxRetries \in Nat
    /\ QueueCap \in Nat
    /\ CommitBatchSize \in Nat \ {0}
    /\ PoolCap \in Nat \ {0}
    /\ {MaxLog, MaxCrashes, MaxMoves, MaxFaults} \subseteq Nat
    /\ NoProc \notin Procs

VARIABLES
    log,         \* log[p]: the records of Kafka partition p
    committed,   \* committed[p]: records below this position are committed
    pos,         \* pos[p]: records of p the current owner has fetched
    assign,      \* assign[p]: the process the group assigns p to
    status,      \* status[w]: "up", "stopping" (signal received) or "down"
    chan,        \* chan[th]: the work channel of a worker goroutine
    pc, cur, attempt, seq, dup,   \* the handler running in goroutine th
    pending,     \* pending[th]: processed messages whose offset is to commit
    rows,        \* MongoDB messages and inboxes
    mentions,    \* MongoDB mention_inboxes
    outbox,      \* MongoDB agent_event_outbox, as the attempts that wrote a row
    backup,      \* MongoDB topic_seqs: backup[t]
    convs,       \* PostgreSQL conversations: convs[u, t]
    dlq,         \* records written to the dead-letter topic
    pool,        \* pool[w]: delivery tasks in the push pool of process w
    done,        \* history: records for which handleMessage returned true
    lost,        \* history: records a process dropped without finishing them
    enqueued,    \* history: enqueued[m] counts delivery tasks submitted for m
    env          \* crashes, rebalances and injected faults so far

kafkaVars == <<log, committed, pos, assign>>
handlerVars == <<pc, cur, attempt, seq, dup>>
storeVars == <<rows, mentions, outbox, backup, convs>>
vars == <<seqVars, kafkaVars, status, chan, handlerVars, pending, storeVars,
          dlq, pool, done, lost, enqueued, env>>

Goroutines == 0 .. WorkerCount - 1
Threads == Procs \X Goroutines
Task == [part : Partitions, off : Nat, msg : Msgs]
Row == [owner : Accounts, topic : Topics, seq : Nat, msg : Msgs]
Attempt == [msg : Msgs, seq : Nat]
Conv == [lastSeq : Nat, lastRead : Nat, unread : Nat]
Steps == {"idle", "seq", "save", "mention", "backup", "upsert", "enqueue",
          "failed", "dlq", "done", "exit"}
Env == [{"crashes", "moves", "faults"} -> Nat]

TaskAt(p, i) == [part |-> p, off |-> i, msg |-> log[p][i]]
Topic(th) == TopicOf[cur[th].msg]

\* P2P and group saves share a transaction with the Agent event; system
\* notifications never do.
Transactional(m) == AgentEnabled /\ KindOf[TopicOf[m]] # "system"

Init ==
    /\ SeqInit
    /\ log = [p \in Partitions |-> <<>>]
    /\ committed = [p \in Partitions |-> 0]
    /\ pos = [p \in Partitions |-> 0]
    /\ assign = [p \in Partitions |-> NoProc]
    /\ status = [w \in Procs |-> "up"]
    /\ chan = [th \in Threads |-> <<>>]
    /\ pc = [th \in Threads |-> "idle"]
    /\ cur = [th \in Threads |-> NoTask]
    /\ attempt = [th \in Threads |-> 0]
    /\ seq = [th \in Threads |-> 0]
    /\ dup = [th \in Threads |-> FALSE]
    /\ pending = [th \in Threads |-> <<>>]
    /\ rows = {}
    /\ mentions = {}
    /\ outbox = {}
    /\ backup = [t \in Topics |-> 0]
    /\ convs = [x \in Accounts \X Topics |-> [lastSeq |-> 0, lastRead |-> 0, unread |-> 0]]
    /\ dlq = {}
    /\ pool = [w \in Procs |-> <<>>]
    /\ done = {}
    /\ lost = {}
    /\ enqueued = [m \in Msgs |-> 0]
    /\ env = [k \in {"crashes", "moves", "faults"} |-> 0]

\* An external call made by process w fails: every call may once the signal
\* handler has cancelled the context, otherwise the number is bounded.
Fault(w) ==
    \/ status[w] = "stopping" /\ UNCHANGED env
    \/ env["faults"] < MaxFaults /\ env' = [env EXCEPT !["faults"] = @ + 1]

-----------------------------------------------------------------------------
(* Kafka and the read loop                                                 *)

\* Gateway producer (or its retry) appends a record, keyed by topic.
Produce(m) ==
    LET p == PartitionOf[TopicOf[m]] IN
    /\ Len(log[p]) < MaxLog
    /\ log' = [log EXCEPT ![p] = Append(@, m)]
    /\ UNCHANGED <<seqVars, committed, pos, assign, status, chan, handlerVars,
                   pending, storeVars, dlq, pool, done, lost, enqueued, env>>

\* Mutant: the new owner resumes at the last committed record, not after it.
RebalanceRereads(p, w) ==
    /\ status[w] = "up"
    /\ assign[p] # w
    /\ assign[p] = NoProc \/ env["moves"] < MaxMoves
    /\ env' = [env EXCEPT !["moves"] = IF assign[p] = NoProc THEN @ ELSE @ + 1]
    /\ assign' = [assign EXCEPT ![p] = w]
    /\ pos' = [pos EXCEPT ![p] = committed[p] - 1]
    /\ UNCHANGED <<seqVars, log, committed, status, chan, handlerVars, pending,
                   storeVars, dlq, pool, done, lost, enqueued>>

\* The group coordinator gives p to process w, which resumes at the committed
\* offset.  The previous owner keeps what it already fetched.
Rebalance(p, w) ==
    /\ status[w] = "up"
    /\ assign[p] # w
    /\ assign[p] = NoProc \/ env["moves"] < MaxMoves
    /\ env' = [env EXCEPT !["moves"] = IF assign[p] = NoProc THEN @ ELSE @ + 1]
    /\ assign' = [assign EXCEPT ![p] = w]
    /\ pos' = [pos EXCEPT ![p] = committed[p]]
    /\ UNCHANGED <<seqVars, log, committed, status, chan, handlerVars, pending,
                   storeVars, dlq, pool, done, lost, enqueued>>

\* reader.ReadMessage has a record to return, and the read loop is not blocked
\* on a full work channel (a channel one above its capacity is the blocked send).
CanRead(w, p) ==
    /\ status[w] = "up"
    /\ assign[p] = w
    /\ pos[p] < Len(log[p])
    /\ \A g \in Goroutines : Len(chan[<<w, g>>]) <= QueueCap

WorkerOf(p) == p % WorkerCount

\* kafka-go's ReadMessage commits the offset of the record it returns when the
\* reader has a GroupID; Start then dispatches by partition.
Read(w, p) ==
    /\ CanRead(w, p)
    /\ pos' = [pos EXCEPT ![p] = @ + 1]
    /\ committed' = [committed EXCEPT ![p] = pos[p] + 1]
    /\ chan' = [chan EXCEPT ![<<w, WorkerOf(p)>>] = Append(@, TaskAt(p, pos[p] + 1))]
    /\ UNCHANGED <<seqVars, log, assign, status, handlerVars, pending, storeVars,
                   dlq, pool, done, lost, enqueued, env>>

\* That commit fails: ReadMessage returns an error instead of the record and
\* the loop continues with the next one.
ReadFails(w, p) ==
    /\ CanRead(w, p)
    /\ Fault(w)
    /\ pos' = [pos EXCEPT ![p] = @ + 1]
    /\ lost' = lost \cup {TaskAt(p, pos[p] + 1)}
    /\ UNCHANGED <<seqVars, log, committed, assign, status, chan, handlerVars,
                   pending, storeVars, dlq, pool, done, enqueued>>

-----------------------------------------------------------------------------
(* workerLoop                                                              *)

Take(th) ==
    /\ pc[th] = "idle"
    /\ chan[th] # <<>>
    /\ Len(pending[th]) < CommitBatchSize
    /\ cur' = [cur EXCEPT ![th] = Head(chan[th])]
    /\ chan' = [chan EXCEPT ![th] = Tail(@)]
    /\ pc' = [pc EXCEPT ![th] = "seq"]
    /\ UNCHANGED <<seqVars, kafkaVars, status, attempt, seq, dup, pending, storeVars, dlq,
                   pool, done, lost, enqueued, env>>

\* Offsets named by the messages of s, for partition p.
Offsets(s, p) == {s[i].off : i \in {j \in DOMAIN s : s[j].part = p}}

HighestOffset(s, p, default) ==
    LET top == {n \in Offsets(s, p) : \A k \in Offsets(s, p) : k <= n} IN
    IF top = {} THEN default ELSE CHOOSE n \in top : TRUE

CommittedWith(s) == [p \in Partitions |-> HighestOffset(s, p, committed[p])]

\* commit(): CommitMessages stores, per partition, the highest offset of the
\* batch, whatever was stored before; pending is emptied even if it fails.
CommitPending(th) ==
    /\ pc[th] = "idle"
    /\ pending[th] # <<>>
    /\ \/ committed' = CommittedWith(pending[th]) /\ UNCHANGED env
       \/ Fault(th[1]) /\ UNCHANGED committed
    /\ pending' = [pending EXCEPT ![th] = <<>>]
    /\ UNCHANGED <<seqVars, log, pos, assign, status, chan, handlerVars, storeVars,
                   dlq, pool, done, lost, enqueued>>

-----------------------------------------------------------------------------
(* HandleMessage, called up to MaxRetries + 1 times by handleMessage       *)

Goto(th, step) == pc' = [pc EXCEPT ![th] = step]

\* handleMessage returns: its local state is gone.
Return(th) ==
    /\ Goto(th, "idle")
    /\ cur' = [cur EXCEPT ![th] = NoTask]
    /\ attempt' = [attempt EXCEPT ![th] = 0]
    /\ seq' = [seq EXCEPT ![th] = 0]
    /\ dup' = [dup EXCEPT ![th] = FALSE]

AllocSeq(th) ==
    /\ pc[th] = "seq"
    /\ \E s \in {ranges[<<th[1], Topic(th)>>].next, redisSeq[Topic(th)] + 1} :
         /\ NextSeq(th[1], Topic(th), s)
         /\ seq' = [seq EXCEPT ![th] = s]
    /\ Goto(th, "save")
    /\ UNCHANGED <<kafkaVars, status, chan, cur, attempt, dup, pending, storeVars,
                   dlq, pool, done, lost, enqueued, env>>

\* Redis is unreachable.
AllocSeqFails(th) ==
    /\ pc[th] = "seq"
    /\ Fault(th[1])
    /\ NextSeqFails(th[1], Topic(th))
    /\ Goto(th, "failed")
    /\ UNCHANGED <<kafkaVars, status, chan, cur, attempt, seq, dup, pending,
                   storeVars, dlq, pool, done, lost, enqueued>>

\* The documents one save of m under sequence number s inserts.
Docs(owners, m, s) ==
    {[owner |-> o, topic |-> TopicOf[m], seq |-> s, msg |-> m] : o \in owners}

\* Mutant: no unique index on client_msg_id.
DuplicateSeqOnly(coll, d) ==
    \E r \in coll : r.owner = d.owner /\ r.topic = d.topic /\ r.seq = d.seq

\* Unique indexes (owner, topic, topic_seq) and (owner, client_msg_id).
DuplicateKey(coll, d) ==
    \E r \in coll :
        /\ r.owner = d.owner
        /\ (r.topic = d.topic /\ r.seq = d.seq) \/ r.msg = d.msg

SaveDocs(th) == Docs(OwnersOf[cur[th].msg], cur[th].msg, seq[th])
FreshDocs(th) == {d \in SaveDocs(th) : ~DuplicateKey(rows, d)}
Event(th) == [msg |-> cur[th].msg, seq |-> seq[th]]
EventDocs(th) == IF Transactional(cur[th].msg) THEN {Event(th)} ELSE {}

\* Mutant: HandleMessage does not return early on a duplicate.
AfterMentionAlways(d) == "backup"

\* Where HandleMessage continues after a save that returned isDuplicate = d:
\* mentions are saved either way, a duplicate is finished, a fresh one goes on.
AfterMention(d) == IF d THEN "done" ELSE "backup"
AfterSave(m, d) ==
    IF KindOf[TopicOf[m]] = "group" /\ MentionsOf[m] # {} THEN "mention" ELSE AfterMention(d)

SaveFresh(th) ==
    /\ pc[th] = "save"
    /\ FreshDocs(th) = SaveDocs(th)
    /\ rows' = rows \cup SaveDocs(th)
    /\ outbox' = outbox \cup EventDocs(th)
    /\ dup' = [dup EXCEPT ![th] = FALSE]
    /\ Goto(th, AfterSave(cur[th].msg, FALSE))
    /\ UNCHANGED <<seqVars, kafkaVars, status, chan, cur, attempt, seq, pending,
                   mentions, backup, convs, dlq, pool, done, lost, enqueued, env>>

\* Mutant: the event is written for a duplicate as well.
SaveDuplicateEnqueues(th) ==
    /\ pc[th] = "save"
    /\ FreshDocs(th) # SaveDocs(th)
    /\ rows' = IF Transactional(cur[th].msg) THEN rows ELSE rows \cup FreshDocs(th)
    /\ outbox' = outbox \cup EventDocs(th)
    /\ dup' = [dup EXCEPT ![th] = TRUE]
    /\ Goto(th, AfterSave(cur[th].msg, TRUE))
    /\ UNCHANGED <<seqVars, kafkaVars, status, chan, cur, attempt, seq, pending,
                   mentions, backup, convs, dlq, pool, done, lost, enqueued, env>>

\* Every write error is a duplicate key.  The transaction aborts; outside one,
\* the unordered insert has stored the other copies.
SaveDuplicate(th) ==
    /\ pc[th] = "save"
    /\ FreshDocs(th) # SaveDocs(th)
    /\ rows' = IF Transactional(cur[th].msg) THEN rows ELSE rows \cup FreshDocs(th)
    /\ dup' = [dup EXCEPT ![th] = TRUE]
    /\ Goto(th, AfterSave(cur[th].msg, TRUE))
    /\ UNCHANGED <<seqVars, kafkaVars, status, chan, cur, attempt, seq, pending,
                   mentions, outbox, backup, convs, dlq, pool, done, lost,
                   enqueued, env>>

\* Mutant: a failed save is logged and the handler goes on.
SaveFailsLogged(th) ==
    /\ pc[th] = "save"
    /\ Fault(th[1])
    /\ Goto(th, "backup")
    /\ UNCHANGED <<seqVars, kafkaVars, status, chan, cur, attempt, seq, dup,
                   pending, storeVars, dlq, pool, done, lost, enqueued>>

\* MongoDB reports an error.  A transaction may still have committed; an
\* unordered insert may have stored any of its documents.
SaveFails(th) ==
    /\ pc[th] = "save"
    /\ Fault(th[1])
    /\ \/ UNCHANGED <<rows, outbox>>
       \/ /\ Transactional(cur[th].msg)
          /\ FreshDocs(th) = SaveDocs(th)
          /\ rows' = rows \cup SaveDocs(th)
          /\ outbox' = outbox \cup EventDocs(th)
       \/ /\ ~Transactional(cur[th].msg)
          /\ \E stored \in SUBSET FreshDocs(th) : rows' = rows \cup stored
          /\ UNCHANGED outbox
    /\ Goto(th, "failed")
    /\ UNCHANGED <<seqVars, kafkaVars, status, chan, cur, attempt, seq, dup,
                   pending, mentions, backup, convs, dlq, pool, done, lost,
                   enqueued>>

MentionDocs(th) ==
    {d \in Docs(MentionsOf[cur[th].msg], cur[th].msg, seq[th]) :
        ~DuplicateKey(mentions, d)}

\* SaveMentionInbox: an unordered insert outside the transaction; duplicates
\* are ignored and any other error is only logged.
SaveMentions(th) ==
    /\ pc[th] = "mention"
    /\ \/ mentions' = mentions \cup MentionDocs(th) /\ UNCHANGED env
       \/ Fault(th[1]) /\ \E stored \in SUBSET MentionDocs(th) : mentions' = mentions \cup stored
    /\ Goto(th, AfterMention(dup[th]))
    /\ UNCHANGED <<seqVars, kafkaVars, status, chan, cur, attempt, seq, dup,
                   pending, rows, outbox, backup, convs, dlq, pool, done, lost,
                   enqueued>>

\* Mutant: the end of the cached range is backed up instead of the message's seq.
BackupSeqOfRange(th) ==
    /\ pc[th] = "backup"
    /\ backup' = [backup EXCEPT ![Topic(th)] = ranges[<<th[1], Topic(th)>>].max]
    /\ Goto(th, "upsert")
    /\ UNCHANGED <<seqVars, kafkaVars, status, chan, cur, attempt, seq, dup,
                   pending, rows, mentions, outbox, convs, dlq, pool, done, lost,
                   enqueued, env>>

\* BackupTopicSeq: $max, errors are only logged.
BackupSeq(th) ==
    /\ pc[th] = "backup"
    /\ \/ /\ backup' = [backup EXCEPT ![Topic(th)] = IF seq[th] > @ THEN seq[th] ELSE @]
          /\ UNCHANGED env
       \/ Fault(th[1]) /\ UNCHANGED backup
    /\ Goto(th, "upsert")
    /\ UNCHANGED <<seqVars, kafkaVars, status, chan, cur, attempt, seq, dup,
                   pending, rows, mentions, outbox, convs, dlq, pool, done, lost,
                   enqueued>>

\* UpsertConversation of one user's row: the sender has read everything up to
\* the message, anyone else has one more unread message.
Upserted(c, u, m, s) ==
    IF u = SenderOf[m]
    THEN [lastSeq |-> s, lastRead |-> s, unread |-> 0]
    ELSE [lastSeq |-> s, lastRead |-> c.lastRead, unread |-> c.unread + 1]

\* upsertConversations: one row per affected user.  A row may be skipped: errors
\* are only logged, and of two handlers inserting a new row at once the loser's
\* update is dropped.  System topics have no summary.
UpsertConversations(th) ==
    LET m == cur[th].msg
        users == IF KindOf[TopicOf[m]] = "system" THEN {} ELSE MembersOf[m] IN
    /\ pc[th] = "upsert"
    /\ \E ok \in SUBSET users :
         /\ IF ok = users THEN UNCHANGED env ELSE Fault(th[1])
         /\ convs' = [x \in Accounts \X Topics |->
                        IF x[1] \in ok /\ x[2] = TopicOf[m]
                        THEN Upserted(convs[x], x[1], m, seq[th]) ELSE convs[x]]
    /\ Goto(th, "enqueue")
    /\ UNCHANGED <<seqVars, kafkaVars, status, chan, cur, attempt, seq, dup,
                   pending, rows, mentions, outbox, backup, dlq, pool, done, lost,
                   enqueued>>

\* The handler blocks until the push pool has room.
EnqueueDelivery(th) ==
    /\ pc[th] = "enqueue"
    /\ Len(pool[th[1]]) < PoolCap
    /\ pool' = [pool EXCEPT ![th[1]] = Append(@, Event(th))]
    /\ enqueued' = [enqueued EXCEPT ![cur[th].msg] = @ + 1]
    /\ Goto(th, "done")
    /\ UNCHANGED <<seqVars, kafkaVars, status, chan, cur, attempt, seq, dup,
                   pending, storeVars, dlq, done, lost, env>>

\* handleMessage returned true: workerLoop appends to pending.
Finish(th) ==
    /\ pc[th] = "done"
    /\ pending' = [pending EXCEPT ![th] = Append(@, cur[th])]
    /\ done' = done \cup {cur[th]}
    /\ Return(th)
    /\ UNCHANGED <<seqVars, kafkaVars, status, chan, storeVars, dlq, pool, lost,
                   enqueued, env>>

\* Mutant: handleMessage reports success when its attempts are used up.
RetryOrGiveUpSilently(th) ==
    /\ pc[th] = "failed"
    /\ attempt[th] < MaxRetries => status[th[1]] = "up"
    /\ IF attempt[th] < MaxRetries
       THEN attempt' = [attempt EXCEPT ![th] = @ + 1] /\ Goto(th, "seq")
       ELSE UNCHANGED attempt /\ Goto(th, "done")
    /\ UNCHANGED <<seqVars, kafkaVars, status, chan, cur, seq, dup, pending,
                   storeVars, dlq, pool, done, lost, enqueued, env>>

\* The attempt loop of handleMessage: back off and try again, or give up.
RetryOrGiveUp(th) ==
    /\ pc[th] = "failed"
    /\ attempt[th] < MaxRetries => status[th[1]] = "up"
    /\ IF attempt[th] < MaxRetries
       THEN attempt' = [attempt EXCEPT ![th] = @ + 1] /\ Goto(th, "seq")
       ELSE UNCHANGED attempt /\ Goto(th, "dlq")
    /\ UNCHANGED <<seqVars, kafkaVars, status, chan, cur, seq, dup, pending,
                   storeVars, dlq, pool, done, lost, enqueued, env>>

SendToDLQ(th) ==
    /\ pc[th] = "dlq"
    /\ dlq' = dlq \cup {cur[th]}
    /\ Goto(th, "done")
    /\ UNCHANGED <<seqVars, kafkaVars, status, chan, cur, attempt, seq, dup,
                   pending, storeVars, pool, done, lost, enqueued, env>>

\* The dead-letter write fails (or times out after reaching Kafka): the record
\* is left out of pending and the goroutine goes on with the next one.
SendToDLQFails(th) ==
    /\ pc[th] = "dlq"
    /\ Fault(th[1])
    /\ dlq' \in {dlq, dlq \cup {cur[th]}}
    /\ lost' = lost \cup {cur[th]}
    /\ Return(th)
    /\ UNCHANGED <<seqVars, kafkaVars, status, chan, pending, storeVars, pool, done,
                   enqueued>>

\* Mutant: push workers leave at the signal, before the consumer has drained.
PushWorkerLeavesEarly(w) ==
    /\ status[w] = "up"
    /\ pool[w] # <<>>
    /\ pool' = [pool EXCEPT ![w] = Tail(@)]
    /\ UNCHANGED <<seqVars, kafkaVars, status, chan, handlerVars, pending,
                   storeVars, dlq, done, lost, enqueued, env>>

\* A push worker takes a delivery task (deliverMessage is module Delivery).
PushWorkerTake(w) ==
    /\ pool[w] # <<>>
    /\ pool' = [pool EXCEPT ![w] = Tail(@)]
    /\ UNCHANGED <<seqVars, kafkaVars, status, chan, handlerVars, pending,
                   storeVars, dlq, done, lost, enqueued, env>>

-----------------------------------------------------------------------------
(* Shutdown, crash and restart of a process                                *)

Held(th) == {chan[th][i] : i \in DOMAIN chan[th]}
                \cup (IF pc[th] \in {"idle", "exit"} THEN {} ELSE {cur[th]})

\* main receives SIGTERM and cancels the context of worker.Start.
StopSignal(w) ==
    /\ status[w] = "up"
    /\ env["crashes"] < MaxCrashes
    /\ env' = [env EXCEPT !["crashes"] = @ + 1]
    /\ status' = [status EXCEPT ![w] = "stopping"]
    /\ UNCHANGED <<seqVars, kafkaVars, chan, handlerVars, pending, storeVars, dlq,
                   pool, done, lost, enqueued>>

\* handleMessage is backing off when the context ends: it returns false.
InterruptRetry(th) ==
    /\ status[th[1]] = "stopping"
    /\ pc[th] = "failed"
    /\ attempt[th] < MaxRetries
    /\ lost' = lost \cup {cur[th]}
    /\ Return(th)
    /\ UNCHANGED <<seqVars, kafkaVars, status, chan, pending, storeVars, dlq, pool,
                   done, enqueued, env>>

\* workerLoop sees ctx.Done between two messages: it tries a last commit and
\* leaves the rest of its channel unread.
WorkerExit(th) ==
    /\ status[th[1]] = "stopping"
    /\ pc[th] = "idle"
    /\ committed' \in {committed, CommittedWith(pending[th])}
    /\ lost' = lost \cup Held(th)
    /\ chan' = [chan EXCEPT ![th] = <<>>]
    /\ pending' = [pending EXCEPT ![th] = <<>>]
    /\ Goto(th, "exit")
    /\ UNCHANGED <<seqVars, log, pos, assign, status, cur, attempt, seq, dup,
                   storeVars, dlq, pool, done, enqueued, env>>

\* The process is gone, and everything it kept in memory with it.
Vanish(w) ==
    /\ status' = [status EXCEPT ![w] = "down"]
    /\ assign' = [p \in Partitions |-> IF assign[p] = w THEN NoProc ELSE assign[p]]
    /\ lost' = lost \cup UNION {Held(th) : th \in {w} \X Goroutines}
    /\ chan' = [th \in Threads |-> IF th[1] = w THEN <<>> ELSE chan[th]]
    /\ pc' = [th \in Threads |-> IF th[1] = w THEN "idle" ELSE pc[th]]
    /\ cur' = [th \in Threads |-> IF th[1] = w THEN NoTask ELSE cur[th]]
    /\ attempt' = [th \in Threads |-> IF th[1] = w THEN 0 ELSE attempt[th]]
    /\ seq' = [th \in Threads |-> IF th[1] = w THEN 0 ELSE seq[th]]
    /\ dup' = [th \in Threads |-> IF th[1] = w THEN FALSE ELSE dup[th]]
    /\ pending' = [th \in Threads |-> IF th[1] = w THEN <<>> ELSE pending[th]]
    /\ pool' = [pool EXCEPT ![w] = <<>>]
    /\ DropRanges(w)
    /\ UNCHANGED <<log, committed, pos, storeVars, dlq, done, enqueued>>

\* consumer.Start returns once its workers have, then MsgWorker.Stop closes
\* pushStopCh: a push worker may leave with tasks still in the pool.
Halt(w) ==
    /\ status[w] = "stopping"
    /\ \A g \in Goroutines : pc[<<w, g>>] = "exit"
    /\ Vanish(w)
    /\ UNCHANGED env

Crash(w) ==
    /\ status[w] # "down"
    /\ env["crashes"] < MaxCrashes
    /\ env' = [env EXCEPT !["crashes"] = @ + 1]
    /\ Vanish(w)

Restart(w) ==
    /\ status[w] = "down"
    /\ status' = [status EXCEPT ![w] = "up"]
    /\ UNCHANGED <<seqVars, kafkaVars, chan, handlerVars, pending, storeVars, dlq,
                   pool, done, lost, enqueued, env>>

-----------------------------------------------------------------------------
\* What goroutine th does when every call it makes succeeds.
Progress(th) ==
    \/ Take(th) \/ CommitPending(th) \/ AllocSeq(th) \/ SaveFresh(th)
    \/ SaveDuplicate(th) \/ SaveMentions(th) \/ BackupSeq(th)
    \/ UpsertConversations(th) \/ EnqueueDelivery(th) \/ Finish(th)
    \/ RetryOrGiveUp(th) \/ SendToDLQ(th) \/ InterruptRetry(th) \/ WorkerExit(th)

Failure(th) == AllocSeqFails(th) \/ SaveFails(th) \/ SendToDLQFails(th)

Next ==
    \/ \E m \in Msgs : Produce(m)
    \/ \E w \in Procs, p \in Partitions : Rebalance(p, w) \/ Read(w, p) \/ ReadFails(w, p)
    \/ \E th \in Threads : Progress(th) \/ Failure(th)
    \/ \E w \in Procs : PushWorkerTake(w) \/ StopSignal(w) \/ Halt(w) \/ Crash(w) \/ Restart(w)

Spec == Init /\ [][Next]_vars

\* Go schedules every runnable goroutine, the group coordinator assigns every
\* partition to a live member, and a supervisor restarts a dead process.
Fairness ==
    /\ \A th \in Threads : WF_vars(Progress(th))
    /\ \A w \in Procs : WF_vars(PushWorkerTake(w)) /\ WF_vars(Halt(w)) /\ WF_vars(Restart(w))
    /\ \A p \in Partitions : WF_vars(\E w \in Procs : Read(w, p))
    /\ \A p \in Partitions : WF_vars(assign[p] = NoProc /\ \E w \in Procs : Rebalance(p, w))

FairSpec == Spec /\ Fairness
-----------------------------------------------------------------------------
(* Properties                                                              *)

KafkaTypeOK ==
    /\ log \in [Partitions -> Seq(Msgs)]
    /\ committed \in [Partitions -> Nat]
    /\ pos \in [Partitions -> Nat]
    /\ assign \in [Partitions -> Procs \cup {NoProc}]

ProcTypeOK ==
    /\ status \in [Procs -> {"up", "stopping", "down"}]
    /\ chan \in [Threads -> Seq(Task)]
    /\ pending \in [Threads -> Seq(Task)]
    /\ pool \in [Procs -> Seq(Attempt)]
    /\ env \in Env

HandlerTypeOK ==
    /\ pc \in [Threads -> Steps]
    /\ cur \in [Threads -> Task \cup {NoTask}]
    /\ attempt \in [Threads -> Nat]
    /\ seq \in [Threads -> Nat]
    /\ dup \in [Threads -> BOOLEAN]

StoreTypeOK ==
    /\ rows \subseteq Row
    /\ mentions \subseteq Row
    /\ outbox \subseteq Attempt
    /\ backup \in [Topics -> Nat]
    /\ convs \in [Accounts \X Topics -> Conv]

HistoryTypeOK ==
    /\ dlq \subseteq Task
    /\ done \subseteq Task
    /\ lost \subseteq Task
    /\ enqueued \in [Msgs -> Nat]

TypeOK == SeqTypeOK /\ KafkaTypeOK /\ ProcTypeOK /\ HandlerTypeOK /\ StoreTypeOK /\ HistoryTypeOK

HasCopy(o, m) == \E r \in rows : r.owner = o /\ r.msg = m
Stored(m) == \A o \in OwnersOf[m] : HasCopy(o, m)

\* A record for which handleMessage returned true, the only ones workerLoop
\* puts up for commit, is stored for every owner or is in the dead-letter
\* topic: in particular a save that reported "duplicate" never hides a fresh
\* message behind a sequence number somebody else already used.
HandledIsDurable == \A k \in done : Stored(k.msg) \/ k \in dlq

\* No message is submitted for delivery twice, whatever is redelivered, retried
\* or handled by two processes at once, and none is submitted before its copies
\* are stored.
DeliveredAtMostOnce ==
    \A m \in Msgs : enqueued[m] <= 1 /\ (enqueued[m] = 1 => Stored(m))

\* Two copies of one message carry the same topic_seq, and two messages of one
\* topic never share one.
CopiesAgree ==
    \A r, q \in rows : r.topic = q.topic => (r.seq = q.seq <=> r.msg = q.msg)

\* A message is stored exactly when one Agent event of the same attempt is in
\* the outbox, although every attempt draws a new msg_id and event_id.
OutboxMatchesStore ==
    \A m \in Msgs : Transactional(m) =>
        {e.seq : e \in {e \in outbox : e.msg = m}} = {r.seq : r \in {r \in rows : r.msg = m}}

\* unread_count never exceeds the messages of others stored in the topic:
\* redelivery and retries do not count a message twice.
UnreadNotOvercounted ==
    \A u \in Accounts, t \in Topics :
        convs[<<u, t>>].unread <=
            Cardinality({m \in Msgs : TopicOf[m] = t /\ SenderOf[m] # u /\ Stored(m)})

\* The MongoDB backup names a topic_seq that a stored message carries: it never
\* runs ahead of the store, whichever process wrote it last.
BackupIsStored ==
    \A t \in Topics : backup[t] > 0 => \E r \in rows : r.topic = t /\ r.seq = backup[t]

\* No topic_seq is handed out twice within a topic, whatever the processes,
\* crashes and lost INCRBY replies.
SeqNeverReused ==
    [][\A th \in Threads : AllocSeq(th) => seq'[th] \notin issued[Topic(th)]]_vars

Accepted == UNION {{log[p][i] : i \in 1 .. Len(log[p])} : p \in Partitions}

Service == INSTANCE MessageService WITH
               accepted <- Accepted,
               stored <- {m \in Msgs : Stored(m)},
               handed <- enqueued

\* The pipeline implements the service it promises: store once, hand to
\* delivery once and only after storing, store only what was accepted.
ImplementsService == Service!SvcSpec

\* Every record of the log is eventually finished (stored, duplicate or
\* dead-lettered) unless a process dropped it on one of the paths recorded in
\* lost; the work channel, the push pool and the retry loop never wedge.
EveryRecordSettles ==
    \A p \in Partitions : \A i \in 1 .. MaxLog :
        (Len(log[p]) >= i) ~> (\E k \in done \cup lost : k.part = p /\ k.off = i)

-----------------------------------------------------------------------------
(* The inductive invariant behind the safety properties                    *)

Active(th) == pc[th] \notin {"idle", "exit"}
Records == UNION {{TaskAt(p, i) : i \in 1 .. Len(log[p])} : p \in Partitions}

\* th saved a message that was new and has not yet submitted its delivery.
CarriesFresh(th) ==
    pc[th] \in {"backup", "upsert", "enqueue"} \/ (pc[th] = "mention" /\ ~dup[th])

\* What is being handled, or waits to be, is a record of the log.
TasksInv ==
    \A th \in Threads :
        /\ Active(th) => cur[th] \in Records
        /\ \A i \in 1 .. Len(chan[th]) : chan[th][i] \in Records

\* A stored row carries an issued number; a goroutine about to save holds an
\* issued number that no row and no other goroutine of the topic holds.
HeldSeqInv ==
    /\ \A r \in rows : r.topic = TopicOf[r.msg] /\ r.seq \in issued[r.topic]
    /\ \A th \in Threads : pc[th] = "save" =>
         /\ seq[th] \in issued[Topic(th)]
         /\ \A r \in rows : ~(r.topic = Topic(th) /\ r.seq = seq[th])
         /\ \A other \in Threads :
              (other # th /\ pc[other] = "save" /\ Topic(other) = Topic(th))
                  => seq[other] # seq[th]

\* A transaction stores all copies of a message or none, and the steps after
\* the save are reached only with the message stored.
StoredInv ==
    /\ \A m \in Msgs : Transactional(m) /\ (\E o \in OwnersOf[m] : HasCopy(o, m)) => Stored(m)
    /\ \A th \in Threads :
         /\ pc[th] = "mention" \/ CarriesFresh(th) => Stored(cur[th].msg)
         /\ pc[th] = "done" => Stored(cur[th].msg) \/ cur[th] \in dlq
    /\ HandledIsDurable

\* At most one goroutine carries a fresh message, and only before its delivery.
DeliveryInv ==
    /\ \A th \in Threads : CarriesFresh(th) =>
         /\ enqueued[cur[th].msg] = 0
         /\ \A other \in Threads :
              (other # th /\ CarriesFresh(other)) => cur[other].msg # cur[th].msg
    /\ DeliveredAtMostOnce

\* The conjunction that every step of every goroutine preserves.
PipelineInv ==
    TypeOK /\ SeqInv /\ TasksInv /\ HeldSeqInv /\ StoredInv /\ DeliveryInv

-----------------------------------------------------------------------------
(* What the documentation says, where the code does otherwise              *)

\* What README.md claims of topic_seq: it grows monotonically within a topic.
TopicSeqMonotonic ==
    [][\A th \in Threads : AllocSeq(th) => \A n \in issued[Topic(th)] : n < seq'[th]]_vars

\* What consumer.go claims of commits: an offset is committed only when its
\* record was handled.
CommittedIsHandled ==
    \A p \in Partitions : \A i \in 1 .. committed[p] : TaskAt(p, i) \in done

\* What msgworker.go claims of SaveMentionInbox: calling it again for a duplicate
\* is safe, so a mention carries the topic_seq of the group message it is about.
MentionMatchesMessage ==
    \A d \in mentions : \E r \in rows : r.msg = d.msg /\ r.seq = d.seq

=============================================================================
