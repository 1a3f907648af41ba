------------------------------ MODULE Delivery ------------------------------
(***************************************************************************)
(* The downstream half of internal/msgworker: push workers deliver a       *)
(* stored message to the gateways that host its recipients (msgworker.go,  *)
(* pusher.go, router.go and the gateways' service/push.go), and what fails *)
(* goes through the retry queue all processes share in Redis (retry.go).   *)
(*                                                                         *)
(* A user has at most one socket per gateway here, and the Redis index     *)
(* names the gateways whose heartbeat is alive.                            *)
(***************************************************************************)
EXTENDS Naturals, Sequences, FiniteSets

CONSTANTS
    Procs,              \* MsgWorker processes
    Users, Nodes, Msgs,
    BatchesOf,          \* BatchesOf[m]: the user sets pushed one after another
    IsGroup,            \* IsGroup[m]: the last batch needs the member list
    StaticNode,         \* the one gateway main passes to NewGatewayPusher
    NoNode, NoTicket,
    MaxRetryAttempts,
    RetryWorkers, RetryBatch, PushWorkers,
    MaxEvents           \* bounds faults, session changes and crashes together

ASSUME DeliveryAssumption ==
    /\ StaticNode \in Nodes /\ NoNode \notin Nodes
    /\ \A m \in Msgs : \A i \in 1 .. Len(BatchesOf[m]) : BatchesOf[m][i] \in SUBSET Users \ {{}}
    /\ IsGroup \in [Msgs -> BOOLEAN]
    /\ MaxRetryAttempts \in Nat \ {0}
    /\ {RetryWorkers, RetryBatch, PushWorkers} \subseteq Nat \ {0}
    /\ MaxEvents \in Nat

VARIABLES
    todo,       \* todo[w]: delivery tasks in the push pool of process w
    status,     \* status[w]: "up", "stopping" (context cancelled) or "down"
    jobs,       \* deliverMessage and processRetryTask calls in progress
    fetched,    \* fetched[w]: members the current scan of w has read
    receipts,   \* send receipts handed to the receipt batchers
    queue,      \* the Redis sorted set im:push_retry
    used,       \* history: every member ever added to it
    conns,      \* conns[u]: gateways that hold a live socket of u
    index,      \* index[u]: gateways the Redis session index names for u
    cache,      \* cache[<<w, u>>]: the L1 session cache of w's router
    got,        \* history: got[<<u, m>>] counts sockets that accepted m
    reports,    \* history: reports[<<u, m>>] counts members added at count 0
    retried,    \* history: retried[<<u, m>>] counts retry pushes
    murky,      \* history: pushes whose failure report may hide a success
    gone,       \* history: deliveries given up, or lost on a named path
    events      \* faults, session changes and crashes so far

procVars == <<todo, status, jobs, fetched, receipts>>
redisVars == <<queue, used>>
sessionVars == <<conns, index, cache>>
histVars == <<got, reports, retried, murky, gone>>
vars == <<procVars, redisVars, sessionVars, histVars, events>>

Pairs == Users \X Msgs
Ticket == [user : Users, msg : Msgs, count : 0 .. MaxRetryAttempts - 1, stamp : Nat]
Job == [proc : Procs, msg : Msgs, ticket : Ticket \cup {NoTicket},
        batches : Seq(SUBSET Users), step : {"route", "push"}, err : BOOLEAN,
        static : BOOLEAN, targets : SUBSET (Nodes \X Users),
        failed : SUBSET ((Nodes \cup {NoNode}) \X Users)]

NewJob(w, m, t, batches) ==
    [proc |-> w, msg |-> m, ticket |-> t, batches |-> batches, step |-> "route",
     err |-> FALSE, static |-> FALSE, targets |-> {}, failed |-> {}]

Retries(w) == {j \in jobs : j.proc = w /\ j.ticket # NoTicket}
Deliveries(w) == {j \in jobs : j.proc = w /\ j.ticket = NoTicket}
Replace(j, k) == jobs' = (jobs \ {j}) \cup {k}
Remove(j) == jobs' = jobs \ {j}

Init ==
    /\ todo \in [Procs -> SUBSET Msgs]
    /\ \A m \in Msgs : Cardinality({w \in Procs : m \in todo[w]}) = 1
    /\ status = [w \in Procs |-> "up"]
    /\ jobs = {}
    /\ fetched = [w \in Procs |-> {}]
    /\ receipts = {} /\ queue = {} /\ used = {}
    /\ conns \in [Users -> SUBSET Nodes]
    /\ index = conns
    /\ cache = [x \in Procs \X Users |-> {}]
    /\ got = [x \in Pairs |-> 0]
    /\ reports = [x \in Pairs |-> 0]
    /\ retried = [x \in Pairs |-> 0]
    /\ murky = {} /\ gone = {}
    /\ events = 0

\* Something outside the processes' control happens: a call fails, a device
\* moves, a process dies.
Event == events < MaxEvents /\ events' = events + 1

\* The retry loop runs under the context main cancels at shutdown, deliveries
\* run under one of their own.
CallFails(j) ==
    \/ j.ticket # NoTicket /\ status[j.proc] = "stopping" /\ UNCHANGED events
    \/ Event

-----------------------------------------------------------------------------
(* GatewayPusher.BatchPushToUsers: the same for deliveries and retries     *)

\* pushWorkerLoop takes a task and calls deliverMessage.
DeliverMessage(w, m) ==
    /\ status[w] # "down"
    /\ m \in todo[w]
    /\ Cardinality(Deliveries(w)) < PushWorkers
    /\ todo' = [todo EXCEPT ![w] = @ \ {m}]
    /\ jobs' = jobs \cup {NewJob(w, m, NoTicket, BatchesOf[m])}
    /\ UNCHANGED <<receipts, status, fetched, redisVars, sessionVars, histVars, events>>

\* ResolveUserNodesWithNodes: a cached route is used while it names a node;
\* otherwise the session index is read.
NodesFor(w, u) == IF cache[<<w, u>>] # {} THEN cache[<<w, u>>] ELSE index[u]

\* Mutant: users without a session are not reported failed.
RouteSkipsOffline(j) ==
    LET us == Head(j.batches)
        w == j.proc IN
    /\ j.step = "route"
    /\ Replace(j, [j EXCEPT
         !.step = "push",
         !.targets = {x \in Nodes \X us : x[1] \in NodesFor(w, x[2])}])
    /\ cache' = [x \in Procs \X Users |->
                    IF x[1] = w /\ x[2] \in us THEN NodesFor(w, x[2]) ELSE cache[x]]
    /\ murky' = murky \cup {<<u, j.msg>> : u \in {v \in us : Cardinality(NodesFor(w, v)) > 1}}
    /\ UNCHANGED <<receipts, todo, status, fetched, redisVars, conns, index, got, reports,
                   retried, gone, events>>

Route(j) ==
    LET us == Head(j.batches)
        w == j.proc IN
    /\ j.step = "route"
    /\ Replace(j, [j EXCEPT
         !.step = "push",
         !.targets = {x \in Nodes \X us : x[1] \in NodesFor(w, x[2])},
         !.failed = {<<NoNode, u>> : u \in {v \in us : NodesFor(w, v) = {}}}])
    /\ cache' = [x \in Procs \X Users |->
                    IF x[1] = w /\ x[2] \in us THEN NodesFor(w, x[2]) ELSE cache[x]]
    /\ murky' = murky \cup {<<u, j.msg>> : u \in {v \in us : Cardinality(NodesFor(w, v)) > 1}}
    /\ UNCHANGED <<receipts, todo, status, fetched, redisVars, conns, index, got, reports,
                   retried, gone, events>>

\* Redis does not answer the router: batchPushStatic sends to the one
\* configured gateway.
RouteFails(j) ==
    /\ j.step = "route"
    /\ CallFails(j)
    /\ Replace(j, [j EXCEPT !.step = "push", !.static = TRUE,
                            !.targets = {StaticNode} \X Head(j.batches)])
    /\ UNCHANGED <<receipts, todo, status, fetched, redisVars, sessionVars, histVars>>

\* The users whose sockets took the message, one more push each.
Accept(us, m) ==
    got' = [x \in Pairs |-> IF x[1] \in us /\ x[2] = m THEN got[x] + 1 ELSE got[x]]

Aimed(j, n) == {u \in Users : <<n, u>> \in j.targets}
Reachable(j, n) == {u \in Aimed(j, n) : n \in conns[u]}
Others(j, n) == {x \in j.targets : x[1] # n}

\* The gateway answers: batchPushConcurrent reports every user none of whose
\* sockets took the message (its send buffer may be full) as failed.
PushNode(j, n) ==
    /\ j.step = "push"
    /\ Aimed(j, n) # {}
    /\ \E ok \in SUBSET Reachable(j, n) :
         /\ IF ok = Reachable(j, n) THEN UNCHANGED events ELSE Event
         /\ Accept(ok, j.msg)
         /\ Replace(j, [j EXCEPT !.targets = Others(j, n),
                                 !.failed = @ \cup {<<n, u>> : u \in Aimed(j, n) \ ok}])
    /\ UNCHANGED <<receipts, todo, status, fetched, redisVars, sessionVars, reports, retried,
                   murky, gone>>

\* The gRPC call fails: any user may have received the message, all are
\* reported failed.
PushNodeFails(j, n) ==
    /\ j.step = "push"
    /\ Aimed(j, n) # {}
    /\ CallFails(j)
    /\ \E ok \in SUBSET Reachable(j, n) : Accept(ok, j.msg)
    /\ murky' = murky \cup {<<u, j.msg>> : u \in Aimed(j, n)}
    /\ Replace(j, [j EXCEPT !.targets = Others(j, n), !.err = j.static,
                            !.failed = @ \cup {<<n, u>> : u \in Aimed(j, n)}])
    /\ UNCHANGED <<receipts, todo, status, fetched, redisVars, sessionVars, reports, retried,
                   gone>>

Pushed(j) == j.step = "push" /\ j.targets = {}

-----------------------------------------------------------------------------
(* deliverMessage after a batch                                            *)

\* Members added so far for one user, message and retry count.
Earlier(u, m, c) == {t \in used : t.user = u /\ t.msg = m /\ t.count = c}

\* What enqueueItem may add: the member carries retry_at, so a second ZADD within
\* the same second is a member still waiting in the queue, a later one is new.
Members(u, m, c) ==
    {t \in queue : t.user = u /\ t.msg = m /\ t.count = c}
        \cup {[user |-> u, msg |-> m, count |-> c, stamp |-> Cardinality(Earlier(u, m, c))]}

Enqueue(t) ==
    /\ queue' = queue \cup {t}
    /\ used' = used \cup {t}

\* handleFailedPushes: ScheduleRetry for one entry of the failed list, which
\* names a user once for every gateway that failed.
ScheduleRetry(j, x) ==
    /\ Pushed(j) /\ j.ticket = NoTicket /\ ~j.err
    /\ x \in j.failed
    /\ \E t \in Members(x[2], j.msg, 0) :
         /\ Enqueue(t)
         /\ reports' = [reports EXCEPT ![<<x[2], j.msg>>] = IF t \in queue THEN @ ELSE @ + 1]
    /\ Replace(j, [j EXCEPT !.failed = @ \ {x}])
    /\ UNCHANGED <<receipts, todo, status, fetched, sessionVars, got, retried, murky, gone, events>>

\* Redis refuses the ZADD and the error is only logged.  (When only the reply is
\* lost, the member is there: that is ScheduleRetry.)
ScheduleRetryFails(j, x) ==
    /\ Pushed(j) /\ j.ticket = NoTicket /\ ~j.err
    /\ x \in j.failed
    /\ Event
    /\ gone' = gone \cup {<<x[2], j.msg>>}
    /\ Replace(j, [j EXCEPT !.failed = @ \ {x}])
    /\ UNCHANGED <<receipts, todo, status, fetched, redisVars, sessionVars, got, reports,
                   retried, murky>>

\* Mutant: deliverGroupMessage returns after the mentioned users.
NextBatchReturns(j) ==
    /\ Pushed(j) /\ j.ticket = NoTicket
    /\ j.err \/ j.failed = {}
    /\ gone' = gone \cup (IF j.err THEN Head(j.batches) \X {j.msg} ELSE {})
    /\ Remove(j) /\ receipts' = receipts \cup {j.msg}
    /\ UNCHANGED <<todo, status, fetched, redisVars, sessionVars, got, reports,
                   retried, murky, events>>

\* Mutant: the receipt is submitted before the remaining batches.
NextBatchReceiptFirst(j) ==
    /\ Pushed(j) /\ j.ticket = NoTicket
    /\ j.err \/ j.failed = {}
    /\ gone' = gone \cup (IF j.err THEN Head(j.batches) \X {j.msg} ELSE {})
    /\ receipts' = receipts \cup {j.msg}
    /\ IF Len(j.batches) = 1
       THEN Remove(j)
       ELSE Replace(j, NewJob(j.proc, j.msg, NoTicket, Tail(j.batches)))
    /\ UNCHANGED <<todo, status, fetched, redisVars, sessionVars, got, reports,
                   retried, murky, events>>

\* The batch is over: the next one starts, or deliverMessage submits the send
\* receipt and returns.  An error of the static push is only logged: nobody is
\* scheduled for a retry.
NextBatch(j) ==
    /\ Pushed(j) /\ j.ticket = NoTicket
    /\ j.err \/ j.failed = {}
    /\ gone' = gone \cup (IF j.err THEN Head(j.batches) \X {j.msg} ELSE {})
    /\ IF Len(j.batches) = 1
       THEN Remove(j) /\ receipts' = receipts \cup {j.msg}
       ELSE Replace(j, NewJob(j.proc, j.msg, NoTicket, Tail(j.batches))) /\ UNCHANGED receipts
    /\ UNCHANGED <<todo, status, fetched, redisVars, sessionVars, got, reports,
                   retried, murky, events>>

\* GetGroupMembers fails: deliverGroupMessage returns without the second batch
\* and without a receipt.
MembersUnknown(j) ==
    /\ j.step = "route" /\ j.ticket = NoTicket
    /\ IsGroup[j.msg] /\ Len(j.batches) = 1
    /\ Event
    /\ gone' = gone \cup (Head(j.batches) \X {j.msg})
    /\ Remove(j)
    /\ UNCHANGED <<receipts, todo, status, fetched, redisVars, sessionVars, got, reports,
                   retried, murky>>

-----------------------------------------------------------------------------
(* The retry loop                                                          *)

\* Mutant: the loop waits until it can fetch a full batch.
ScanFullBatch(w) ==
    /\ status[w] = "up"
    /\ fetched[w] = {} /\ Retries(w) = {}
    /\ \E due \in SUBSET queue :
         /\ Cardinality(due) = RetryBatch
         /\ fetched' = [fetched EXCEPT ![w] = due]
    /\ UNCHANGED <<receipts, todo, status, jobs, redisVars, sessionVars, histVars, events>>

\* processRetries reads overdue members, at most RetryBatch.  Which ones are
\* overdue is up to the clock.
Scan(w) ==
    /\ status[w] = "up"
    /\ fetched[w] = {} /\ Retries(w) = {}
    /\ \E due \in SUBSET queue :
         /\ due # {} /\ Cardinality(due) <= RetryBatch
         /\ fetched' = [fetched EXCEPT ![w] = due]
    /\ UNCHANGED <<receipts, todo, status, jobs, redisVars, sessionVars, histVars, events>>

StartRetry(w, t) ==
    /\ jobs' = jobs \cup {NewJob(w, t.msg, t, <<{t.user}>>)}
    /\ retried' = [retried EXCEPT ![<<t.user, t.msg>>] = @ + 1]

\* Mutant: the result of ZREM is not looked at.
ClaimRegardless(w, t) ==
    /\ status[w] # "down"
    /\ t \in fetched[w]
    /\ Cardinality(Retries(w)) < RetryWorkers
    /\ fetched' = [fetched EXCEPT ![w] = @ \ {t}]
    /\ queue' = queue \ {t}
    /\ StartRetry(w, t)
    /\ UNCHANGED <<receipts, todo, status, used, sessionVars, got, reports, murky, gone, events>>

\* Mutant: the member is removed only when the push is over.
ClaimLate(w, t) ==
    /\ status[w] # "down"
    /\ t \in fetched[w]
    /\ Cardinality(Retries(w)) < RetryWorkers
    /\ fetched' = [fetched EXCEPT ![w] = @ \ {t}]
    /\ IF t \in queue /\ t.count < MaxRetryAttempts
       THEN StartRetry(w, t) ELSE UNCHANGED <<jobs, retried>>
    /\ UNCHANGED <<receipts, todo, status, queue, used, sessionVars, got, reports, murky,
                   gone, events>>

\* processRetryTask: whoever removes the member processes it.
Claim(w, t) ==
    /\ status[w] # "down"
    /\ t \in fetched[w]
    /\ Cardinality(Retries(w)) < RetryWorkers
    /\ fetched' = [fetched EXCEPT ![w] = @ \ {t}]
    /\ queue' = queue \ {t}
    /\ IF t \in queue /\ t.count < MaxRetryAttempts
       THEN StartRetry(w, t) ELSE UNCHANGED <<jobs, retried>>
    /\ UNCHANGED <<receipts, todo, status, used, sessionVars, got, reports, murky, gone, events>>

\* ZREM fails (it may have taken effect), or the scan is cut short by a
\* shutdown: the member is not processed.
ClaimFails(w, t) ==
    /\ t \in fetched[w]
    /\ \/ status[w] = "stopping" /\ UNCHANGED events
       \/ status[w] = "up" /\ Event
    /\ fetched' = [fetched EXCEPT ![w] = @ \ {t}]
    /\ queue' \in {queue, queue \ {t}}
    /\ gone' = gone \cup {<<x.user, x.msg>> : x \in queue \ queue'}
    /\ UNCHANGED <<receipts, todo, status, jobs, used, sessionVars, got, reports, retried, murky>>

RetryFailed(j) == Pushed(j) /\ j.ticket # NoTicket /\ (j.err \/ j.failed # {})

RetrySucceeded(j) ==
    /\ Pushed(j) /\ j.ticket # NoTicket
    /\ ~j.err /\ j.failed = {}
    /\ Remove(j)
    /\ UNCHANGED <<receipts, todo, status, fetched, redisVars, sessionVars, histVars, events>>

\* Mutant: the attempt count is not incremented.
RequeueSameCount(j) ==
    /\ RetryFailed(j)
    /\ j.ticket.count < MaxRetryAttempts - 1
    /\ \E t \in Members(j.ticket.user, j.msg, j.ticket.count) : Enqueue(t)
    /\ Remove(j)
    /\ UNCHANGED <<receipts, todo, status, fetched, sessionVars, histVars, events>>

\* Mutant: one attempt too many.
RequeueOneMore(j) ==
    /\ RetryFailed(j)
    /\ j.ticket.count < MaxRetryAttempts
    /\ \E t \in Members(j.ticket.user, j.msg, j.ticket.count + 1) : Enqueue(t)
    /\ Remove(j)
    /\ UNCHANGED <<receipts, todo, status, fetched, sessionVars, histVars, events>>

\* requeueIfNeeded with attempts left.
Requeue(j) ==
    /\ RetryFailed(j)
    /\ j.ticket.count < MaxRetryAttempts - 1
    /\ \E t \in Members(j.ticket.user, j.msg, j.ticket.count + 1) : Enqueue(t)
    /\ Remove(j)
    /\ UNCHANGED <<receipts, todo, status, fetched, sessionVars, histVars, events>>

\* requeueIfNeeded drops the push: the attempts are used up, or ZADD fails.
GiveUp(j) ==
    /\ RetryFailed(j)
    /\ IF j.ticket.count >= MaxRetryAttempts - 1 THEN UNCHANGED events ELSE CallFails(j)
    /\ gone' = gone \cup {<<j.ticket.user, j.msg>>}
    /\ Remove(j)
    /\ UNCHANGED <<receipts, todo, status, fetched, redisVars, sessionVars, got, reports,
                   retried, murky>>

-----------------------------------------------------------------------------
(* Sessions, caches and processes                                          *)

\* A device connects to, or leaves, a gateway; the index follows.
SessionStart(u, n) ==
    /\ n \notin conns[u]
    /\ Event
    /\ conns' = [conns EXCEPT ![u] = @ \cup {n}]
    /\ index' = [index EXCEPT ![u] = @ \cup {n}]
    /\ UNCHANGED <<procVars, redisVars, cache, histVars>>

\* The index entry may outlive the socket: a gateway crashed.
SessionEnd(u, n) ==
    /\ n \in conns[u]
    /\ Event
    /\ conns' = [conns EXCEPT ![u] = @ \ {n}]
    /\ index' \in {index, [index EXCEPT ![u] = @ \ {n}]}
    /\ UNCHANGED <<procVars, redisVars, cache, histVars>>

\* The TTL of the index entry, or of the node's heartbeat, runs out.
SessionExpires(u, n) ==
    /\ n \in index[u] \ conns[u]
    /\ index' = [index EXCEPT ![u] = @ \ {n}]
    /\ UNCHANGED <<procVars, redisVars, conns, cache, histVars, events>>

\* A Pub/Sub event arrives, or the TTL of the cache entry runs out.
Invalidate(w, u) ==
    /\ cache[<<w, u>>] # {}
    /\ cache' = [cache EXCEPT ![<<w, u>>] = {}]
    /\ UNCHANGED <<procVars, redisVars, conns, index, histVars, events>>

StopSignal(w) ==
    /\ status[w] = "up"
    /\ Event
    /\ status' = [status EXCEPT ![w] = "stopping"]
    /\ UNCHANGED <<receipts, todo, jobs, fetched, redisVars, sessionVars, histVars>>

Recipients(m) == UNION {BatchesOf[m][i] : i \in 1 .. Len(BatchesOf[m])}

\* The users a job still owes a push or a retry entry.
Owed(j) == (IF j.step = "route" THEN {} ELSE {x[2] : x \in j.targets \cup j.failed})
               \cup UNION {j.batches[i] : i \in (IF j.step = "route" THEN 1 ELSE 2) .. Len(j.batches)}

Vanish(w) ==
    /\ status' = [status EXCEPT ![w] = "down"]
    /\ jobs' = {j \in jobs : j.proc # w}
    /\ fetched' = [fetched EXCEPT ![w] = {}]
    /\ todo' = [todo EXCEPT ![w] = {}]
    /\ cache' = [x \in Procs \X Users |-> IF x[1] = w THEN {} ELSE cache[x]]
    /\ gone' = gone \cup UNION {Owed(j) \X {j.msg} : j \in jobs \ jobs'}
                    \cup UNION {Recipients(m) \X {m} : m \in todo[w]}
    /\ UNCHANGED <<receipts, redisVars, conns, index, got, reports, retried, murky>>

\* MsgWorker.Stop waits for the retry loop and the push workers.
Halt(w) ==
    /\ status[w] = "stopping"
    /\ fetched[w] = {}
    /\ \A j \in jobs : j.proc # w
    /\ Vanish(w)
    /\ UNCHANGED events

Crash(w) ==
    /\ status[w] # "down"
    /\ Event
    /\ Vanish(w)

Restart(w) ==
    /\ status[w] = "down"
    /\ status' = [status EXCEPT ![w] = "up"]
    /\ UNCHANGED <<receipts, todo, jobs, fetched, redisVars, sessionVars, histVars, events>>

-----------------------------------------------------------------------------
\* A step of a job when nothing it calls fails.
JobStep(j) ==
    \/ Route(j) \/ NextBatch(j) \/ RetrySucceeded(j) \/ Requeue(j) \/ GiveUp(j)
    \/ \E n \in Nodes : PushNode(j, n)
    \/ \E x \in j.failed : ScheduleRetry(j, x)

JobFails(j) ==
    \/ RouteFails(j) \/ MembersUnknown(j)
    \/ \E n \in Nodes : PushNodeFails(j, n)
    \/ \E x \in j.failed : ScheduleRetryFails(j, x)

RetryLoop(w) == Scan(w) \/ \E t \in fetched[w] : Claim(w, t) \/ ClaimFails(w, t)

Next ==
    \/ \E j \in jobs : JobStep(j) \/ JobFails(j)
    \/ \E w \in Procs :
         \/ RetryLoop(w) \/ StopSignal(w) \/ Halt(w) \/ Crash(w) \/ Restart(w)
         \/ \E m \in Msgs : DeliverMessage(w, m)
         \/ \E u \in Users : Invalidate(w, u)
    \/ \E u \in Users, n \in Nodes :
         SessionStart(u, n) \/ SessionEnd(u, n) \/ SessionExpires(u, n)

Spec == Init /\ [][Next]_vars

\* Go schedules every runnable goroutine and a supervisor restarts a dead
\* process; nothing is assumed of gateways, sessions or caches.
Fairness ==
    \A w \in Procs :
        /\ WF_vars(\E j \in jobs : j.proc = w /\ JobStep(j))
        /\ WF_vars(\E m \in Msgs : DeliverMessage(w, m))
        /\ WF_vars(RetryLoop(w))
        /\ WF_vars(Halt(w))
        /\ WF_vars(Restart(w))

FairSpec == Spec /\ Fairness

-----------------------------------------------------------------------------
(* Properties                                                              *)

TypeOK ==
    /\ todo \in [Procs -> SUBSET Msgs]
    /\ status \in [Procs -> {"up", "stopping", "down"}]
    /\ jobs \subseteq Job /\ receipts \subseteq Msgs
    /\ fetched \in [Procs -> SUBSET Ticket]
    /\ queue \subseteq used /\ used \subseteq Ticket
    /\ conns \in [Users -> SUBSET Nodes]
    /\ index \in [Users -> SUBSET Nodes]
    /\ cache \in [Procs \X Users -> SUBSET Nodes]
    /\ got \in [Pairs -> Nat] /\ reports \in [Pairs -> Nat] /\ retried \in [Pairs -> Nat]
    /\ murky \subseteq Pairs /\ gone \subseteq Pairs
    /\ events \in Nat

\* A member of the retry queue is processed by at most one goroutine of one
\* process, and is out of the queue while it is: ZREM decides, although every
\* process scans the same set and a member may sit in several scans.
ClaimedOnce ==
    /\ \A j, k \in jobs : (j.ticket # NoTicket /\ j.ticket = k.ticket) => j = k
    /\ \A j \in jobs : j.ticket \notin queue

\* A user's sockets take a message twice only if one push went to several
\* gateways or a gRPC call failed after it may have taken effect: scans of
\* several processes, stale routes, crashes and restarts never repeat a push
\* that was reported delivered.
NoDuplicatePush == \A x \in Pairs : got[x] > 1 => x \in murky

\* Each member added for a failed push leads to at most maxRetryAttempts retry
\* pushes, counted over all processes.
RetryBudget == \A x \in Pairs : retried[x] <= MaxRetryAttempts * reports[x]

InProgress(u, m) ==
    \/ \E t \in queue : t.user = u /\ t.msg = m
    \/ \E j \in jobs : j.msg = m /\ u \in Owed(j)

\* A recipient of a message whose delivery has begun has received it, is still
\* owed a push or a retry, or is in gone (retries used up, a crash, a failed
\* Redis, PostgreSQL or static push): no interleaving forgets anybody.
NobodyForgotten ==
    \A m \in Msgs : (\A w \in Procs : m \notin todo[w]) =>
        \A u \in Recipients(m) : got[<<u, m>>] > 0 \/ InProgress(u, m) \/ <<u, m>> \in gone

\* The sender's receipt is submitted only when every recipient has received the
\* message, waits in the retry queue or is in a retry, or is in gone: a receipt
\* never precedes a push that is still to be attempted.
ReceiptAfterPushes ==
    \A m \in receipts : \A u \in Recipients(m) :
        \/ got[<<u, m>>] > 0 \/ <<u, m>> \in gone
        \/ \E t \in queue \cup {j.ticket : j \in jobs} : t # NoTicket /\ t.user = u /\ t.msg = m

\* Deliveries and retries come to an end: users who stay offline do not keep the
\* queue alive, and no scan, worker pool or shutdown gets stuck.
DeliveriesEnd == <>[](jobs = {} /\ queue = {} /\ \A w \in Procs : todo[w] = {})
=============================================================================
