------------------------------ MODULE Realtime ------------------------------
(***************************************************************************)
(* RealtimeClient of web/app/lib/realtime.ts, the one object that owns the *)
(* web socket, and the effect of useRealtime that connects it whenever the *)
(* token in authStore changes.                                             *)
(*                                                                         *)
(* Every doConnect that gets past its first line has a slot of its own:    *)
(* the gateway lookup, then the socket with its listeners, then the auth   *)
(* exchange and, for an expired token, the refresh.  The fields of the     *)
(* object are the fields of the record rt; a method is an operator from    *)
(* one such record to the next, so that a task that calls several methods  *)
(* is one action.  Promise reactions run at the end of the task that       *)
(* settles the promise.  Delays are left out: a timer fires at any time.   *)
(***************************************************************************)
EXTENDS Integers, FiniteSets

CONSTANTS
    Slots,        \* doConnect calls at the same time: 1 .. n
    MaxTokens,    \* bound on the access tokens issued
    MaxFailures,  \* bound on lookups, answers and connections lost
    ErrorEvents   \* may a socket fail with an error event

ASSUME RealtimeAssumption ==
    /\ Slots = 1 .. Cardinality(Slots) /\ Slots # {}
    /\ MaxTokens \in Nat /\ MaxFailures \in Nat
    /\ ErrorEvents \in BOOLEAN

VARIABLES
    rt,       \* the RealtimeClient, with its sockets and promises
    conn,     \* chatStore.connectionState
    mounted,  \* the token the effect of useRealtime last ran for
    store,    \* the token in authStore
    issued,   \* tokens issued so far
    expired,  \* tokens the gateway refuses
    leaving,  \* forceReLogin has sent the browser to the login page
    failures  \* lookups, answers and connections lost so far
vars == <<rt, conn, mounted, store, issued, expired, leaving, failures>>
env == <<store, issued, expired, leaving, failures>>

None == 0
NoSlot == [st |-> "free", on |-> FALSE, auth |-> "no", told |-> FALSE]

Fresh ==
    [ws |-> None, token |-> 0, closed |-> FALSE, didTokenRefresh |-> FALSE,
     reconnectTimer |-> FALSE, heartbeat |-> FALSE, heartbeatTimeout |-> FALSE,
     authResolver |-> None, pending |-> {}, asked |-> {}, served |-> {},
     sock |-> [s \in Slots |-> NoSlot], failed |-> FALSE]

(* sock: a slot is "lookup" while getGateway runs, then the socket's       *)
(* readyState ("aborting": closed before it opened), "refreshing" while it *)
(* waits for refreshAuth; on tells whether the listeners are attached,     *)
(* auth is the promise of sendAuth and told whether connect's caller still *)
(* waits.  asked holds the auth packets under way: the socket, the slot    *)
(* whose promise it belongs to and the token; served, at the gateway, the  *)
(* sockets that are authenticated.  failed notes that a waiting caller of  *)
(* connect has been rejected in this task.  The resolver of the AuthResponse *)
(* belongs to a pending request, and the deadline of a heartbeat to a      *)
(* running one.                                                            *)
TypeOK ==
    /\ rt \in [ws : Slots \cup {None}, token : 0 .. MaxTokens, closed : BOOLEAN,
               didTokenRefresh : BOOLEAN, reconnectTimer : BOOLEAN, heartbeat : BOOLEAN,
               heartbeatTimeout : BOOLEAN, authResolver : Slots \cup {None},
               pending : SUBSET Slots, asked : SUBSET (Slots \X Slots \X (0 .. MaxTokens)),
               served : SUBSET Slots,
               sock : [Slots -> [st : {"free", "lookup", "connecting", "open", "closing",
                                       "aborting", "refreshing"},
                                 on : BOOLEAN, auth : {"no", "wait", "ok", "failed"},
                                 told : BOOLEAN]],
               failed : {FALSE}]
    /\ conn \in {"disconnected", "connecting", "connected", "authed", "reconnecting"}
    /\ {mounted, store} \subseteq 0 .. issued
    /\ issued \in 0 .. MaxTokens /\ expired \subseteq 1 .. MaxTokens
    /\ leaving \in BOOLEAN /\ failures \in 0 .. MaxFailures
    /\ rt.authResolver \in rt.pending \cup {None}
    /\ rt.heartbeatTimeout => rt.heartbeat
-----------------------------------------------------------------------------
(* A slot nothing refers to any more can be used again.                    *)
Unused(c) ==
    {s \in Slots : /\ c.sock[s].st = "free" /\ s \notin c.pending /\ c.ws # s
                   /\ c.authResolver # s
                   /\ \A a \in c.asked : s \notin {a[1], a[2]}}
FirstUnused(c) == CHOOSE s \in Unused(c) : \A t \in Unused(c) : s <= t

(* The promises of sendAuth of the slots in S are rejected, with an error  *)
(* that is not about the token; connect's caller shows "disconnected".     *)
Reject(c, S) ==
    LET waiting == {s \in S \cap Slots : c.sock[s].auth = "wait"}
    IN [c EXCEPT !.sock = [s \in Slots |-> IF s \in waiting
                              THEN [c.sock[s] EXCEPT !.auth = "failed", !.told = FALSE]
                              ELSE c.sock[s]],
                 !.failed = @ \/ \E s \in waiting : c.sock[s].told]

\* Mutant: the resolver stays.
RejectPendingKeepsResolver(c) ==
    [Reject(c, c.pending \cup {c.authResolver}) EXCEPT !.pending = {}]
RejectPending(c) ==
    [Reject(c, c.pending \cup {c.authResolver}) EXCEPT !.pending = {}, !.authResolver = None]

StopHeartbeat(c) == [c EXCEPT !.heartbeat = FALSE, !.heartbeatTimeout = FALSE]

\* Mutant: no heartbeat.
StartHeartbeatNever(c) == StopHeartbeat(c)
StartHeartbeat(c) == [StopHeartbeat(c) EXCEPT !.heartbeat = TRUE]
ClearTimers(c) == [StopHeartbeat(c) EXCEPT !.reconnectTimer = FALSE]

(* WebSocket.close.                                                        *)
CloseSocket(c, s) ==
    IF s = None THEN c
    ELSE [c EXCEPT !.sock[s].st = CASE @ = "open" -> "closing"
                                    [] @ = "connecting" -> "aborting"
                                    [] OTHER -> @]

Cleanup(c, s) == [c EXCEPT !.sock[s].on = FALSE]

ScheduleReconnect(c) == IF c.closed THEN c ELSE [c EXCEPT !.reconnectTimer = TRUE]

\* Mutant: no reconnect.
HandleDisconnectNoRetry(c) == [RejectPending(StopHeartbeat(c)) EXCEPT !.ws = None]
HandleDisconnect(c) ==
    ScheduleReconnect([RejectPending(StopHeartbeat(c)) EXCEPT !.ws = None])

Disconnect(c) ==
    LET q == RejectPending(ClearTimers([c EXCEPT !.closed = TRUE]))
    IN [CloseSocket(q, q.ws) EXCEPT !.ws = None]

(* doConnect up to the await of getGateway.  A closed client resolves.     *)
DoConnect(c, told) ==
    IF c.closed THEN c
    ELSE [c EXCEPT !.sock[FirstUnused(c)] =
             [st |-> "lookup", on |-> FALSE, auth |-> "no", told |-> told]]
CanConnect(c) == c.closed \/ Unused(c) # {}

IsConnected(c) == c.ws # None /\ c.sock[c.ws].st = "open"

Connect(c, tok) ==
    IF IsConnected(c) THEN c
    ELSE DoConnect([c EXCEPT !.token = tok, !.closed = FALSE, !.didTokenRefresh = FALSE], TRUE)

(* sendAuth: the promise, its entry in pending, and the packet, which goes *)
(* to the socket the client holds at this moment, if that is open.         *)
SendAuth(c, s) ==
    [c EXCEPT !.sock[s].auth = "wait", !.authResolver = s, !.pending = @ \cup {s},
              !.asked = @ \cup (IF IsConnected(c) THEN {<<c.ws, s, c.token>>} ELSE {})]

(* A socket that ends takes the packets on it along.  A closed socket the  *)
(* client still refers to is as good as none.                              *)
Ended(c, s) ==
    [c EXCEPT !.sock[s].st = "free", !.ws = IF @ = s THEN None ELSE @,
              !.asked = {a \in c.asked : a[1] # s}, !.served = @ \ {s}]
-----------------------------------------------------------------------------
(* What the store shows after a task that leaves the client as c: the last *)
(* event the task dispatched, then the catch of a rejected connect.        *)
Become(c, shown) ==
    /\ rt' = [c EXCEPT !.failed = FALSE]
    /\ conn' = IF c.failed THEN "disconnected" ELSE shown

(* An event reaches the store while the effect's handlers are attached.    *)
Dispatch(event) == IF mounted = 0 THEN conn ELSE event

(* scheduleReconnect dispatches "reconnecting" unless a timer runs.        *)
AfterDisconnect(c) ==
    IF c.closed \/ c.reconnectTimer THEN "disconnected" ELSE "reconnecting"

Init ==
    /\ rt = Fresh /\ conn = "disconnected"
    /\ mounted = 0 /\ store = 0 /\ issued = 0 /\ expired = {}
    /\ leaving = FALSE /\ failures = 0

(* The effect of useRealtime: the cleanup of the last run disconnects, the *)
(* new run connects with the new token or, without one, disconnects.       *)
EffectRun ==
    /\ mounted # store
    /\ LET c == IF mounted = 0 /\ store # 0 THEN rt ELSE Disconnect(rt)
       IN /\ store # 0 => CanConnect([c EXCEPT !.closed = FALSE])
          /\ IF store = 0 THEN Become(c, conn)
             ELSE Become(Connect(c, store), IF IsConnected(c) THEN "authed" ELSE "connecting")
    /\ mounted' = store
    /\ UNCHANGED env

(* getGateway answers: the socket is created and becomes the client's.     *)
GatewayFound(s) ==
    /\ rt.sock[s].st = "lookup"
    /\ Become([rt EXCEPT !.ws = s, !.sock[s].st = "connecting", !.sock[s].on = TRUE], conn)
    /\ UNCHANGED <<mounted, env>>

(* getGateway fails: try again later, and reject.                          *)
GatewayFailed(s) ==
    /\ rt.sock[s].st = "lookup" /\ failures < MaxFailures
    /\ failures' = failures + 1
    /\ LET c == [rt EXCEPT !.sock[s] = NoSlot, !.failed = rt.sock[s].told]
       IN Become(ScheduleReconnect(c),
                 IF rt.closed \/ rt.reconnectTimer THEN conn ELSE Dispatch("reconnecting"))
    /\ UNCHANGED <<mounted, store, issued, expired, leaving>>

(* onOpen: authenticate.                                                   *)
Open(s) ==
    /\ rt.sock[s].st = "connecting"
    /\ LET c == [rt EXCEPT !.sock[s].st = "open"]
       IN IF rt.sock[s].on THEN Become(SendAuth(c, s), Dispatch("connected")) ELSE Become(c, conn)
    /\ UNCHANGED <<mounted, env>>

(* AuthResponse: it settles the latest sendAuth, whichever socket it came  *)
(* on; then the client is authenticated and the heartbeat starts.  The     *)
(* gateway keeps one socket per device and closes the ones before.         *)
AuthAccepted(a) ==
    LET w == rt.authResolver
        c == [rt EXCEPT !.asked = @ \ {a}, !.served = {a[1]},
                        !.sock = [s \in Slots |-> IF s \in rt.served
                                     THEN [rt.sock[s] EXCEPT !.st = "closing"]
                                     ELSE rt.sock[s]]]
    IN /\ a \in rt.asked /\ a[3] \notin expired
       /\ rt.sock[a[1]].st = "open" /\ a[1] \notin rt.served
       /\ IF rt.sock[a[1]].on /\ w # None
          THEN Become(StartHeartbeat([c EXCEPT !.authResolver = None, !.sock[w].auth = "ok",
                                               !.sock[w].told = FALSE]),
                      IF rt.sock[w].told THEN "authed" ELSE Dispatch("authed"))
          ELSE Become(c, conn)
       /\ UNCHANGED <<mounted, env>>

(* A second auth packet on an authenticated socket has no answer.          *)
AuthIgnored(a) ==
    /\ a \in rt.asked /\ (a[1] \in rt.served \/ rt.sock[a[1]].st # "open")
    /\ Become([rt EXCEPT !.asked = @ \ {a}], conn)
    /\ UNCHANGED <<mounted, env>>

(* The error packet of a refused token, matched by its sequence number.    *)
(* The first time the socket is closed and the token refreshed; the second *)
(* time the caller is told and nothing else happens.                       *)
AuthRefused(a) ==
    LET by == a[2]
        c == [rt EXCEPT !.asked = @ \ {a}, !.pending = @ \ {by},
                        !.authResolver = IF @ = by THEN None ELSE @]
        handled == rt.sock[a[1]].on /\ by \in rt.pending
        waits == rt.sock[by].auth = "wait"
    IN /\ a \in rt.asked /\ a[3] \in expired
       /\ rt.sock[a[1]].st = "open" /\ a[1] \notin rt.served
       /\ \/ ~handled /\ Become([rt EXCEPT !.asked = @ \ {a}], conn)
          \/ handled /\ ~waits /\ Become(c, conn)
          \/ handled /\ waits /\ c.didTokenRefresh /\ Become(Reject(c, {by}), conn)
          \/ /\ handled /\ waits /\ ~c.didTokenRefresh
             /\ Become([Ended(c, by) EXCEPT !.didTokenRefresh = TRUE, !.ws = None,
                           !.sock[by] = [st |-> "refreshing", on |-> FALSE,
                                         auth |-> "failed", told |-> @.told]], conn)
       /\ UNCHANGED <<mounted, env>>

(* No answer within ten seconds, because there is none or it is lost.  The *)
(* code leaves authResolver behind; the resolver of a settled promise does *)
(* nothing, so it is none here.                                            *)
AnswerPending(s) == \E a \in rt.asked : a[2] = s
AuthTimesOut(s) ==
    /\ s \in rt.pending
    /\ LET c == [rt EXCEPT !.pending = @ \ {s}, !.asked = {a \in @ : a[2] # s}]
       IN Become([Reject(c, {s}) EXCEPT !.authResolver = IF @ = s THEN None ELSE @], conn)
    /\ UNCHANGED <<mounted, store, issued, expired, leaving>>
AuthUnanswered(s) == ~AnswerPending(s) /\ AuthTimesOut(s) /\ UNCHANGED failures
AuthAnswerLost(s) ==
    /\ AnswerPending(s) /\ failures < MaxFailures
    /\ AuthTimesOut(s)
    /\ failures' = failures + 1

(* refreshAuth gives a new token: connect again, for the same caller.      *)
RefreshDone(s) ==
    /\ rt.sock[s].st = "refreshing" /\ issued < MaxTokens
    /\ issued' = issued + 1
    /\ LET c == [rt EXCEPT !.token = issued + 1, !.sock[s] = NoSlot]
       IN /\ CanConnect(c)
          /\ Become(DoConnect(c, rt.sock[s].told),
                    IF c.closed /\ rt.sock[s].told THEN "authed" ELSE conn)
    /\ store' = IF store = 0 THEN 0 ELSE issued + 1
    /\ UNCHANGED <<mounted, expired, leaving, failures>>

(* refreshAuth fails: the session is over.                                 *)
RefreshFailed(s) ==
    /\ rt.sock[s].st = "refreshing"
    /\ Become([rt EXCEPT !.closed = TRUE, !.sock[s] = NoSlot, !.failed = rt.sock[s].told], conn)
    /\ leaving' = TRUE
    /\ UNCHANGED <<mounted, store, issued, expired, failures>>

(* onClose.                                                                *)
OnClose(s) ==
    /\ IF rt.sock[s].on
       THEN Become(HandleDisconnect(Cleanup(Ended(rt, s), s)),
                   Dispatch(AfterDisconnect(rt)))
       ELSE Become(Ended(rt, s), conn)
    /\ UNCHANGED <<mounted, store, issued, expired, leaving>>

(* The client or the gateway has closed the socket.                        *)
CloseEvent(s) == rt.sock[s].st = "closing" /\ OnClose(s) /\ UNCHANGED failures

(* The gateway closes a socket it has not heard from for a minute: not the *)
(* one the heartbeat runs on, nor one whose auth timer still runs.         *)
IdleClose(s) ==
    /\ rt.sock[s].st = "open" /\ rt.sock[s].auth # "wait"
    /\ rt.ws # s \/ ~rt.heartbeat
    /\ OnClose(s) /\ UNCHANGED failures

(* The connection is lost, and the browser notices.                        *)
ConnectionLost(s) ==
    /\ rt.sock[s].st = "open" /\ failures < MaxFailures
    /\ OnClose(s) /\ failures' = failures + 1

(* onError: the listeners go, the one for the close event that follows     *)
(* included, and the caller is told.                                       *)
ErrorEvent(s) ==
    /\ \/ rt.sock[s].st = "aborting"
       \/ ErrorEvents /\ rt.sock[s].st \in {"connecting", "open", "closing"}
    /\ LET c == Cleanup(Ended(rt, s), s)
       IN IF rt.sock[s].on
          THEN Become([c EXCEPT !.failed = rt.sock[s].told, !.sock[s].told = FALSE], conn)
          ELSE Become(c, conn)
    /\ UNCHANGED <<mounted, env>>

\* Mutant: the timer is not cleared.
ReconnectTimerRepeats ==
    /\ rt.reconnectTimer
    /\ CanConnect(rt) /\ Become(DoConnect(rt, FALSE), conn)
    /\ UNCHANGED <<mounted, env>>

(* The reconnect timer.                                                    *)
ReconnectTimer ==
    /\ rt.reconnectTimer
    /\ LET c == [rt EXCEPT !.reconnectTimer = FALSE]
       IN CanConnect(c) /\ Become(DoConnect(c, FALSE), conn)
    /\ UNCHANGED <<mounted, env>>

(* The heartbeat: sent on the socket the client holds; unless the answer   *)
(* comes in time that socket, whichever it is by then, is closed.          *)
HeartbeatTick ==
    /\ rt.heartbeat /\ IsConnected(rt) /\ ~rt.heartbeatTimeout
    /\ Become([rt EXCEPT !.heartbeatTimeout = TRUE], conn)
    /\ UNCHANGED <<mounted, env>>
HeartbeatAck ==
    /\ rt.heartbeatTimeout
    /\ \E s \in Slots : rt.sock[s].st = "open" /\ rt.sock[s].on
    /\ Become([rt EXCEPT !.heartbeatTimeout = FALSE], conn)
    /\ UNCHANGED <<mounted, env>>
HeartbeatTimeout ==
    /\ rt.heartbeatTimeout /\ failures < MaxFailures
    /\ Become(CloseSocket([rt EXCEPT !.heartbeatTimeout = FALSE], rt.ws), conn)
    /\ failures' = failures + 1
    /\ UNCHANGED <<mounted, store, issued, expired, leaving>>
-----------------------------------------------------------------------------
(* The rest of the client and the server: authStore gets a token from a    *)
(* login or another call's refresh, or loses it; tokens expire; the        *)
(* browser arrives at the login page and nothing of the client is left.    *)
StoreToken ==
    /\ ~leaving /\ issued < MaxTokens
    /\ issued' = issued + 1 /\ store' = issued + 1
    /\ UNCHANGED <<rt, conn, mounted, expired, leaving, failures>>
SignOut ==
    /\ ~leaving /\ store # 0
    /\ store' = 0
    /\ UNCHANGED <<rt, conn, mounted, issued, expired, leaving, failures>>
Expire ==
    /\ \E t \in (1 .. issued) \ expired : expired' = expired \cup {t}
    /\ UNCHANGED <<rt, conn, mounted, store, issued, leaving, failures>>
Unload ==
    /\ leaving
    /\ rt' = Fresh /\ conn' = "disconnected" /\ mounted' = 0 /\ store' = 0
    /\ leaving' = FALSE
    /\ UNCHANGED <<issued, expired, failures>>

Answered == \E a \in rt.asked : AuthAccepted(a) \/ AuthIgnored(a) \/ AuthRefused(a)

Next ==
    \/ EffectRun \/ ReconnectTimer \/ Answered
    \/ HeartbeatTick \/ HeartbeatAck \/ HeartbeatTimeout
    \/ \E s \in Slots : \/ GatewayFound(s) \/ GatewayFailed(s) \/ Open(s)
                        \/ AuthUnanswered(s) \/ AuthAnswerLost(s)
                        \/ RefreshDone(s) \/ RefreshFailed(s)
                        \/ CloseEvent(s) \/ IdleClose(s) \/ ConnectionLost(s) \/ ErrorEvent(s)
    \/ StoreToken \/ SignOut \/ Expire \/ Unload

Spec == Init /\ [][Next]_vars

(* The browser runs timers, effects and the events of its sockets; lookups *)
(* and auth packets are answered unless they count as failures.            *)
Fairness ==
    /\ WF_vars(EffectRun) /\ WF_vars(ReconnectTimer) /\ WF_vars(Answered) /\ WF_vars(Unload)
    /\ WF_vars(HeartbeatAck)
    /\ \A s \in Slots :
          /\ WF_vars(GatewayFound(s)) /\ WF_vars(Open(s)) /\ WF_vars(AuthUnanswered(s))
          /\ WF_vars(RefreshDone(s) \/ RefreshFailed(s))
          /\ WF_vars(CloseEvent(s)) /\ WF_vars(IdleClose(s))
          /\ WF_vars(ErrorEvent(s) /\ rt.sock[s].st = "aborting")

FairSpec == Spec /\ Fairness
-----------------------------------------------------------------------------
(* Something is under way that leads to a connection, or away from one.    *)
UnderWay ==
    \/ rt.reconnectTimer \/ leaving \/ mounted # store
    \/ \E s \in Slots : \/ rt.sock[s].st \in {"lookup", "refreshing"}
                        \/ rt.sock[s].on /\ rt.sock[s].st \in {"connecting", "open", "closing"}

(* A client that was told to connect, and not to disconnect, never gives   *)
(* up: a socket, a lookup, a refresh or the reconnect timer is there.      *)
NeverGivesUp == mounted # 0 /\ ~rt.closed => UnderWay

(* As long as the token does not change, there is never a second socket    *)
(* or a second doConnect beside the first, however often the connection is *)
(* lost: the listeners of a socket are gone before the next one is made.   *)
Working == {s \in Slots : rt.sock[s].st \in {"lookup", "refreshing"} \/ rt.sock[s].on}
OneConnectionPerToken == issued <= 1 => Cardinality(Working) <= 1

(* A session with one token ends up connected, and shown to be, or signed  *)
(* out, once answers and connections are no longer lost.                   *)
StaysConnected == [](issued <= 1) => <>[](store = 0 \/ conn = "authed")
=============================================================================
