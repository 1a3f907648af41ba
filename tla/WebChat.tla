------------------------------- MODULE WebChat -------------------------------
(***************************************************************************)
(* One two-person conversation in the web client: the handlers useRealtime *)
(* attaches to the socket's events, the useConversation hook of the open   *)
(* page and refreshConversations, all working on chatStore, against a      *)
(* server that answers pulls and pushes packets.                           *)
(*                                                                         *)
(* An action is one JavaScript task.  Pushes are delivered in any order,   *)
(* and may be repeated; those sent or under way while the socket is down   *)
(* are lost.  The server is external: log is the stored topic, so that the *)
(* topicSeq of a message is its position.  Every opening of the page is a  *)
(* new instance of the hook, with its own loadedRef and loadingMoreRef; a  *)
(* reply is applied even if the page that asked is gone.                   *)
(***************************************************************************)
EXTENDS ChatStore, FiniteSets

CONSTANTS
    Own, Peer,    \* messages this user, and the other, may send
    History,      \* messages of the other from before
    PageSize,     \* messages in a page
    MaxOpens,     \* bound on how often the page is opened
    MaxEvents     \* bound on everything else that happens more than once or
                  \* goes wrong: see Event

ASSUME WebChatAssumption ==
    /\ Own \cap (Peer \cup History) = {} /\ Peer \cap History = {}
    /\ IsFiniteSet(Own \cup Peer \cup History)
    /\ PageSize \in Nat \ {0}
    /\ {MaxOpens, MaxEvents} \subseteq Nat

VARIABLES
    conv,      \* the conversation in chatStore
    open,      \* is the page open (chatStore.activeTopic)
    opens,     \* instances of the hook so far; the last is the current one
    load,      \* loadLatest, per instance
    more,      \* loadMore, per instance
    list,      \* refreshConversations
    sent,      \* messages this user has composed
    online,    \* the socket is open
    requests,  \* messages on their way to the server
    net,       \* packets on their way to the client
    log, recalled,  \* server: the topic, and what is recalled of it
    gone,      \* history: messages lost offline, or erased by loadLatest
    events     \* see Event

clientVars == <<conv, open, opens, load, more, list, sent>>
server == <<log, recalled>>
vars == <<clientVars, online, requests, net, server, gone, events>>

Instances == 1 .. MaxOpens
Messages == Own \cup Peer \cup History
NoPull == [st |-> "none", endSeq |-> 0, page |-> << >>, hasMore |-> FALSE]
NoList == [st |-> "idle", present |-> FALSE, lastSeq |-> 0, unreadCount |-> 0]

(* The server's summary of the conversation.                               *)
Summary(topic, n) ==
    [st |-> "answered", present |-> topic # << >>, lastSeq |-> Len(topic), unreadCount |-> n]

(* After the first refreshConversations has failed or succeeded.           *)
Init ==
    /\ log = SetToSeq(History) /\ recalled = {}
    /\ conv \in {NoConversation, SetConversations(NoConversation, Summary(log, 0))}
    /\ open = FALSE /\ opens = 0
    /\ load = [k \in Instances |-> NoPull] /\ more = [k \in Instances |-> NoPull]
    /\ list = NoList
    /\ sent = {} /\ online = TRUE
    /\ requests = {} /\ net = {}
    /\ gone = {} /\ events = 0

Shown(m) == \E i \in DOMAIN conv.messages : conv.messages[i].msg = m
ShownRecalled(m) ==
    \E i \in DOMAIN conv.messages : conv.messages[i].msg = m /\ conv.messages[i].recalled
-----------------------------------------------------------------------------
(* Entries: a composed message, a pushed one, and one of a pulled page,    *)
(* which comes without its clientMsgId.                                    *)
Composed(m, st) ==
    [msg |-> m, id |-> m, own |-> TRUE, topicSeq |-> 0, num |-> FALSE, status |-> st,
     recalled |-> FALSE]
Pushed(s) ==
    [msg |-> log[s], id |-> log[s], own |-> log[s] \in Own, topicSeq |-> s, num |-> TRUE,
     status |-> "delivered", recalled |-> FALSE]
Pulled(s) ==
    [msg |-> log[s], id |-> s, own |-> log[s] \in Own, topicSeq |-> s, num |-> FALSE,
     status |-> IF s \in recalled THEN "recalled"
                ELSE IF log[s] \in Own THEN "sent" ELSE "delivered",
     recalled |-> s \in recalled]

(* markRead of the hook.  What the server makes of it shows in the unread  *)
(* count of its next answer to listConversations, which may be any.        *)
CanMarkRead(c) == c.lastSeq # 0 /\ c.unreadCount # 0
MarkRead(c) == IF CanMarkRead(c) THEN MarkTopicRead(c, c.lastSeq) ELSE c

(* What MaxEvents bounds: every opening and every message of the peer      *)
(* after the first, recalls, the peer's receipts, repeated pushes,         *)
(* failures.                                                               *)
Event == events < MaxEvents /\ events' = events + 1

(* A mount of the page: setActiveTopic, loadLatest up to its await,        *)
(* markRead.                                                               *)
Open ==
    /\ ~open /\ opens < MaxOpens
    /\ IF opens = 0 THEN UNCHANGED events ELSE Event
    /\ open' = TRUE /\ opens' = opens + 1
    /\ load' = [load EXCEPT ![opens + 1].st = "sent"]
    /\ conv' = MarkRead(SetMessagesLoading(conv, TRUE))
    /\ UNCHANGED <<more, list, sent, online, requests, net, server, gone>>

Close ==
    /\ open
    /\ open' = FALSE
    /\ UNCHANGED <<conv, opens, load, more, list, sent, online, requests, net,
                   server, gone, events>>

(* handleSelect of NewChatDialog names the peer before the page is opened. *)
NewChat ==
    /\ ~open
    /\ conv' = [EnsureConversation(conv) EXCEPT !.known = TRUE]
    /\ conv' # conv
    /\ UNCHANGED <<open, opens, load, more, list, sent, online, requests, net,
                   server, gone, events>>

(* The effect on unreadCount and lastSeq of the open page.                 *)
UnreadEffect ==
    /\ open /\ CanMarkRead(conv)
    /\ conv' = MarkRead(conv)
    /\ UNCHANGED <<open, opens, load, more, list, sent, online, requests, net, server, gone,
                   events>>

(* The server answers a pull: the newest messages below endSeq, if that is *)
(* not 0; an error on the server is an empty page.                         *)
Page(endSeq) ==
    LET top == IF endSeq = 0 THEN Len(log) ELSE endSeq - 1
        bottom == Bigger(top - PageSize, 0)
    IN [st |-> "answered", endSeq |-> endSeq, hasMore |-> bottom > 0,
        page |-> [i \in 1 .. top - bottom |-> Pulled(bottom + i)]]

Pull(p) == p.st = "sent"
AnswerLoad(k) ==
    /\ Pull(load[k])
    /\ \/ load' = [load EXCEPT ![k] = Page(0)] /\ UNCHANGED events
       \/ load' = [load EXCEPT ![k].st = "answered"] /\ Event
    /\ UNCHANGED <<conv, open, opens, more, list, sent, online, requests, net, server,
                   gone>>
AnswerMore(k) ==
    /\ Pull(more[k])
    /\ \/ more' = [more EXCEPT ![k] = Page(more[k].endSeq)] /\ UNCHANGED events
       \/ more' = [more EXCEPT ![k].st = "answered"] /\ Event
    /\ UNCHANGED <<conv, open, opens, load, list, sent, online, requests, net, server,
                   gone>>

(* The rest of loadLatest: the page replaces the list, whatever it holds.  *)
LoadLatest(k) ==
    /\ load[k].st = "answered"
    /\ conv' = [EnsureConversation(conv) EXCEPT !.messages = load[k].page,
                    !.hasMore = load[k].hasMore, !.isLoading = FALSE]
    /\ load' = [load EXCEPT ![k] = [NoPull EXCEPT !.st = "done"]]
    /\ gone' = gone \cup {m \in Messages : Shown(m) /\ ~Shown(m)'}
    /\ UNCHANGED <<open, opens, more, list, sent, online, requests, net, server, events>>

\* Mutant: the loading flag is not reset.
LoadFailedKeepsLoading(k) ==
    /\ Pull(load[k]) /\ Event
    /\ load' = [load EXCEPT ![k] = [NoPull EXCEPT !.st = "done"]]
    /\ UNCHANGED <<conv, open, opens, more, list, sent, online, requests, net, server,
                   gone>>

(* The pull fails: the list stays, and the page counts as loaded.          *)
LoadFailed(k) ==
    /\ Pull(load[k]) /\ Event
    /\ conv' = SetMessagesLoading(conv, FALSE)
    /\ load' = [load EXCEPT ![k] = [NoPull EXCEPT !.st = "done"]]
    /\ UNCHANGED <<open, opens, more, list, sent, online, requests, net, server, gone>>

\* Mutant: the bound is off by one.
LoadMoreInclusive ==
    /\ open /\ conv.present /\ ~conv.isLoading /\ conv.hasMore
    /\ conv.messages # << >> /\ HasSeq(Head(conv.messages))
    /\ more[opens].st = "none"
    /\ more' = [more EXCEPT ![opens].st = "sent",
                            ![opens].endSeq = Head(conv.messages).topicSeq - 1]
    /\ UNCHANGED <<conv, open, opens, load, list, sent, online, requests, net, server,
                   gone, events>>

(* loadMore: page back from the first entry, if that has a topicSeq.       *)
LoadMore ==
    /\ open /\ conv.present /\ ~conv.isLoading /\ conv.hasMore
    /\ conv.messages # << >> /\ HasSeq(Head(conv.messages))
    /\ more[opens].st = "none"
    /\ more' = [more EXCEPT ![opens].st = "sent", ![opens].endSeq = Head(conv.messages).topicSeq]
    /\ UNCHANGED <<conv, open, opens, load, list, sent, online, requests, net, server,
                   gone, events>>
MoreLoaded(k) ==
    /\ more[k].st = "answered"
    /\ conv' = PrependMessages(conv, more[k].page, more[k].hasMore)
    /\ more' = [more EXCEPT ![k] = NoPull]
    /\ UNCHANGED <<open, opens, load, list, sent, online, requests, net, server, gone,
                   events>>
MoreFailed(k) ==
    /\ Pull(more[k]) /\ Event
    /\ more' = [more EXCEPT ![k] = NoPull]
    /\ UNCHANGED <<conv, open, opens, load, list, sent, online, requests, net, server,
                   gone>>
-----------------------------------------------------------------------------
(* realtimeClient.sendMessage and the entry for it.                        *)
Publish(m) == IF online THEN {m} ELSE {}
Compose(m) ==
    /\ conv' = AppendMessage(conv, Composed(m, IF online THEN "sending" ELSE "failed"))
    /\ requests' = requests \cup Publish(m)

(* sendMessage of the open page.  sendFileMessage gets here when the file  *)
(* is uploaded, and the page may be closed by then.                        *)
SendMessage(m) ==
    /\ opens > 0 /\ m \in Own \ sent
    /\ sent' = sent \cup {m}
    /\ Compose(m)
    /\ UNCHANGED <<open, opens, load, more, list, online, net, server, gone, events>>

(* retryMessage; while offline the status goes to "sending" and back.      *)
RetryMessage(m) ==
    /\ open /\ online
    /\ \E i \in DOMAIN conv.messages : conv.messages[i].id = m /\ conv.messages[i].status = "failed"
    /\ conv' = UpdateMessageStatus(conv, m, [status |-> "sending"])
    /\ requests' = requests \cup Publish(m)
    /\ UNCHANGED <<open, opens, load, more, list, sent, online, net, server, gone, events>>

(* recallMessage of the hook, for an entry with canRecall; the server      *)
(* takes it unless the message is recalled already.                        *)
RecallOwn(i) ==
    /\ open /\ online
    /\ LET e == conv.messages[i]
       IN /\ e.own /\ ~e.recalled /\ e.status # "recalled" /\ HasSeq(e)
          /\ e.topicSeq \notin recalled
          /\ recalled' = recalled \cup {e.topicSeq}
          /\ net' = net \cup {<<"recall", e.topicSeq>>}
    /\ Event
    /\ UNCHANGED <<clientVars, online, requests, log, gone>>
-----------------------------------------------------------------------------
(* The server, external.  Packets for a client that is offline are lost.   *)
Push(ps) == IF online THEN net \cup ps ELSE net
Lost(m) == IF online THEN gone ELSE gone \cup {m}

Save(m) ==
    /\ m \in requests
    /\ log' = Append(log, m)
    /\ requests' = requests \ {m}
    /\ net' = Push({<<"sendReceipt", Len(log) + 1>>})
    /\ UNCHANGED <<clientVars, online, recalled, gone, events>>
PeerSends ==
    LET m == CHOOSE x \in Peer \ ToSet(log) : TRUE
    IN /\ ~Peer \subseteq ToSet(log)
       /\ log' = Append(log, m)
       /\ net' = Push({<<"notify", Len(log) + 1>>}) /\ gone' = Lost(m)
       /\ IF Peer \cap ToSet(log) = {} THEN UNCHANGED events ELSE Event
       /\ UNCHANGED <<clientVars, online, requests, recalled>>
PeerRecalls(s) ==
    /\ s \notin recalled /\ log[s] \notin Own
    /\ recalled' = recalled \cup {s} /\ net' = Push({<<"recall", s>>}) /\ Event
    /\ UNCHANGED <<clientVars, online, requests, log, gone>>

(* The peer's client has the message, the peer has read up to it, or the   *)
(* server repeats a push that was not acknowledged.                        *)
PushAgain(s) ==
    /\ online /\ log[s] \notin History /\ Event
    /\ \E kind \in IF log[s] \in Own THEN {"delivery", "read", "sendReceipt"} ELSE {"notify"} :
          net' = net \cup {<<kind, s>>}
    /\ UNCHANGED <<clientVars, online, requests, server, gone>>
-----------------------------------------------------------------------------
(* The handlers of useRealtime.                                            *)
Handled(p) == p \in net /\ net' = net \ {p}

(* handleIncomingMessage: it works with the conversation as it was before  *)
(* appendMessage, so that a push for a new one is not counted as unread.   *)
Refresh == IF list.st = "idle" THEN [NoList EXCEPT !.st = "sent"] ELSE list
OnMessage(p) ==
    /\ Handled(p) /\ p[1] = "notify"
    /\ LET c == AppendMessage(conv, Pushed(p[2]))
       IN conv' = IF open THEN MarkTopicRead(c, p[2])
                  ELSE IF conv.present THEN [c EXCEPT !.unreadCount = @ + 1] ELSE c
    /\ list' = IF conv.known THEN list ELSE Refresh
    /\ UNCHANGED <<open, opens, load, more, sent, online, requests, server, gone, events>>

OnSendReceipt(p) ==
    /\ Handled(p) /\ p[1] = "sendReceipt"
    /\ conv' = UpdateMessageStatus(conv, log[p[2]],
                   [topicSeq |-> p[2], num |-> TRUE, status |-> "sent"])
    /\ UNCHANGED <<open, opens, load, more, list, sent, online, requests, server, gone,
                   events>>

(* Found by a strict comparison of topicSeq, which pulled entries fail.    *)
OnDeliveryReceipt(p) ==
    LET found == {i \in DOMAIN conv.messages : /\ conv.messages[i].topicSeq = p[2]
                                               /\ conv.messages[i].num}
    IN /\ Handled(p) /\ p[1] = "delivery"
       /\ conv' = IF found = {} \/ conv.messages[Min(found)].status = "read" THEN conv
                  ELSE UpdateMessageStatus(conv, conv.messages[Min(found)].id,
                           [status |-> "delivered"])
       /\ UNCHANGED <<open, opens, load, more, list, sent, online, requests, server,
                      gone, events>>

OnReadReceipt(p) ==
    /\ Handled(p) /\ p[1] = "read"
    /\ conv' = MarkTopicRead(conv, p[2])
    /\ UNCHANGED <<open, opens, load, more, list, sent, online, requests, server, gone,
                   events>>

OnRecall(p) ==
    /\ Handled(p) /\ p[1] = "recall"
    /\ conv' = RecallMessage(conv, p[2])
    /\ UNCHANGED <<open, opens, load, more, list, sent, online, requests, server, gone,
                   events>>
-----------------------------------------------------------------------------
(* refreshConversations: the server's answer, then setConversations.       *)
AnswerList ==
    /\ list.st = "sent"
    /\ \E n \in {0, 1} : list' = Summary(log, n)
    /\ UNCHANGED <<conv, open, opens, load, more, sent, online, requests, net, server,
                   gone, events>>
ListLoaded ==
    /\ list.st = "answered"
    /\ conv' = SetConversations(conv, list) /\ list' = NoList
    /\ UNCHANGED <<open, opens, load, more, sent, online, requests, net, server, gone,
                   events>>
ListFailed ==
    /\ list.st = "sent" /\ Event
    /\ list' = NoList
    /\ UNCHANGED <<conv, open, opens, load, more, sent, online, requests, net, server,
                   gone>>

(* The socket goes down, with what is under way on it, and comes back.     *)
Disconnected ==
    /\ online /\ Event
    /\ online' = FALSE /\ net' = {} /\ requests' = {}
    /\ gone' = gone \cup {m \in Messages : \E s \in DOMAIN log :
                             log[s] = m /\ <<"notify", s>> \in net}
    /\ UNCHANGED <<clientVars, server>>
Reconnected ==
    /\ ~online
    /\ online' = TRUE
    /\ UNCHANGED <<clientVars, requests, net, server, gone, events>>

Next ==
    \/ Open \/ Close \/ NewChat \/ UnreadEffect \/ LoadMore \/ PeerSends
    \/ \E k \in Instances : \/ AnswerLoad(k) \/ LoadLatest(k) \/ LoadFailed(k)
                            \/ AnswerMore(k) \/ MoreLoaded(k) \/ MoreFailed(k)
    \/ \E m \in Own : SendMessage(m) \/ RetryMessage(m) \/ Save(m)
    \/ \E i \in DOMAIN conv.messages : RecallOwn(i)
    \/ \E s \in DOMAIN log : PeerRecalls(s) \/ PushAgain(s)
    \/ \E p \in net : \/ OnMessage(p) \/ OnSendReceipt(p) \/ OnDeliveryReceipt(p)
                      \/ OnReadReceipt(p) \/ OnRecall(p)
    \/ AnswerList \/ ListLoaded \/ ListFailed
    \/ Disconnected \/ Reconnected

Spec == Init /\ [][Next]_vars
-----------------------------------------------------------------------------
(* The types; lastSeq never runs ahead of the topic.                       *)
TypeOK ==
    /\ conv.lastSeq \in 0 .. Len(log) /\ conv.unreadCount \in Nat
    /\ \A i \in DOMAIN conv.messages : conv.messages[i].status \in
          {"sending", "failed", "sent", "delivered", "read", "recalled"}
    /\ ~conv.present => conv = NoConversation
    /\ open \in BOOLEAN /\ opens \in 0 .. MaxOpens
    /\ sent \subseteq Own
    /\ gone \subseteq Messages

(* No message is shown twice, although it can arrive as a push, in a page, *)
(* as a repeated push and, composed here, with its receipt, in any order   *)
(* (appendMessage, prependMessages).                                       *)
NoDuplicates ==
    \A i, j \in DOMAIN conv.messages : i # j => conv.messages[i].msg # conv.messages[j].msg

(* Between the oldest and the newest message shown none is missing, except *)
(* the ones whose push was lost while offline or is still under way, and   *)
(* the ones a page of loadLatest has erased: paging back skips nothing.    *)
Missing(s) == ~Shown(log[s]) /\ <<"notify", s>> \notin net /\ log[s] \notin gone
NoHoles ==
    \A i, j \in DOMAIN conv.messages : HasSeq(conv.messages[i]) =>
        ~\E s \in conv.messages[i].topicSeq .. conv.messages[j].topicSeq : Missing(s)

(* A message shown as recalled stays so, except when a page that was read  *)
(* before the recall replaces the list.                                    *)
RecalledStays ==
    [][\A m \in Messages : ShownRecalled(m) /\ Shown(m)' /\ ~ShownRecalled(m)' =>
          \E k \in Instances : load[k].st = "answered" /\ load'[k].st = "done"]_vars

(* The list is in the order of topicSeq ("keeping ascending topic_seq      *)
(* order", chatStore.ts:71).                                               *)
Ascending ==
    \A i, j \in DOMAIN conv.messages :
        /\ i < j /\ HasSeq(conv.messages[i]) /\ HasSeq(conv.messages[j])
        => conv.messages[i].topicSeq < conv.messages[j].topicSeq

(* For a user who only reads, the order holds, however late pushes are.    *)
AscendingForReader == sent = {} => Ascending

(* The loading indicator never outlives the pulls it stands for: it is     *)
(* shown only while a loadLatest, of this or an earlier opening of the     *)
(* page, waits for its answer.                                             *)
LoadingIsPending ==
    conv.isLoading => \E k \in Instances : load[k].st \in {"sent", "answered"}
=============================================================================
