------------------------------ MODULE ChatStore ------------------------------
(***************************************************************************)
(* The operations of web/app/stores/chatStore.ts on one conversation, as   *)
(* functions from a conversation to the next.                              *)
(*                                                                         *)
(* An entry of the message list names the message it shows (msg), which    *)
(* stands for its content, preview and time, and has the clientMsgId it is *)
(* found by (id), topicSeq (0 while undefined) and whether that is a       *)
(* number (num: a pulled entry has strings for its int64 fields), status   *)
(* and recalled.  The previews, times and names of a conversation are left *)
(* out; known says that it has its peer's id and name.                     *)
(***************************************************************************)
EXTENDS Integers, Sequences, SequencesExt

NoConversation ==
    [present |-> FALSE, known |-> FALSE, messages |-> << >>, lastSeq |-> 0,
     unreadCount |-> 0, hasMore |-> TRUE, isLoading |-> FALSE]

EnsureConversation(c) == [c EXCEPT !.present = TRUE]

HasSeq(m) == m.topicSeq # 0
Bigger(a, b) == IF a > b THEN a ELSE b

\* Mutant: a plain push to the end.
InsertAtEnd(messages, m) == Append(messages, m)

(* insertBySeq: at the end if there is nothing to compare with or the last *)
(* entry is not newer, else before the first newer entry.                  *)
InsertBySeq(messages, m) ==
    LET newer == {i \in DOMAIN messages : messages[i].topicSeq > m.topicSeq}
    IN IF \/ ~HasSeq(m) \/ messages = << >> \/ ~HasSeq(Last(messages))
          \/ m.topicSeq >= Last(messages).topicSeq
       THEN Append(messages, m)
       ELSE InsertAt(messages, Min(newer), m)

(* The entries a message is taken to be already among.                     *)
SameMessage(a, b) ==
    a.id = b.id \/ (HasSeq(a) /\ HasSeq(b) /\ a.topicSeq = b.topicSeq)

\* Mutant: lastSeq counts, and repeats are not noticed.
AppendMessageCounts(c, m) ==
    [EnsureConversation(c) EXCEPT !.messages = InsertBySeq(@, m), !.lastSeq = @ + 1]
\* Mutant: the entry already there is replaced.
AppendMessageOverwrites(c, m) ==
    LET old == {i \in DOMAIN c.messages : SameMessage(c.messages[i], m)}
    IN [EnsureConversation(c) EXCEPT
           !.messages = IF old = {} THEN InsertBySeq(@, m) ELSE [@ EXCEPT ![Min(old)] = m],
           !.lastSeq = Bigger(@, m.topicSeq)]
AppendMessage(c, m) ==
    [EnsureConversation(c) EXCEPT
        !.messages = IF \E i \in DOMAIN @ : SameMessage(@[i], m) THEN @ ELSE InsertBySeq(@, m),
        !.lastSeq = Bigger(@, m.topicSeq)]

(* updateMessageStatus changes the first entry with the id, if any.        *)
UpdateMessageStatus(c, id, patch) ==
    LET found == {i \in DOMAIN c.messages : c.messages[i].id = id}
    IN IF found = {} THEN c ELSE [c EXCEPT !.messages[Min(found)] = patch @@ @]

RecallMessage(c, seq) ==
    [c EXCEPT !.messages = [i \in DOMAIN @ |->
        IF HasSeq(@[i]) /\ @[i].topicSeq = seq
        THEN [@[i] EXCEPT !.status = "recalled", !.recalled = TRUE] ELSE @[i]]]

SetMessagesLoading(c, flag) == [EnsureConversation(c) EXCEPT !.isLoading = flag]

(* Array.prototype.sort is stable; an entry without topicSeq counts as 0.  *)
SortedBySeq(messages) ==
    LET before(i, j) == \/ messages[i].topicSeq < messages[j].topicSeq
                        \/ messages[i].topicSeq = messages[j].topicSeq /\ i < j
        order == SetToSortSeq(DOMAIN messages, before)
    IN [i \in DOMAIN messages |-> messages[order[i]]]

\* Mutant: the page is not filtered.
PrependMessagesUnfiltered(c, page, more) ==
    [EnsureConversation(c) EXCEPT !.messages = SortedBySeq(page \o @), !.hasMore = more]
PrependMessages(c, page, more) ==
    LET new == SelectSeq(page, LAMBDA m : ~\E i \in DOMAIN c.messages :
                                              SameMessage(c.messages[i], m))
    IN [EnsureConversation(c) EXCEPT
           !.messages = SortedBySeq(new \o @), !.hasMore = more,
           !.lastSeq = IF new = << >> THEN @ ELSE Bigger(@, Last(new).topicSeq)]

(* markTopicRead, for the user's own reading and for the peer's alike.  The *)
(* status of the peer's messages, which is nowhere shown, is left out.     *)
MarkTopicRead(c, upTo) ==
    IF ~c.present THEN c
    ELSE [c EXCEPT !.unreadCount = 0,
                   !.messages = [i \in DOMAIN @ |->
                       IF @[i].own /\ HasSeq(@[i]) /\ @[i].topicSeq <= upTo
                       THEN [@[i] EXCEPT !.status = "read"] ELSE @[i]]]

(* setConversations: the server's summary, with the messages held so far.  *)
SetConversations(c, item) ==
    IF ~item.present THEN c
    ELSE [present |-> TRUE, known |-> TRUE, messages |-> c.messages, lastSeq |-> item.lastSeq,
          unreadCount |-> item.unreadCount, hasMore |-> TRUE, isLoading |-> FALSE]
=============================================================================
