---- MODULE MCMsgWorkerGroup ----
(* A group message that mentions u2, and a system notification for u1. *)
EXTENDS MsgWorker, TLC
CONSTANTS p1, mg, ms, u1, u2, g, tg, ts

MCTopicOf == [m \in Msgs |-> IF m = mg THEN tg ELSE ts]
MCKindOf == [t \in Topics |-> IF t = tg THEN "group" ELSE "system"]
MCPartitionOf == [t \in Topics |-> IF t = tg THEN 0 ELSE 1]
MCOwnersOf == [m \in Msgs |-> IF m = mg THEN {g} ELSE {u1}]
MCSenderOf == [m \in Msgs |-> u1]
MCMembersOf == [m \in Msgs |-> IF m = mg THEN {u1, u2} ELSE {u1}]
MCMentionsOf == [m \in Msgs |-> IF m = mg THEN {u2} ELSE {}]
====
