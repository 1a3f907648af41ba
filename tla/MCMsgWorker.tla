---- MODULE MCMsgWorker ----
(* A P2P topic between u1 and u2: two messages that may be logged twice, two processes. *)
EXTENDS MsgWorker, TLC
CONSTANTS p1, p2, m1, m2, u1, u2, t1

MCTopicOf == [m \in Msgs |-> t1]
MCKindOf == [t \in Topics |-> "p2p"]
MCPartitionOf == [t \in Topics |-> 0]
MCOwnersOf == [m \in Msgs |-> {u1, u2}]
MCSenderOf == [m \in Msgs |-> IF m = m1 THEN u1 ELSE u2]
MCMembersOf == [m \in Msgs |-> {u1, u2}]
MCMentionsOf == [m \in Msgs |-> {}]
MCSymmetry == Permutations(Procs)
====
