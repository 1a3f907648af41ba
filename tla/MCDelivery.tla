---- MODULE MCDelivery ----
(* A P2P message to u1, whose sockets are on either of two gateways, or both. *)
EXTENDS Delivery, TLC
CONSTANTS w1, w2, u1, n1, n2, m1

MCBatchesOf == [m \in Msgs |-> <<{u1}>>]
MCIsGroup == [m \in Msgs |-> FALSE]
MCSymmetry == Permutations(Procs)
====
