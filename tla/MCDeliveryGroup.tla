---- MODULE MCDeliveryGroup ----
(* A group message that mentions u1; u2 is the other member. *)
EXTENDS Delivery
CONSTANTS w1, u1, u2, n1, m1

MCBatchesOf == [m \in Msgs |-> <<{u1}, {u2}>>]
MCIsGroup == [m \in Msgs |-> TRUE]
====
