--------------------------- MODULE MessageService ---------------------------
(***************************************************************************)
(* What the upstream pipeline promises its clients, without Kafka, workers *)
(* or storage: a message that was accepted may be stored, once; a stored   *)
(* message may be handed to delivery, once; nothing is invented.           *)
(***************************************************************************)
EXTENDS Naturals

CONSTANT Msgs

VARIABLES accepted,   \* messages the Gateway acknowledged
          stored,     \* messages every owner has a copy of
          handed      \* handed[m]: how often m was handed to delivery

svcVars == <<accepted, stored, handed>>

SvcInit ==
    /\ accepted = {}
    /\ stored = {}
    /\ handed = [m \in Msgs |-> 0]

Accept(m) ==
    /\ accepted' = accepted \cup {m}
    /\ UNCHANGED <<stored, handed>>

Store(m) ==
    /\ m \in accepted \ stored
    /\ stored' = stored \cup {m}
    /\ UNCHANGED <<accepted, handed>>

HandOver(m) ==
    /\ m \in stored
    /\ handed[m] = 0
    /\ handed' = [handed EXCEPT ![m] = 1]
    /\ UNCHANGED <<accepted, stored>>

SvcNext == \E m \in Msgs : Accept(m) \/ Store(m) \/ HandOver(m)

SvcSpec == SvcInit /\ [][SvcNext]_svcVars
=============================================================================
