------------------------- MODULE MCEventSubscription -------------------------
(* Instances of EventSubscription for TLC. *)
EXTENDS EventSubscription

CONSTANTS c1, c2, c3, c4, g1

OneGroup == [c \in Clients |-> g1]
=============================================================================
