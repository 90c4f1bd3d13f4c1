----------------------------- MODULE EventSource -----------------------------
(* What EventSubscriptionManager promises its subscribers: while somebody     *)
(* listens to a group of events, the system service that sends them is never  *)
(* told to stop; only a restart of that service interrupts the events.        *)
CONSTANTS
    Clients,        \* holders of a SubscriptionHandle
    Groups,         \* event groups
    GroupOf         \* [Clients -> Groups]

VARIABLES
    listeners,      \* listeners[g]: clients whose callback is registered
    live,           \* live[g]: the system service sends the events of the group
    lost            \* groups whose system service restarted and is not yet subscribed again

vars == <<listeners, live, lost>>

Init ==
    /\ listeners = [g \in Groups |-> {}]
    /\ live = [g \in Groups |-> FALSE]
    /\ lost = {}

(* A client begins to listen; the service may refuse to send events. *)
Listen(c) ==
    LET g == GroupOf[c] IN
    /\ c \notin listeners[g]
    /\ listeners' = [listeners EXCEPT ![g] = @ \cup {c}]
    /\ \E on \in {live[g], TRUE} : live' = [live EXCEPT ![g] = on]
    /\ UNCHANGED lost

(* A client stops to listen.  The events go on for a while. *)
Leave(c) ==
    LET g == GroupOf[c] IN
    /\ c \in listeners[g]
    /\ listeners' = [listeners EXCEPT ![g] = @ \ {c}]
    /\ UNCHANGED <<live, lost>>

(* The service is told to stop: nobody listens. *)
Cut(g) ==
    /\ listeners[g] = {}
    /\ live' = [live EXCEPT ![g] = FALSE]
    /\ UNCHANGED <<listeners, lost>>

(* The service restarts and has forgotten its subscribers. *)
Lose(g) ==
    /\ live' = [live EXCEPT ![g] = FALSE]
    /\ lost' = lost \cup {g}
    /\ UNCHANGED listeners

(* It is subscribed again, unless it refuses. *)
Recover(g) ==
    /\ g \in lost
    /\ lost' = lost \ {g}
    /\ \E on \in {live[g], TRUE} : live' = [live EXCEPT ![g] = on]
    /\ UNCHANGED listeners

Next ==
    \/ \E c \in Clients : Listen(c) \/ Leave(c)
    \/ \E g \in Groups : Cut(g) \/ Lose(g) \/ Recover(g)

Spec == Init /\ [][Next]_vars
=============================================================================
