-------------------------- MODULE EventSubscription --------------------------
(* EventSubscriptionManager: subscriptions to the events of other system      *)
(* services, counted per event group.  The first subscriber of a group        *)
(* subscribes the adapter of the group at the system service, and 30 seconds  *)
(* after the last one left a DelayCancelTimer unsubscribes it.                *)
(*                                                                            *)
(* The members of the manager are guarded by mutex_, so what happens under it *)
(* is one step; but Subscribe cancels the timer, and Unsubscribe starts it,   *)
(* after mutex_ was released, and the thread of the timer is on its own.      *)
EXTENDS FiniteSets, Integers

CONSTANTS
    Clients,        \* holders of one SubscriptionHandle each, with their threads
    NoClient,
    Groups,         \* event groups
    GroupOf,        \* [Clients -> Groups]: GetEventGroupId of the client's event
    Env             \* what happens around: "subscribe" and "unsubscribe" may
                    \* fail at the system service, which may "restart"

ASSUME SubscriptionAssumption ==
    /\ IsFiniteSet(Clients)
    /\ NoClient \notin Clients
    /\ GroupOf \in [Clients -> Groups]
    /\ Env \subseteq {"subscribe", "unsubscribe", "restart"}

VARIABLES
    subscriptions,  \* clients with an entry in subscriptions_
    adapter,        \* adapter[g]: EventGroupState.adapter is not null
    refCount,       \* EventGroupState.refCount
    isSubscribed,   \* EventGroupState.isSubscribed
    active,         \* DelayCancelTimer.active_
    timer,          \* where the thread of the timer is
    threadMutex,    \* holder of DelayCancelTimer.threadMutex_
    pc,             \* where each client is
    registered,     \* registered[g]: the system service knows the adapter
    source,         \* the system service: "up", "lost" until the restart is
                    \* noticed, "reset" until the adapter was retried
    refused,        \* history: groups whose last SubscribeEvent failed
    revived         \* history: groups RetryFailedAdapters subscribed for nobody

state == <<subscriptions, adapter, refCount, isSubscribed>>
timers == <<active, timer, threadMutex>>
outside == <<registered, source>>
history == <<refused, revived>>
vars == <<state, timers, pc, outside, history>>

(* "cancel" and "start" wait for threadMutex_, the others for the end of the  *)
(* old thread.                                                                *)
Places == {"out", "cancel", "cancelling", "in", "start", "starting"}

TypeOK ==
    /\ subscriptions \subseteq Clients
    /\ adapter \in [Groups -> BOOLEAN]
    /\ refCount \in [Groups -> Nat]
    /\ isSubscribed \in [Groups -> BOOLEAN]
    /\ active \in [Groups -> BOOLEAN]
    /\ timer \in [Groups -> {"none", "waiting", "due", "task", "ran"}]
    /\ threadMutex \in [Groups -> Clients \cup {NoClient}]
    /\ pc \in [Clients -> Places]
    /\ registered \in [Groups -> BOOLEAN]
    /\ source \in [Groups -> {"up", "lost", "reset"}]
    /\ refused \subseteq Groups
    /\ revived \subseteq Groups

Init ==
    /\ subscriptions = {}
    /\ adapter = [g \in Groups |-> FALSE]
    /\ refCount = [g \in Groups |-> 0]
    /\ isSubscribed = [g \in Groups |-> FALSE]
    /\ active = [g \in Groups |-> FALSE]
    /\ timer = [g \in Groups |-> "none"]
    /\ threadMutex = [g \in Groups |-> NoClient]
    /\ pc = [c \in Clients |-> "out"]
    /\ registered = [g \in Groups |-> FALSE]
    /\ source = [g \in Groups |-> "up"]
    /\ refused = {}
    /\ revived = {}

Goto(c, place) == pc' = [pc EXCEPT ![c] = place]

-----------------------------------------------------------------------------
(* Subscribe *)

(* adapter->SubscribeEvent, the result of which is kept. *)
SubscribeEvent(g) ==
    \E ok \in IF "subscribe" \in Env THEN BOOLEAN ELSE {TRUE} :
        /\ isSubscribed' = [isSubscribed EXCEPT ![g] = ok]
        /\ registered' = [registered EXCEPT ![g] = @ \/ ok]
        /\ refused' = IF ok THEN refused \ {g} ELSE refused \cup {g}

(* The part under mutex_: EnsureGroupState, the look at the timer, the        *)
(* adapter, the count and the entry.  A handle is returned also when the      *)
(* system service refused.                                                    *)
Subscribe(c) ==
    LET g == GroupOf[c] IN
    /\ pc[c] = "out"
    /\ adapter' = [adapter EXCEPT ![g] = TRUE]
    /\ IF adapter[g] /\ isSubscribed[g]
       THEN UNCHANGED <<isSubscribed, registered, refused>>
       ELSE SubscribeEvent(g)
    /\ refCount' = [refCount EXCEPT ![g] = @ + 1]
    /\ subscriptions' = subscriptions \cup {c}
    /\ Goto(c, IF active[g] THEN "cancel" ELSE "in")
    /\ revived' = revived \ {g}
    /\ UNCHANGED <<timers, source>>

(* DelayCancelTimer::Cancel: stop the thread ... *)
Cancel(c) ==
    LET g == GroupOf[c] IN
    /\ pc[c] = "cancel"
    /\ threadMutex[g] = NoClient
    /\ threadMutex' = [threadMutex EXCEPT ![g] = c]
    /\ active' = [active EXCEPT ![g] = FALSE]
    /\ Goto(c, "cancelling")
    /\ UNCHANGED <<state, timer, outside, history>>

(* ... and join it; Subscribe returns. *)
Cancelled(c) ==
    LET g == GroupOf[c] IN
    /\ pc[c] = "cancelling"
    /\ timer[g] = "none"
    /\ threadMutex' = [threadMutex EXCEPT ![g] = NoClient]
    /\ Goto(c, "in")
    /\ UNCHANGED <<state, active, timer, outside, history>>

-----------------------------------------------------------------------------
(* Unsubscribe, when the handle is released *)

(* mutant: the timer is started when one subscriber is left *)
UnsubscribeOneLeft(c) ==
    LET g == GroupOf[c] IN
    /\ pc[c] = "in"
    /\ subscriptions' = subscriptions \ {c}
    /\ refCount' = [refCount EXCEPT ![g] = @ - 1]
    /\ Goto(c, IF refCount[g] = 2 THEN "start" ELSE "out")
    /\ UNCHANGED <<adapter, isSubscribed, timers, outside, history>>

Unsubscribe(c) ==
    LET g == GroupOf[c] IN
    /\ pc[c] = "in"
    /\ subscriptions' = subscriptions \ {c}
    /\ refCount' = [refCount EXCEPT ![g] = @ - 1]
    /\ Goto(c, IF refCount[g] = 1 THEN "start" ELSE "out")
    /\ UNCHANGED <<adapter, isSubscribed, timers, outside, history>>

(* StartDelayedUnsubscribe, DelayCancelTimer::Start: stop the old thread ... *)
Start(c) ==
    LET g == GroupOf[c] IN
    /\ pc[c] = "start"
    /\ threadMutex[g] = NoClient
    /\ threadMutex' = [threadMutex EXCEPT ![g] = c]
    /\ active' = [active EXCEPT ![g] = FALSE]
    /\ Goto(c, "starting")
    /\ UNCHANGED <<state, timer, outside, history>>

(* mutant: threadMutex_ is not released *)
StartedHolding(c) ==
    LET g == GroupOf[c] IN
    /\ pc[c] = "starting"
    /\ timer[g] = "none"
    /\ active' = [active EXCEPT ![g] = TRUE]
    /\ timer' = [timer EXCEPT ![g] = "waiting"]
    /\ Goto(c, "out")
    /\ UNCHANGED <<state, threadMutex, outside, history>>

(* ... join it and start a new one. *)
Started(c) ==
    LET g == GroupOf[c] IN
    /\ pc[c] = "starting"
    /\ timer[g] = "none"
    /\ active' = [active EXCEPT ![g] = TRUE]
    /\ timer' = [timer EXCEPT ![g] = "waiting"]
    /\ threadMutex' = [threadMutex EXCEPT ![g] = NoClient]
    /\ Goto(c, "out")
    /\ UNCHANGED <<state, outside, history>>

-----------------------------------------------------------------------------
(* The thread of the timer *)

TimerStep(g, from, to) ==
    /\ timer[g] = from
    /\ timer' = [timer EXCEPT ![g] = to]
    /\ UNCHANGED <<threadMutex, pc, source>>

(* wait_for returns: stopped, or the 30 seconds are over. *)
Wake(g) ==
    /\ TimerStep(g, "waiting", IF active[g] THEN "due" ELSE "none")
    /\ UNCHANGED <<state, active, registered, history>>

(* mutant: the sense of the second look is inverted *)
CheckInverted(g) ==
    /\ TimerStep(g, "due", IF active[g] THEN "none" ELSE "task")
    /\ UNCHANGED <<state, active, registered, history>>

(* The second look at active_, without the mutex of the timer. *)
Check(g) ==
    /\ TimerStep(g, "due", IF active[g] THEN "task" ELSE "none")
    /\ UNCHANGED <<state, active, registered, history>>

(* mutant: the task does not look at the count again *)
RunBlindly(g) ==
    /\ TimerStep(g, "task", "ran")
    /\ isSubscribed' = [isSubscribed EXCEPT ![g] = FALSE]
    /\ adapter' = [adapter EXCEPT ![g] = FALSE]
    /\ registered' = [registered EXCEPT ![g] = FALSE]
    /\ revived' = revived \ {g}
    /\ UNCHANGED <<subscriptions, refCount, active, refused>>

(* The task, under mutex_.  When the system service fails to unsubscribe, the *)
(* adapter is kept, but taken for unsubscribed.                               *)
Run(g) ==
    /\ TimerStep(g, "task", "ran")
    /\ IF refCount[g] = 0 /\ isSubscribed[g]
       THEN \E ok \in IF "unsubscribe" \in Env THEN BOOLEAN ELSE {TRUE} :
                /\ isSubscribed' = [isSubscribed EXCEPT ![g] = FALSE]
                /\ adapter' = [adapter EXCEPT ![g] = ~ok]
                /\ registered' = [registered EXCEPT ![g] = @ /\ ~ok]
                /\ revived' = revived \ {g}
       ELSE UNCHANGED <<isSubscribed, adapter, registered, revived>>
    /\ UNCHANGED <<subscriptions, refCount, active, refused>>

Finish(g) ==
    /\ TimerStep(g, "ran", "none")
    /\ active' = [active EXCEPT ![g] = FALSE]
    /\ UNCHANGED <<state, registered, history>>

-----------------------------------------------------------------------------
(* A restart of the system service *)

(* It forgets its subscribers. *)
SourceRestart(g) ==
    /\ "restart" \in Env
    /\ source[g] = "up"
    /\ source' = [source EXCEPT ![g] = "lost"]
    /\ registered' = [registered EXCEPT ![g] = FALSE]
    /\ UNCHANGED <<state, timers, pc, history>>

(* mutant: the restart is noticed, but the groups stay subscribed *)
ResetNothing(g) ==
    /\ source[g] = "lost"
    /\ source' = [source EXCEPT ![g] = "reset"]
    /\ UNCHANGED <<state, timers, pc, registered, history>>

(* The service notices it: ResetAdapterSubscribedState and                    *)
(* ResetCommonEventAdapterStates.  The latter skips a group without adapter,  *)
(* which is not subscribed anyway.                                            *)
ResetAdapterState(g) ==
    /\ source[g] = "lost"
    /\ source' = [source EXCEPT ![g] = "reset"]
    /\ isSubscribed' = [isSubscribed EXCEPT ![g] = FALSE]
    /\ UNCHANGED <<subscriptions, adapter, refCount, timers, pc, registered, history>>

(* RetryFailedAdapters, after the subscriptions were restored: whoever has an *)
(* adapter is subscribed again, also a group without subscribers.             *)
RetryFailedAdapters(g) ==
    /\ source[g] = "reset"
    /\ source' = [source EXCEPT ![g] = "up"]
    /\ IF adapter[g] /\ ~isSubscribed[g]
       THEN /\ SubscribeEvent(g)
            /\ revived' = IF refCount[g] = 0 /\ isSubscribed'[g]
                          THEN revived \cup {g} ELSE revived
       ELSE UNCHANGED <<isSubscribed, registered, history>>
    /\ UNCHANGED <<subscriptions, adapter, refCount, timers, pc>>

-----------------------------------------------------------------------------

ClientStep(c) ==
    \/ Cancel(c) \/ Cancelled(c)
    \/ Start(c) \/ Started(c)

TimerThread(g) == Wake(g) \/ Check(g) \/ Run(g) \/ Finish(g)

Recovery(g) == ResetAdapterState(g) \/ RetryFailedAdapters(g)

Next ==
    \/ \E c \in Clients : Subscribe(c) \/ Unsubscribe(c) \/ ClientStep(c)
    \/ \E g \in Groups : TimerThread(g) \/ SourceRestart(g) \/ Recovery(g)

Spec == Init /\ [][Next]_vars

(* Threads that are not blocked run, and a restart is noticed; nobody has to  *)
(* subscribe or to unsubscribe, and the system service need not restart.      *)
FairSpec ==
    /\ Spec
    /\ \A c \in Clients : WF_vars(ClientStep(c))
    /\ \A g \in Groups : WF_vars(TimerThread(g)) /\ WF_vars(Recovery(g))

-----------------------------------------------------------------------------

Listeners(g) == {c \in subscriptions : GroupOf[c] = g}

(* The reference count of a group is the number of its entries, whatever      *)
(* calls overlap: Subscribe and Unsubscribe change both under mutex_.         *)
RefCountIsListeners == \A g \in Groups : refCount[g] = Cardinality(Listeners(g))

(* Who listens is served: the system service knows the adapter, unless it     *)
(* refused it the last time it was asked or has restarted and the recovery is *)
(* not over.  The delayed task looks at the count again for this.             *)
ListenersAreServed ==
    \A g \in Groups : Listeners(g) # {} =>
        registered[g] \/ g \in refused \/ source[g] # "up"

(* A group that nobody listens to any more is about to be unsubscribed: the   *)
(* timer runs, or a thread is about to start it.  Subscribe cancels a timer   *)
(* it saw running after it has released mutex_, and never a newer one.        *)
(* Excepted are groups RetryFailedAdapters subscribed for nobody.             *)
IdleIsTimed ==
    \A g \in Groups : refCount[g] = 0 /\ isSubscribed[g] /\ g \notin revived =>
        \/ \E c \in Clients : GroupOf[c] = g /\ pc[c] \in {"start", "starting"}
        \/ active[g] /\ timer[g] \in {"waiting", "due", "task"}

(* Why they hold: who has a handle has an entry; and what the flags of a      *)
(* group say of its adapter and of the system service.                        *)
EntriesAreHeld ==
    \A c \in Clients : c \in subscriptions <=> pc[c] \in {"cancel", "cancelling", "in"}

FlagsAreTrue ==
    \A g \in Groups :
        /\ isSubscribed[g] => adapter[g] /\ (registered[g] \/ source[g] = "lost")
        /\ refCount[g] > 0 =>
               adapter[g] /\ (isSubscribed[g] \/ g \in refused \/ source[g] = "reset")

SubscriptionInv ==
    TypeOK /\ RefCountIsListeners /\ EntriesAreHeld /\ FlagsAreTrue /\ IdleIsTimed

(* It is then unsubscribed, unless somebody subscribes before.                *)
EventuallyUnsubscribed ==
    \A g \in Groups :
        (refCount[g] = 0 /\ isSubscribed[g] /\ g \notin revived)
            ~> (refCount[g] > 0 \/ ~isSubscribed[g])

(* Subscribe joins the thread of the timer, which may wait for mutex_, and    *)
(* returns all the same.                                                      *)
SubscribeReturns ==
    \A c \in Clients : pc[c] \in {"cancel", "cancelling"} ~> pc[c] = "in"

(* The abstract specification: events are cut off only when nobody listens.   *)
Promise == INSTANCE EventSource WITH
    listeners <- [g \in Groups |-> Listeners(g)],
    live <- registered,
    lost <- {g \in Groups : source[g] # "up"}

KeepsPromise == Promise!Spec
=============================================================================
