----------------------- MODULE EventSubscriptionProofs -----------------------
(* Theorems about EventSubscription, for any finite set of clients, any event *)
(* groups and any failures and restarts of the system services.               *)
EXTENDS EventSubscription, FiniteSetTheorems, TLAPS

(* Few facts about the entries of a group. *)
LEMMA ListenersFinite ==
    ASSUME TypeOK, NEW g \in Groups
    PROVE  IsFiniteSet(Listeners(g))
  <1>1. Listeners(g) \in SUBSET Clients
    BY DEF TypeOK, Listeners
  <1>2. QED
    BY <1>1, FS_Subset, SubscriptionAssumption

LEMMA NobodyListens ==
    ASSUME TypeOK, RefCountIsListeners, NEW g \in Groups
    PROVE  refCount[g] = 0 <=> Listeners(g) = {}
  BY ListenersFinite, FS_EmptySet DEF RefCountIsListeners

(* The two changes of the entries. *)
LEMMA EntryAdded ==
    ASSUME TypeOK, NEW c \in Clients, c \notin subscriptions,
           subscriptions' = subscriptions \cup {c}, NEW g \in Groups
    PROVE  /\ Listeners(g)' = IF g = GroupOf[c] THEN Listeners(g) \cup {c} ELSE Listeners(g)
           /\ c \notin Listeners(g)
  BY DEF Listeners

LEMMA EntryRemoved ==
    ASSUME TypeOK, NEW c \in Clients, c \in subscriptions,
           subscriptions' = subscriptions \ {c}, NEW g \in Groups
    PROVE  /\ Listeners(g)' = IF g = GroupOf[c] THEN Listeners(g) \ {c} ELSE Listeners(g)
           /\ g = GroupOf[c] => c \in Listeners(g)
  BY DEF Listeners

(* What the adapter leaves behind. *)
LEMMA SubscribeEventEffect ==
    ASSUME TypeOK, NEW g \in Groups, SubscribeEvent(g)
    PROVE  /\ isSubscribed' \in [Groups -> BOOLEAN] /\ registered' \in [Groups -> BOOLEAN]
           /\ refused' \subseteq Groups
           /\ \A h \in Groups \ {g} :
                 /\ isSubscribed'[h] = isSubscribed[h] /\ registered'[h] = registered[h]
                 /\ h \in refused' <=> h \in refused
           /\ isSubscribed'[g] => registered'[g]
           /\ isSubscribed'[g] \/ g \in refused'
           /\ registered[g] => registered'[g]
           /\ registered' = [registered EXCEPT ![g] = registered'[g]]
  <1>1. PICK ok \in BOOLEAN :
            /\ isSubscribed' = [isSubscribed EXCEPT ![g] = ok]
            /\ registered' = [registered EXCEPT ![g] = registered[g] \/ ok]
            /\ refused' = IF ok THEN refused \ {g} ELSE refused \cup {g}
    BY DEF SubscribeEvent
  <1>2. QED
    BY <1>1 DEF TypeOK

-----------------------------------------------------------------------------
(* The invariant holds at first, and every step keeps it. *)

LEMMA InitInvariant == Init => SubscriptionInv
  <1> SUFFICES ASSUME Init PROVE SubscriptionInv
    OBVIOUS
  <1> USE DEF Init
  <1>1. TypeOK
    BY DEF TypeOK, Places
  <1>2. RefCountIsListeners
    <2>1. \A g \in Groups : Listeners(g) = {}
      BY DEF Listeners
    <2>2. QED
      BY <2>1, FS_EmptySet DEF RefCountIsListeners
  <1>3. EntriesAreHeld /\ FlagsAreTrue /\ IdleIsTimed
    BY DEF EntriesAreHeld, FlagsAreTrue, IdleIsTimed
  <1>4. QED
    BY <1>1, <1>2, <1>3 DEF SubscriptionInv

(* The steps that leave the entries, the count and the flags alone: of the    *)
(* timer and of the clients that start or cancel it.                          *)
LEMMA SameCounts ==
    ASSUME RefCountIsListeners, UNCHANGED <<subscriptions, refCount>>
    PROVE  RefCountIsListeners'
  BY DEF RefCountIsListeners, Listeners

LEMMA SubscribeInvariant ==
    ASSUME SubscriptionInv, NEW c \in Clients, Subscribe(c)
    PROVE  SubscriptionInv'
  <1> DEFINE g == GroupOf[c]
  <1> USE SubscriptionAssumption DEF SubscriptionInv
  <1>0. g \in Groups /\ c \notin subscriptions
    BY DEF EntriesAreHeld, Subscribe
  <1>a. \/ adapter[g] /\ isSubscribed[g] /\ UNCHANGED <<isSubscribed, registered, refused>>
        \/ ~(adapter[g] /\ isSubscribed[g]) /\ SubscribeEvent(g)
    BY DEF Subscribe
  <1>1. TypeOK'
    <2>1. /\ isSubscribed' \in [Groups -> BOOLEAN] /\ registered' \in [Groups -> BOOLEAN]
          /\ refused' \subseteq Groups
      BY <1>0, <1>a, SubscribeEventEffect DEF TypeOK
    <2>2. pc' \in [Clients -> Places]
      BY DEF TypeOK, Subscribe, Goto, Places
    <2>3. adapter' \in [Groups -> BOOLEAN] /\ refCount' \in [Groups -> Nat]
      BY <1>0 DEF TypeOK, Subscribe
    <2>4. subscriptions' \subseteq Clients /\ revived' \subseteq Groups
      BY DEF TypeOK, Subscribe
    <2>5. UNCHANGED <<active, timer, threadMutex, source>>
      BY DEF Subscribe, timers
    <2>6. QED
      BY <2>1, <2>2, <2>3, <2>4, <2>5 DEF TypeOK
  <1>2. RefCountIsListeners'
    <2> SUFFICES ASSUME NEW h \in Groups
                 PROVE  refCount'[h] = Cardinality(Listeners(h)')
      BY DEF RefCountIsListeners
    <2>1. /\ Listeners(h)' = IF h = g THEN Listeners(h) \cup {c} ELSE Listeners(h)
          /\ c \notin Listeners(h)
      BY <1>0, EntryAdded DEF Subscribe
    <2>2. refCount'[h] = IF h = g THEN refCount[h] + 1 ELSE refCount[h]
      BY DEF TypeOK, Subscribe
    <2>3. refCount[h] = Cardinality(Listeners(h)) /\ IsFiniteSet(Listeners(h))
      BY ListenersFinite DEF RefCountIsListeners
    <2>4. Cardinality(Listeners(h) \cup {c})
             = IF c \in Listeners(h) THEN Cardinality(Listeners(h)) ELSE Cardinality(Listeners(h)) + 1
      BY <2>3, FS_AddElement
    <2>5. CASE h = g
      BY <2>1, <2>2, <2>3, <2>4, <2>5
    <2>6. CASE h # g
      BY <2>1, <2>2, <2>3, <2>6
    <2>7. QED
      BY <2>5, <2>6
  <1>3. EntriesAreHeld'
    BY DEF TypeOK, EntriesAreHeld, Subscribe, Goto
  <1>4. FlagsAreTrue'
    <2> SUFFICES ASSUME NEW h \in Groups
                 PROVE  /\ isSubscribed'[h] => adapter'[h] /\ (registered'[h] \/ source'[h] = "lost")
                        /\ refCount'[h] > 0 => /\ adapter'[h]
                                               /\ \/ isSubscribed'[h] \/ h \in refused'
                                                  \/ source'[h] = "reset"
      BY DEF FlagsAreTrue
    <2>0. /\ adapter' = [adapter EXCEPT ![g] = TRUE] /\ UNCHANGED source
          /\ refCount' = [refCount EXCEPT ![g] = @ + 1]
      BY DEF Subscribe
    <2>1. CASE h # g
      <3>1. /\ isSubscribed'[h] = isSubscribed[h] /\ registered'[h] = registered[h]
            /\ h \in refused' <=> h \in refused
        BY <2>1, <1>a, <1>0, SubscribeEventEffect
      <3>2. adapter'[h] = adapter[h] /\ refCount'[h] = refCount[h]
        BY <2>0, <2>1 DEF TypeOK
      <3>3. QED
        BY <2>0, <3>1, <3>2 DEF FlagsAreTrue
    <2>2. CASE h = g /\ adapter[g] /\ isSubscribed[g]
      BY <2>0, <2>2, <1>a DEF TypeOK, FlagsAreTrue
    <2>3. CASE h = g /\ ~(adapter[g] /\ isSubscribed[g])
      BY <2>0, <2>3, <1>a, <1>0, SubscribeEventEffect DEF TypeOK
    <2>4. QED
      BY <2>1, <2>2, <2>3
  <1>5. IdleIsTimed'
    <2> SUFFICES ASSUME NEW h \in Groups, refCount'[h] = 0, isSubscribed'[h], h \notin revived'
                 PROVE  \/ \E d \in Clients : GroupOf[d] = h /\ pc'[d] \in {"start", "starting"}
                        \/ active'[h] /\ timer'[h] \in {"waiting", "due", "task"}
      BY DEF IdleIsTimed
    <2>1. h # g
      BY <1>0 DEF TypeOK, Subscribe
    <2>2. refCount[h] = 0 /\ isSubscribed[h] /\ h \notin revived
      BY <2>1, <1>0, <1>a, SubscribeEventEffect DEF TypeOK, Subscribe
    <2>3. \A d \in Clients : pc[d] \in {"start", "starting"} => pc'[d] = pc[d]
      BY DEF TypeOK, Subscribe, Goto
    <2>4. UNCHANGED <<active, timer>>
      BY DEF Subscribe, timers
    <2>5. QED
      BY <2>2, <2>3, <2>4 DEF IdleIsTimed
  <1>6. QED
    BY <1>1, <1>2, <1>3, <1>4, <1>5

LEMMA UnsubscribeInvariant ==
    ASSUME SubscriptionInv, NEW c \in Clients, Unsubscribe(c)
    PROVE  SubscriptionInv'
  <1> DEFINE g == GroupOf[c]
  <1> USE SubscriptionAssumption DEF SubscriptionInv
  <1>0. g \in Groups /\ c \in subscriptions
    BY DEF EntriesAreHeld, Unsubscribe
  <1>1. refCount[g] \in Nat \ {0}
    <2>1. c \in Listeners(g)
      BY <1>0 DEF Listeners
    <2>2. QED
      BY <1>0, <2>1, NobodyListens DEF TypeOK
  <1>2. /\ UNCHANGED <<adapter, isSubscribed, registered, source, refused, revived>>
        /\ UNCHANGED <<active, timer, threadMutex>>
        /\ refCount' = [refCount EXCEPT ![g] = @ - 1]
    BY DEF Unsubscribe, timers, outside, history
  <1>3. TypeOK'
    <2>1. refCount' \in [Groups -> Nat]
      BY <1>0, <1>1, <1>2 DEF TypeOK
    <2>2. pc' \in [Clients -> Places] /\ subscriptions' \subseteq Clients
      BY DEF TypeOK, Unsubscribe, Goto, Places
    <2>3. QED
      BY <1>2, <2>1, <2>2 DEF TypeOK
  <1>4. RefCountIsListeners'
    <2> SUFFICES ASSUME NEW h \in Groups
                 PROVE  refCount'[h] = Cardinality(Listeners(h)')
      BY DEF RefCountIsListeners
    <2>1. /\ Listeners(h)' = IF h = g THEN Listeners(h) \ {c} ELSE Listeners(h)
          /\ h = g => c \in Listeners(h)
      BY <1>0, EntryRemoved DEF Unsubscribe
    <2>2. refCount'[h] = IF h = g THEN refCount[h] - 1 ELSE refCount[h]
      BY <1>2 DEF TypeOK
    <2>3. refCount[h] = Cardinality(Listeners(h)) /\ IsFiniteSet(Listeners(h))
      BY ListenersFinite DEF RefCountIsListeners
    <2>4. Cardinality(Listeners(h) \ {c})
             = IF c \in Listeners(h) THEN Cardinality(Listeners(h)) - 1 ELSE Cardinality(Listeners(h))
      BY <2>3, FS_RemoveElement
    <2>5. CASE h = g
      BY <2>1, <2>2, <2>3, <2>4, <2>5
    <2>6. CASE h # g
      BY <2>1, <2>2, <2>3, <2>6
    <2>7. QED
      BY <2>5, <2>6
  <1>5. EntriesAreHeld'
    BY DEF TypeOK, EntriesAreHeld, Unsubscribe, Goto
  <1>6. FlagsAreTrue'
    <2>1. \A h \in Groups : refCount'[h] > 0 => refCount[h] > 0
      BY <1>1, <1>2 DEF TypeOK
    <2>2. QED
      BY <1>2, <2>1 DEF FlagsAreTrue
  <1>7. IdleIsTimed'
    <2> SUFFICES ASSUME NEW h \in Groups, refCount'[h] = 0, isSubscribed'[h], h \notin revived'
                 PROVE  \/ \E d \in Clients : GroupOf[d] = h /\ pc'[d] \in {"start", "starting"}
                        \/ active'[h] /\ timer'[h] \in {"waiting", "due", "task"}
      BY DEF IdleIsTimed
    <2>1. CASE h = g
      <3>1. refCount[g] = 1
        BY <1>0, <1>1, <1>2, <2>1 DEF TypeOK
      <3>2. pc'[c] = "start"
        BY <3>1 DEF TypeOK, Unsubscribe, Goto
      <3>3. QED
        BY <2>1, <3>2
    <2>2. CASE h # g
      <3>1. refCount[h] = 0 /\ isSubscribed[h] /\ h \notin revived
        BY <1>2, <2>2 DEF TypeOK
      <3>2. \A d \in Clients : pc[d] \in {"start", "starting"} => pc'[d] = pc[d]
        BY DEF TypeOK, Unsubscribe, Goto
      <3>3. QED
        BY <1>2, <3>1, <3>2 DEF IdleIsTimed
    <2>3. QED
      BY <2>1, <2>2
  <1>8. QED
    BY <1>3, <1>4, <1>5, <1>6, <1>7

(* Who cancels a timer has an entry himself, so the group is not idle; who    *)
(* restarts one is the reason why it is about to be timed.                    *)
LEMMA ClientStepInvariant ==
    ASSUME SubscriptionInv, NEW c \in Clients, ClientStep(c)
    PROVE  SubscriptionInv'
  <1> DEFINE g == GroupOf[c]
  <1> USE SubscriptionAssumption DEF SubscriptionInv
  <1>1. UNCHANGED <<state, outside, history>>
    BY DEF ClientStep, Cancel, Cancelled, Start, Started
  <1>2. UNCHANGED <<subscriptions, adapter, refCount, isSubscribed, registered, source,
                    refused, revived>>
    BY <1>1 DEF state, outside, history
  <1>3. g \in Groups
    OBVIOUS
  <1>4. TypeOK'
    <2>1. pc' \in [Clients -> Places]
      BY DEF TypeOK, ClientStep, Cancel, Cancelled, Start, Started, Goto, Places
    <2>2. active' \in [Groups -> BOOLEAN]
      BY <1>3 DEF TypeOK, ClientStep, Cancel, Cancelled, Start, Started
    <2>3. timer' \in [Groups -> {"none", "waiting", "due", "task", "ran"}]
      BY <1>3 DEF TypeOK, ClientStep, Cancel, Cancelled, Start, Started
    <2>4. threadMutex' \in [Groups -> Clients \cup {NoClient}]
      BY <1>3 DEF TypeOK, ClientStep, Cancel, Cancelled, Start, Started
    <2>5. QED
      BY <1>2, <2>1, <2>2, <2>3, <2>4 DEF TypeOK
  <1>5. RefCountIsListeners' /\ FlagsAreTrue'
    BY <1>2, SameCounts DEF FlagsAreTrue
  <1>6. EntriesAreHeld'
    BY <1>2 DEF TypeOK, EntriesAreHeld, ClientStep, Cancel, Cancelled, Start, Started, Goto
  <1>7. IdleIsTimed'
    <2> SUFFICES ASSUME NEW h \in Groups, refCount[h] = 0, isSubscribed[h], h \notin revived
                 PROVE  \/ \E d \in Clients : GroupOf[d] = h /\ pc'[d] \in {"start", "starting"}
                        \/ active'[h] /\ timer'[h] \in {"waiting", "due", "task"}
      BY <1>2 DEF IdleIsTimed
    <2>0. \/ \E d \in Clients : GroupOf[d] = h /\ pc[d] \in {"start", "starting"}
          \/ active[h] /\ timer[h] \in {"waiting", "due", "task"}
      BY DEF IdleIsTimed
    <2>1. CASE Cancel(c)
      <3>1. c \in Listeners(g)
        BY <2>1 DEF EntriesAreHeld, Listeners, Cancel
      <3>2. h # g
        BY <1>3, <3>1, NobodyListens
      <3>3. active'[h] = active[h] /\ timer' = timer
        BY <2>1, <3>2 DEF Cancel, TypeOK
      <3>4. \A d \in Clients : pc[d] \in {"start", "starting"} => pc'[d] = pc[d]
        BY <2>1 DEF TypeOK, Cancel, Goto
      <3>5. QED
        BY <2>0, <3>3, <3>4
    <2>2. CASE Cancelled(c)
      <3>1. UNCHANGED <<active, timer>>
        BY <2>2 DEF Cancelled
      <3>2. \A d \in Clients : pc[d] \in {"start", "starting"} => pc'[d] = pc[d]
        BY <2>2 DEF TypeOK, Cancelled, Goto
      <3>3. QED
        BY <2>0, <3>1, <3>2
    <2>3. CASE Start(c)
      <3>1. pc'[c] = "starting" /\ timer' = timer
        BY <2>3 DEF TypeOK, Start, Goto
      <3>2. \A d \in Clients \ {c} : pc'[d] = pc[d]
        BY <2>3 DEF TypeOK, Start, Goto
      <3>3. h # g => active'[h] = active[h]
        BY <2>3 DEF TypeOK, Start
      <3>4. QED
        BY <2>0, <3>1, <3>2, <3>3
    <2>4. CASE Started(c)
      <3>1. active'[g] /\ timer'[g] = "waiting"
        BY <1>3, <2>4 DEF TypeOK, Started
      <3>2. h # g => active'[h] = active[h] /\ timer'[h] = timer[h]
        BY <2>4 DEF TypeOK, Started
      <3>3. \A d \in Clients \ {c} : pc'[d] = pc[d]
        BY <2>4 DEF TypeOK, Started, Goto
      <3>4. QED
        BY <2>0, <3>1, <3>2, <3>3
    <2>5. QED
      BY <2>1, <2>2, <2>3, <2>4 DEF ClientStep
  <1>8. QED
    BY <1>4, <1>5, <1>6, <1>7

(* The thread of the timer acts on the adapter only when nobody listens.      *)
LEMMA TimerInvariant ==
    ASSUME SubscriptionInv, NEW g \in Groups, TimerThread(g)
    PROVE  SubscriptionInv'
  <1> USE SubscriptionAssumption DEF SubscriptionInv
  <1>1. UNCHANGED <<subscriptions, refCount, threadMutex, pc, source, refused>>
    BY DEF TimerThread, Wake, Check, Run, Finish, TimerStep, state, history
  <1>2. /\ \A h \in Groups \ {g} : timer'[h] = timer[h] /\ active'[h] = active[h]
        /\ timer' \in [Groups -> {"none", "waiting", "due", "task", "ran"}]
        /\ active' \in [Groups -> BOOLEAN]
    BY DEF TypeOK, TimerThread, Wake, Check, Run, Finish, TimerStep
  <1>3. \/ /\ UNCHANGED <<isSubscribed, adapter, registered, revived>>
           /\ ~Run(g) \/ refCount[g] # 0 \/ ~isSubscribed[g]
        \/ /\ refCount[g] = 0
           /\ isSubscribed' = [isSubscribed EXCEPT ![g] = FALSE]
           /\ \E ok \in BOOLEAN : /\ adapter' = [adapter EXCEPT ![g] = ~ok]
                                  /\ registered' = [registered EXCEPT ![g] = registered[g] /\ ~ok]
           /\ revived' = revived \ {g}
    BY DEF TimerThread, Wake, Check, Run, Finish, state, history
  <1>4. TypeOK'
    BY <1>1, <1>2, <1>3 DEF TypeOK
  <1>5. RefCountIsListeners' /\ EntriesAreHeld'
    BY <1>1, SameCounts DEF EntriesAreHeld
  <1>6. FlagsAreTrue'
    BY <1>1, <1>3 DEF TypeOK, FlagsAreTrue
  <1>7. IdleIsTimed'
    <2> SUFFICES ASSUME NEW h \in Groups, refCount[h] = 0, isSubscribed'[h], h \notin revived'
                 PROVE  \/ \E d \in Clients : GroupOf[d] = h /\ pc[d] \in {"start", "starting"}
                        \/ active'[h] /\ timer'[h] \in {"waiting", "due", "task"}
      BY <1>1 DEF IdleIsTimed
    <2>1. isSubscribed[h] /\ h \notin revived
      BY <1>3 DEF TypeOK
    <2>2. CASE h # g
      BY <1>2, <2>1, <2>2 DEF IdleIsTimed
    <2>3. CASE h = g
      <3>1. ~Run(g)
        BY <1>3, <2>3 DEF TypeOK
      <3>2. CASE Wake(g) \/ Check(g)
        BY <2>1, <2>3, <3>2 DEF IdleIsTimed, TypeOK, Wake, Check, TimerStep
      <3>3. CASE Finish(g)
        BY <2>1, <2>3, <3>3 DEF IdleIsTimed, Finish, TimerStep
      <3>4. QED
        BY <3>1, <3>2, <3>3 DEF TimerThread
    <2>4. QED
      BY <2>2, <2>3
  <1>8. QED
    BY <1>4, <1>5, <1>6, <1>7

LEMMA SourceRestartInvariant ==
    ASSUME SubscriptionInv, NEW g \in Groups, SourceRestart(g)
    PROVE  SubscriptionInv'
  <1> USE DEF SubscriptionInv
  <1>1. UNCHANGED <<state, timers, pc, history>>
    BY DEF SourceRestart
  <1>2. UNCHANGED <<subscriptions, adapter, refCount, isSubscribed, active, timer, threadMutex,
                    pc, refused, revived>>
    BY <1>1 DEF state, timers, history
  <1>3. TypeOK'
    BY <1>2 DEF TypeOK, SourceRestart
  <1>4. RefCountIsListeners' /\ EntriesAreHeld' /\ IdleIsTimed'
    BY <1>2, SameCounts DEF EntriesAreHeld, IdleIsTimed
  <1>5. FlagsAreTrue'
    BY <1>2 DEF TypeOK, FlagsAreTrue, SourceRestart
  <1>6. QED
    BY <1>3, <1>4, <1>5

LEMMA ResetInvariant ==
    ASSUME SubscriptionInv, NEW g \in Groups, ResetAdapterState(g)
    PROVE  SubscriptionInv'
  <1> USE DEF SubscriptionInv
  <1>1. UNCHANGED <<subscriptions, adapter, refCount, active, timer, threadMutex, pc,
                    registered, refused, revived>>
    BY DEF ResetAdapterState, timers, history
  <1>2. TypeOK'
    BY <1>1 DEF TypeOK, ResetAdapterState
  <1>3. RefCountIsListeners' /\ EntriesAreHeld'
    BY <1>1, SameCounts DEF EntriesAreHeld
  <1>4. FlagsAreTrue'
    BY <1>1 DEF TypeOK, FlagsAreTrue, ResetAdapterState
  <1>5. IdleIsTimed'
    <2>1. \A h \in Groups : isSubscribed'[h] => isSubscribed[h]
      BY DEF TypeOK, ResetAdapterState
    <2>2. QED
      BY <1>1, <2>1 DEF IdleIsTimed
  <1>6. QED
    BY <1>2, <1>3, <1>4, <1>5

LEMMA RetryInvariant ==
    ASSUME SubscriptionInv, NEW g \in Groups, RetryFailedAdapters(g)
    PROVE  SubscriptionInv'
  <1> USE DEF SubscriptionInv
  <1>1. /\ UNCHANGED <<subscriptions, adapter, refCount, active, timer, threadMutex, pc>>
        /\ source[g] = "reset" /\ source' = [source EXCEPT ![g] = "up"]
    BY DEF RetryFailedAdapters, timers
  <1>2. \/ /\ ~(adapter[g] /\ ~isSubscribed[g])
           /\ UNCHANGED <<isSubscribed, registered, refused, revived>>
        \/ /\ adapter[g] /\ ~isSubscribed[g] /\ SubscribeEvent(g)
           /\ revived' = IF refCount[g] = 0 /\ isSubscribed'[g] THEN revived \cup {g} ELSE revived
    BY DEF RetryFailedAdapters, history
  <1>3. /\ isSubscribed' \in [Groups -> BOOLEAN] /\ registered' \in [Groups -> BOOLEAN]
        /\ refused' \subseteq Groups /\ revived' \subseteq Groups
    BY <1>2, SubscribeEventEffect DEF TypeOK
  <1>4. TypeOK'
    BY <1>1, <1>3 DEF TypeOK
  <1>5. RefCountIsListeners' /\ EntriesAreHeld'
    BY <1>1, SameCounts DEF EntriesAreHeld
  <1>6. \A h \in Groups \ {g} :
            /\ isSubscribed'[h] = isSubscribed[h] /\ registered'[h] = registered[h]
            /\ source'[h] = source[h]
            /\ h \in refused' <=> h \in refused
            /\ h \in revived' <=> h \in revived
    BY <1>1, <1>2, SubscribeEventEffect DEF TypeOK
  <1>7. FlagsAreTrue'
    <2> SUFFICES ASSUME NEW h \in Groups
                 PROVE  /\ isSubscribed'[h] => adapter'[h] /\ (registered'[h] \/ source'[h] = "lost")
                        /\ refCount'[h] > 0 => /\ adapter'[h]
                                               /\ \/ isSubscribed'[h] \/ h \in refused'
                                                  \/ source'[h] = "reset"
      BY DEF FlagsAreTrue
    <2>1. CASE h # g
      BY <1>1, <1>6, <2>1 DEF FlagsAreTrue
    <2>2. CASE h = g
      BY <1>1, <1>2, <2>2, SubscribeEventEffect DEF TypeOK, FlagsAreTrue
    <2>3. QED
      BY <2>1, <2>2
  <1>8. IdleIsTimed'
    <2>1. \A h \in Groups : refCount[h] = 0 /\ isSubscribed'[h] /\ h \notin revived'
                                => isSubscribed[h] /\ h \notin revived
      BY <1>2, <1>6
    <2>2. QED
      BY <1>1, <2>1 DEF IdleIsTimed
  <1>9. QED
    BY <1>4, <1>5, <1>7, <1>8

LEMMA NextInvariant == SubscriptionInv /\ [Next]_vars => SubscriptionInv'
  <1> SUFFICES ASSUME SubscriptionInv, [Next]_vars PROVE SubscriptionInv'
    OBVIOUS
  <1>1. CASE \E c \in Clients : Subscribe(c) \/ Unsubscribe(c) \/ ClientStep(c)
    BY <1>1, SubscribeInvariant, UnsubscribeInvariant, ClientStepInvariant
  <1>2. CASE \E g \in Groups : TimerThread(g) \/ SourceRestart(g) \/ Recovery(g)
    BY <1>2, TimerInvariant, SourceRestartInvariant, ResetInvariant, RetryInvariant DEF Recovery
  <1>3. CASE UNCHANGED vars
    BY <1>3, SameCounts DEF SubscriptionInv, vars, state, timers, outside, history,
        TypeOK, EntriesAreHeld, FlagsAreTrue, IdleIsTimed
  <1>4. QED
    BY <1>1, <1>2, <1>3 DEF Next

(* The count is the number of entries and every idle group is timed, whatever *)
(* calls, timers and restarts overlap.                                        *)
THEOREM SubscriptionInvariant == Spec => []SubscriptionInv
  BY InitInvariant, NextInvariant, PTL DEF Spec

(* The reference count of every group is the number of its entries.           *)
THEOREM CountsAreRight == Spec => []RefCountIsListeners
  <1>1. SubscriptionInv => RefCountIsListeners
    BY DEF SubscriptionInv
  <1>2. QED
    BY <1>1, SubscriptionInvariant, PTL

(* A group nobody listens to is never left subscribed without a timer.        *)
THEOREM IdleGroupsAreTimed == Spec => []IdleIsTimed
  <1>1. SubscriptionInv => IdleIsTimed
    BY DEF SubscriptionInv
  <1>2. QED
    BY <1>1, SubscriptionInvariant, PTL

(* Who listens is served, however the delayed task is overtaken.              *)
THEOREM ListenersServed == Spec => []ListenersAreServed
  <1>1. SubscriptionInv => ListenersAreServed
    <2> SUFFICES ASSUME SubscriptionInv, NEW g \in Groups, Listeners(g) # {}, source[g] = "up",
                        g \notin refused
                 PROVE  registered[g]
      BY DEF ListenersAreServed
    <2>1. refCount[g] > 0
      BY NobodyListens DEF SubscriptionInv, TypeOK
    <2>2. QED
      BY <2>1 DEF SubscriptionInv, FlagsAreTrue
  <1>2. QED
    BY <1>1, SubscriptionInvariant, PTL

-----------------------------------------------------------------------------
(* The timers.  threadMutex_ is held while the old thread is joined, which is *)
(* the time the model has it for, and active_ stays FALSE meanwhile.          *)

JoinInv ==
    /\ SubscriptionInv
    /\ \A g \in Groups, c \in Clients :
           threadMutex[g] = c <=> GroupOf[c] = g /\ pc[c] \in {"cancelling", "starting"}
    /\ \A g \in Groups : threadMutex[g] # NoClient => ~active[g]

(* How many steps the thread of a timer has at most before it ends.           *)
StepsLeft(place) ==
    CASE place = "waiting" -> 4 [] place = "due" -> 3 [] place = "task" -> 2
      [] place = "ran" -> 1 [] OTHER -> 0

(* While a client joins the thread of a timer, no new thread is started: the  *)
(* one that is joined stays where it is or comes closer to its end.           *)
JoinsAdvance ==
    \A g \in Groups : threadMutex[g] # NoClient /\ threadMutex'[g] # NoClient =>
        timer'[g] = timer[g] \/ StepsLeft(timer'[g]) < StepsLeft(timer[g])

LEMMA InitJoin == Init => JoinInv
  <1>1. Init => SubscriptionInv
    BY InitInvariant
  <1>2. QED
    BY <1>1, SubscriptionAssumption DEF Init, JoinInv

(* A client takes threadMutex_ or gives it back.                              *)
LEMMA ClientJoins ==
    ASSUME JoinInv, NEW c \in Clients, Subscribe(c) \/ Unsubscribe(c) \/ ClientStep(c)
    PROVE  JoinInv' /\ JoinsAdvance
  <1> USE SubscriptionAssumption
  <1> DEFINE g == GroupOf[c]
  <1>1. TypeOK /\ SubscriptionInv' /\ g \in Groups
    BY SubscribeInvariant, UnsubscribeInvariant, ClientStepInvariant DEF JoinInv, SubscriptionInv
  <1>2. \A d \in Clients \ {c} : pc'[d] = pc[d]
    BY <1>1 DEF TypeOK, Goto, Subscribe, Unsubscribe, ClientStep, Cancel, Cancelled, Start, Started
  <1>3. \A h \in Groups \ {g} : /\ threadMutex'[h] = threadMutex[h] /\ active'[h] = active[h]
                                 /\ timer'[h] = timer[h]
    BY <1>1 DEF TypeOK, timers, Subscribe, Unsubscribe, ClientStep, Cancel, Cancelled, Start, Started
  <1>4. \/ /\ threadMutex'[g] = threadMutex[g] /\ active'[g] = active[g] /\ timer'[g] = timer[g]
           /\ pc[c] \notin {"cancelling", "starting"} /\ pc'[c] \notin {"cancelling", "starting"}
        \/ /\ threadMutex[g] = NoClient /\ threadMutex'[g] = c /\ ~active'[g]
           /\ pc'[c] \in {"cancelling", "starting"}
        \/ /\ threadMutex'[g] = NoClient
           /\ pc[c] \in {"cancelling", "starting"} /\ pc'[c] \notin {"cancelling", "starting"}
    <2>1. CASE Subscribe(c) \/ Unsubscribe(c)
      BY <1>1, <2>1 DEF TypeOK, timers, Goto, Subscribe, Unsubscribe
    <2>2. CASE Cancel(c) \/ Start(c)
      BY <1>1, <2>2 DEF TypeOK, Goto, Cancel, Start
    <2>3. CASE Cancelled(c) \/ Started(c)
      BY <1>1, <2>3 DEF TypeOK, Goto, Cancelled, Started
    <2>4. QED
      BY <2>1, <2>2, <2>3 DEF ClientStep
  <1>5. ASSUME NEW h \in Groups, NEW d \in Clients
        PROVE  threadMutex'[h] = d <=> GroupOf[d] = h /\ pc'[d] \in {"cancelling", "starting"}
    <2>1. CASE h # g
      BY <1>2, <1>3, <2>1 DEF JoinInv
    <2>2. CASE h = g /\ d = c
      BY <1>1, <1>4, <2>2 DEF JoinInv
    <2>3. CASE h = g /\ d # c
      <3>1. threadMutex[g] = c => threadMutex[g] # d
        BY <2>3
      <3>2. QED
        BY <1>1, <1>2, <1>4, <2>3, <3>1 DEF JoinInv
    <2>4. QED
      BY <2>1, <2>2, <2>3
  <1>6. ASSUME NEW h \in Groups, threadMutex'[h] # NoClient
        PROVE  ~active'[h]
    BY <1>3, <1>4, <1>6 DEF JoinInv
  <1>7. JoinsAdvance
    <2> SUFFICES ASSUME NEW h \in Groups, threadMutex[h] # NoClient, threadMutex'[h] # NoClient
                 PROVE  timer'[h] = timer[h]
      BY DEF JoinsAdvance
    <2>1. QED
      BY <1>3, <1>4
  <1>8. QED
    BY <1>1, <1>5, <1>6, <1>7 DEF JoinInv

(* The thread of a timer only moves on, and sets active_ to FALSE.            *)
LEMMA ThreadJoins ==
    ASSUME JoinInv, NEW g \in Groups, TimerThread(g)
    PROVE  JoinInv' /\ JoinsAdvance
  <1>1. TypeOK /\ SubscriptionInv' /\ UNCHANGED <<threadMutex, pc>>
    BY TimerInvariant DEF JoinInv, SubscriptionInv, TimerThread, Wake, Check, Run, Finish, TimerStep
  <1>2. \A h \in Groups : active'[h] => active[h]
    BY <1>1 DEF TypeOK, TimerThread, Wake, Check, Run, Finish
  <1>3. \A h \in Groups \ {g} : timer'[h] = timer[h]
    BY <1>1 DEF TypeOK, TimerThread, Wake, Check, Run, Finish, TimerStep
  <1>4. StepsLeft(timer'[g]) < StepsLeft(timer[g])
    <2>1. \/ timer[g] = "waiting" /\ timer'[g] \in {"due", "none"}
          \/ timer[g] = "due" /\ timer'[g] \in {"task", "none"}
          \/ timer[g] = "task" /\ timer'[g] = "ran"
          \/ timer[g] = "ran" /\ timer'[g] = "none"
      BY <1>1 DEF TypeOK, TimerThread, Wake, Check, Run, Finish, TimerStep
    <2>2. QED
      BY <2>1 DEF StepsLeft
  <1>5. QED
    BY <1>1, <1>2, <1>3, <1>4 DEF JoinInv, JoinsAdvance

LEMMA StepJoins == JoinInv /\ [Next]_vars => JoinInv' /\ JoinsAdvance
  <1> SUFFICES ASSUME JoinInv, [Next]_vars PROVE JoinInv' /\ JoinsAdvance
    OBVIOUS
  <1>1. CASE \E c \in Clients : Subscribe(c) \/ Unsubscribe(c) \/ ClientStep(c)
    BY <1>1, ClientJoins
  <1>2. CASE \E g \in Groups : TimerThread(g)
    BY <1>2, ThreadJoins
  <1>3. ASSUME UNCHANGED <<timers, pc>>
        PROVE  JoinInv' /\ JoinsAdvance
    <2>1. SubscriptionInv'
      BY NextInvariant DEF JoinInv
    <2>2. QED
      BY <1>3, <2>1 DEF JoinInv, JoinsAdvance, timers
  <1>4. CASE \E g \in Groups : SourceRestart(g) \/ Recovery(g)
    BY <1>3, <1>4 DEF SourceRestart, Recovery, ResetAdapterState, RetryFailedAdapters
  <1>5. CASE UNCHANGED vars
    BY <1>3, <1>5 DEF vars
  <1>6. QED
    BY <1>1, <1>2, <1>4, <1>5 DEF Next

(* A group has one client at a time that cancels or starts its timer, the one *)
(* that holds its threadMutex_, and active_ stays FALSE until it is done.     *)
THEOREM JoinInvariant == Spec => []JoinInv
  BY InitJoin, StepJoins, PTL DEF Spec

(* Whoever joins the thread of a timer joins one that only gets closer to its *)
(* end: Start and Cancel of other clients cannot put a new thread in place of *)
(* it, so the wait is for at most four steps of that thread.                  *)
THEOREM JoinsEnd == Spec => [][JoinsAdvance]_vars
  <1>1. JoinInv /\ [Next]_vars => [JoinsAdvance]_vars
    BY StepJoins
  <1>2. QED
    BY <1>1, JoinInvariant, PTL DEF Spec

-----------------------------------------------------------------------------
(* The refinement: events are cut off only while nobody listens.              *)

Heard == [g \in Groups |-> Listeners(g)]
Gone == {g \in Groups : source[g] # "up"}

LEMMA SubscribeListens ==
    ASSUME SubscriptionInv, NEW c \in Clients, Subscribe(c)
    PROVE  Promise!Listen(c)
  <1> DEFINE g == GroupOf[c]
  <1> USE SubscriptionAssumption DEF SubscriptionInv
  <1>0. g \in Groups /\ c \notin subscriptions
    BY DEF EntriesAreHeld, Subscribe
  <1>1. \A h \in Groups : /\ Listeners(h)' = IF h = g THEN Listeners(h) \cup {c} ELSE Listeners(h)
                          /\ c \notin Listeners(h)
    BY <1>0, EntryAdded DEF Subscribe
  <1>2. Heard' = [Heard EXCEPT ![g] = Heard[g] \cup {c}]
    BY <1>0, <1>1 DEF Heard
  <1>3. \E on \in {registered[g], TRUE} : registered' = [registered EXCEPT ![g] = on]
    <2>1. CASE adapter[g] /\ isSubscribed[g]
      BY <2>1, <1>0 DEF Subscribe, TypeOK
    <2>2. CASE ~(adapter[g] /\ isSubscribed[g])
      <3>1. SubscribeEvent(g)
        BY <2>2 DEF Subscribe
      <3>2. /\ registered' = [registered EXCEPT ![g] = registered'[g]]
            /\ registered'[g] \in BOOLEAN
            /\ registered[g] => registered'[g]
        BY <1>0, <3>1, SubscribeEventEffect
      <3>3. registered'[g] \in {registered[g], TRUE}
        BY <1>0, <3>2 DEF TypeOK
      <3>4. QED
        BY <3>2, <3>3
    <2>3. QED
      BY <2>1, <2>2
  <1>4. Gone' = Gone
    BY DEF Subscribe, Gone
  <1>5. c \notin Heard[g]
    BY <1>0, <1>1 DEF Heard
  <1>6. QED
    BY <1>2, <1>3, <1>4, <1>5 DEF Promise!Listen, Heard, Gone

LEMMA UnsubscribeLeaves ==
    ASSUME SubscriptionInv, NEW c \in Clients, Unsubscribe(c)
    PROVE  Promise!Leave(c)
  <1> DEFINE g == GroupOf[c]
  <1> USE SubscriptionAssumption DEF SubscriptionInv
  <1>0. g \in Groups /\ c \in subscriptions
    BY DEF EntriesAreHeld, Unsubscribe
  <1>1. \A h \in Groups : /\ Listeners(h)' = IF h = g THEN Listeners(h) \ {c} ELSE Listeners(h)
                          /\ h = g => c \in Listeners(h)
    BY <1>0, EntryRemoved DEF Unsubscribe
  <1>2. Heard' = [Heard EXCEPT ![g] = Heard[g] \ {c}] /\ c \in Heard[g]
    BY <1>0, <1>1 DEF Heard
  <1>3. registered' = registered /\ Gone' = Gone
    BY DEF Unsubscribe, outside, Gone
  <1>4. QED
    BY <1>2, <1>3 DEF Promise!Leave, Heard, Gone

(* The task of the timer cuts off a group nobody listens to, or does nothing. *)
LEMMA TimerCuts ==
    ASSUME SubscriptionInv, NEW g \in Groups, TimerThread(g)
    PROVE  Promise!Cut(g) \/ UNCHANGED Promise!vars
  <1> USE DEF SubscriptionInv
  <1>1. Heard' = Heard /\ Gone' = Gone
    BY DEF TimerThread, Wake, Check, Run, Finish, TimerStep, state, Heard, Gone, Listeners
  <1>2. \/ UNCHANGED registered
        \/ /\ refCount[g] = 0
           /\ \E ok \in BOOLEAN : registered' = [registered EXCEPT ![g] = registered[g] /\ ~ok]
    BY DEF TimerThread, Wake, Check, Run, Finish
  <1>3. CASE UNCHANGED registered
    BY <1>1, <1>3 DEF Promise!vars, Heard, Gone
  <1>4. ASSUME refCount[g] = 0, NEW ok \in BOOLEAN,
               registered' = [registered EXCEPT ![g] = registered[g] /\ ~ok]
        PROVE  Promise!Cut(g) \/ UNCHANGED Promise!vars
    <2>1. Heard[g] = {}
      BY <1>4, NobodyListens DEF Heard
    <2>2. registered' = registered \/ registered' = [registered EXCEPT ![g] = FALSE]
      BY <1>4 DEF TypeOK
    <2>3. QED
      BY <1>1, <2>1, <2>2 DEF Promise!vars, Promise!Cut, Heard, Gone
  <1>5. QED
    BY <1>2, <1>3, <1>4

LEMMA RetryRecovers ==
    ASSUME SubscriptionInv, NEW g \in Groups, RetryFailedAdapters(g)
    PROVE  Promise!Recover(g)
  <1> USE DEF SubscriptionInv
  <1>1. Heard' = Heard
    BY DEF RetryFailedAdapters, Heard, Listeners
  <1>2. g \in Gone /\ Gone' = Gone \ {g}
    BY DEF TypeOK, RetryFailedAdapters, Gone
  <1>3. \E on \in {registered[g], TRUE} : registered' = [registered EXCEPT ![g] = on]
    <2>1. CASE registered' = registered
      BY <2>1 DEF TypeOK
    <2>2. CASE SubscribeEvent(g)
      <3>1. /\ registered' = [registered EXCEPT ![g] = registered'[g]]
            /\ registered'[g] \in BOOLEAN
            /\ registered[g] => registered'[g]
        BY <2>2, SubscribeEventEffect
      <3>2. registered'[g] \in {registered[g], TRUE}
        BY <3>1 DEF TypeOK
      <3>3. QED
        BY <3>1, <3>2
    <2>3. QED
      BY <2>1, <2>2 DEF RetryFailedAdapters
  <1>4. QED
    BY <1>1, <1>2, <1>3 DEF Promise!Recover, Heard, Gone

LEMMA StepKeepsPromise ==
    ASSUME SubscriptionInv, [Next]_vars
    PROVE  [Promise!Next]_(Promise!vars)
  <1> USE SubscriptionAssumption
  <1>1. ASSUME NEW c \in Clients, Subscribe(c) \/ Unsubscribe(c) \/ ClientStep(c)
        PROVE  [Promise!Next]_(Promise!vars)
    <2>1. CASE Subscribe(c) \/ Unsubscribe(c)
      BY <2>1, SubscribeListens, UnsubscribeLeaves DEF Promise!Next
    <2>2. CASE ClientStep(c)
      <3>1. UNCHANGED <<subscriptions, registered, source>>
        BY <2>2 DEF ClientStep, Cancel, Cancelled, Start, Started, state, outside
      <3>2. QED
        BY <3>1 DEF Promise!vars, Listeners
    <2>3. QED
      BY <1>1, <2>1, <2>2
  <1>2. ASSUME NEW g \in Groups, TimerThread(g) \/ SourceRestart(g) \/ Recovery(g)
        PROVE  [Promise!Next]_(Promise!vars)
    <2>1. CASE TimerThread(g)
      BY <2>1, TimerCuts DEF Promise!Next
    <2>2. CASE SourceRestart(g)
      <3>1. Heard' = Heard /\ Gone' = Gone \cup {g}
        BY <2>2 DEF SubscriptionInv, TypeOK, SourceRestart, state, Heard, Gone, Listeners
      <3>2. Promise!Lose(g)
        BY <2>2, <3>1 DEF SourceRestart, Promise!Lose, Heard, Gone
      <3>3. QED
        BY <3>2 DEF Promise!Next
    <2>3. CASE ResetAdapterState(g)
      <3>1. Heard' = Heard /\ Gone' = Gone /\ registered' = registered
        BY <2>3 DEF SubscriptionInv, TypeOK, ResetAdapterState, Heard, Gone, Listeners
      <3>2. QED
        BY <3>1 DEF Promise!vars, Heard, Gone
    <2>4. CASE RetryFailedAdapters(g)
      BY <2>4, RetryRecovers DEF Promise!Next
    <2>5. QED
      BY <1>2, <2>1, <2>2, <2>3, <2>4 DEF Recovery
  <1>3. ASSUME UNCHANGED vars
        PROVE  [Promise!Next]_(Promise!vars)
    BY <1>3 DEF vars, state, outside, Promise!vars, Listeners
  <1>4. QED
    BY <1>1, <1>2, <1>3 DEF Next

(* Every behaviour of the manager is one of the abstract specification.       *)
THEOREM SubscriptionsKeepPromise == Spec => KeepsPromise
  <1>1. Init => Promise!Init
    BY DEF Init, Promise!Init, Listeners
  <1>2. SubscriptionInv /\ [Next]_vars => [Promise!Next]_(Promise!vars)
    BY StepKeepsPromise
  <1>3. QED
    BY <1>1, <1>2, SubscriptionInvariant, PTL DEF Spec, KeepsPromise, Promise!Spec
=============================================================================
