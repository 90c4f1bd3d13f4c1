--------------------- MODULE EnterpriseConnectionsProofs ---------------------
(* Proofs about EnterpriseConnections, for every set of callers and of        *)
(* connections.  TypeOK, PendingIsServed and ProxyIsWatched are inductive     *)
(* together; InOnePlace and OneInCalm need what follows.                      *)
EXTENDS EnterpriseConnections, FiniteSetTheorems, TLAPS

(* Where a thread holds a connection, and that a handler has strategies only  *)
(* while it executes them.                                                    *)
HoldsConnection ==
    \A a \in Actors : call[a].pc \in {"execute", "disconnect", "replace", "store"} => call[a].c \in Conns

CallbacksAreFlushed == \A c \in Conns : conn[c].at # "flushing" => conn[c].callbacks = {}

(* InOnePlace without cardinalities. *)
Held(t) == call[t].pc \in {"execute", "requeue"}
Placed(t) ==
    /\ t \in finished <=> t \notin Pending /\ ~Held(t) /\ \A c \in Conns : t \notin conn[c].callbacks
    /\ ~(t \in Pending /\ Held(t))
    /\ \A c \in Conns : t \in conn[c].callbacks => t \notin Pending /\ ~Held(t)
    /\ \A c, d \in Conns : t \in conn[c].callbacks /\ t \in conn[d].callbacks => c = d

(* As long as nothing has gone wrong, one thread connects, no connection is   *)
(* stale or ends, and a proxy that somebody uses is there.                    *)
Connecting(a) == call[a].pc \in {"establish", "connect", "store"}
Alone == \A c, d \in Conns : conn[c].at # "ended" /\ conn[d].at # "ended" => c = d
Resting == info = NoInfo => /\ \A c \in Conns : conn[c].at = "ended"
                            /\ \A a \in Actors : call[a].pc = "idle"
Timely == info # NoInfo => ~info.aged /\ (info.proxy # None => conn[info.proxy].at # "ended")
Healthy == \A c \in Conns : ~conn[c].isStale /\ conn[c].at \notin {"failing", "dying"}
Straight ==
    \A a \in Actors : /\ call[a].pc \in {"idle", "execute", "establish", "connect", "store"}
                      /\ call[a].pc = "execute" => conn[call[a].c].at # "ended"
                      /\ Connecting(a) => info.callback = None
                      /\ call[a].pc \in {"establish", "connect"} => \A c \in Conns : conn[c].at = "ended"
OneConnects == \A a, b \in Actors : Connecting(a) /\ Connecting(b) => a = b
CalmInv == calm => Alone /\ Resting /\ Timely /\ Healthy /\ Straight /\ OneConnects

ConnInv ==
    /\ TypeOK /\ HoldsConnection /\ CallbacksAreFlushed
    /\ PendingIsServed /\ ProxyIsWatched
    /\ \A t \in Callers : Placed(t)
    /\ CalmInv

-----------------------------------------------------------------------------

(* What MarkStale and the end of a handler do to each connection. *)
LEMMA MarkStaleEffect ==
    ASSUME conn \in [Conns -> Connections], NEW c \in Conns, MarkStale(c)
    PROVE  /\ conn' \in [Conns -> Connections]
           /\ \A d \in Conns : /\ d # c => conn'[d] = conn[d]
                               /\ conn'[d].callbacks = conn[d].callbacks
                               /\ conn'[d].at \in {conn[d].at, "ended"}
                               /\ conn[d].at \in {"saving", "flushing", "failing", "dying", "ended"} =>
                                      conn'[d].at = conn[d].at
<1>. conn[c] \in Connections
  OBVIOUS
<1>1. CASE conn[c].at \in {"connecting", "connected"}
  <2>. DEFINE r == [at |-> "ended", isStale |-> conn[c].isStale, callbacks |-> conn[c].callbacks]
  <2>1. conn' = [conn EXCEPT ![c] = [conn[c] EXCEPT !.at = "ended"]]
    BY <1>1 DEF MarkStale
  <2>2. [conn[c] EXCEPT !.at = "ended"] = r
    BY DEF Connections
  <2>3. r \in Connections
    BY DEF Connections
  <2>4. conn' = [conn EXCEPT ![c] = r]
    BY <2>1, <2>2, Zenon
  <2>5. r.at = "ended" /\ r.callbacks = conn[c].callbacks
    OBVIOUS
  <2>. HIDE DEF r
  <2>. QED
    BY <1>1, <2>3, <2>4, <2>5
<1>2. CASE conn[c].at \notin {"connecting", "connected"}
  <2>. DEFINE r == [at |-> conn[c].at, isStale |-> conn[c].at \in {"saving", "flushing"},
                    callbacks |-> conn[c].callbacks]
  <2>1. conn' = [conn EXCEPT ![c] = [conn[c] EXCEPT !.isStale = conn[c].at \in {"saving", "flushing"}]]
    BY <1>2 DEF MarkStale
  <2>2. [conn[c] EXCEPT !.isStale = conn[c].at \in {"saving", "flushing"}] = r
    BY DEF Connections
  <2>3. r \in Connections
    BY DEF Connections
  <2>4. conn' = [conn EXCEPT ![c] = r]
    BY <2>1, <2>2, Zenon
  <2>5. r.at = conn[c].at /\ r.callbacks = conn[c].callbacks
    OBVIOUS
  <2>. HIDE DEF r
  <2>. QED
    BY <2>3, <2>4, <2>5
<1>. QED
  BY <1>1, <1>2

LEMMA EndedRecord ==
    ASSUME NEW r \in Connections, NEW place, NEW x, x = [r EXCEPT !.at = place, !.isStale = FALSE]
    PROVE  x = [at |-> place, isStale |-> FALSE, callbacks |-> r.callbacks]
  BY DEF Connections

LEMMA HandlerEndsEffect ==
    ASSUME conn \in [Conns -> Connections], NEW c \in Conns, HandlerEnds(c)
    PROVE  /\ conn' \in [Conns -> Connections]
           /\ conn'[c].at = IF conn[c].isStale THEN "ended" ELSE "connected"
           /\ conn'[c].isStale = FALSE /\ conn'[c].callbacks = conn[c].callbacks
           /\ \A d \in Conns : d # c => conn'[d] = conn[d]
<1>1. conn[c] \in Connections
  OBVIOUS
<1>2. ASSUME NEW p \in {"ended", "connected"}, conn' = [conn EXCEPT ![c].at = p, ![c].isStale = FALSE]
      PROVE  /\ conn' \in [Conns -> Connections]
             /\ conn'[c].at = p /\ conn'[c].isStale = FALSE /\ conn'[c].callbacks = conn[c].callbacks
             /\ \A d \in Conns : d # c => conn'[d] = conn[d]
  <2>. DEFINE r == [at |-> p, isStale |-> FALSE, callbacks |-> conn[c].callbacks]
  <2>1. conn' = [conn EXCEPT ![c] = [conn[c] EXCEPT !.at = p, !.isStale = FALSE]]
    BY <1>2
  <2>2. [conn[c] EXCEPT !.at = p, !.isStale = FALSE] = r
    BY <1>1, EndedRecord
  <2>3. conn' = [conn EXCEPT ![c] = r]
    BY <2>1, <2>2, Zenon
  <2>4. r \in Connections /\ r.at = p /\ r.isStale = FALSE /\ r.callbacks = conn[c].callbacks
    BY <1>1 DEF Connections
  <2>. HIDE DEF r
  <2>. QED
    BY <2>3, <2>4
<1>3. CASE conn[c].isStale
  BY <1>2, <1>3 DEF HandlerEnds
<1>4. CASE ~conn[c].isStale
  BY <1>2, <1>4 DEF HandlerEnds
<1>. QED
  BY <1>3, <1>4

LEMMA InfoRecord ==
    ASSUME NEW p \in Conns \cup {None}, NEW c \in Conns \cup {None}, NEW q \in SUBSET Strategies,
           NEW b \in BOOLEAN, NEW g \in BOOLEAN
    PROVE  /\ [proxy |-> p, callback |-> c, isPending |-> b, aged |-> g, pendingCallbacks |-> q] \in Infos
           /\ [proxy |-> p, callback |-> c, isPending |-> b, aged |-> g, pendingCallbacks |-> q] # NoInfo
  BY NoInfoAssumption DEF Infos

(* The outcomes of CheckConnectionState, with the thread's reason to be there.*)
Arrives(a) == \/ a \in Callers /\ call[a].pc = "idle" /\ a \in finished
              \/ a \in Conns /\ call[a].pc = "check"

FreshQueue(a) ==
    /\ info = NoInfo \/ (info.isPending /\ info.aged)
    /\ info' = [proxy |-> None, callback |-> None, isPending |-> TRUE,
                aged |-> FALSE, pendingCallbacks |-> {Strategy(a)}]
    /\ Goto(a, "establish", None)
    /\ finished' = (finished \cup (Pending \cap Callers)) \ {a}
    /\ UNCHANGED conn \/ (Callback \in Conns /\ MarkStale(Callback))
    /\ info = NoInfo => UNCHANGED conn

UseProxy(a) ==
    /\ info # NoInfo /\ info.proxy # None
    /\ Goto(a, "execute", info.proxy)
    /\ finished' = finished \ {a}
    /\ UNCHANGED <<info, conn>>

JoinQueue(a) ==
    /\ info # NoInfo /\ info.isPending
    /\ info' = [proxy |-> None, callback |-> info.callback, isPending |-> TRUE,
                aged |-> FALSE, pendingCallbacks |-> info.pendingCallbacks \cup {Strategy(a)}]
    /\ Leave(a)
    /\ finished' = finished \ {a}
    /\ UNCHANGED conn

LEMMA CheckCases ==
    ASSUME TypeOK, NEW a \in Actors, CheckConnectionState(a)
    PROVE  calm' = calm /\ (FreshQueue(a) \/ UseProxy(a) \/ JoinQueue(a))
<1>0. calm' = calm
  BY DEF CheckConnectionState
<1>1. CASE info = NoInfo
  BY <1>0, <1>1, Zenon DEF CheckConnectionState, TimedOut, FreshQueue, Pending
<1>2. CASE info # NoInfo /\ info.isPending /\ info.aged
  <2>1. Callback # None => Callback \in Conns
    BY <1>2 DEF TypeOK, Infos, Callback
  <2>. QED
    BY <1>0, <1>2, <2>1, Zenon DEF CheckConnectionState, TimedOut, FreshQueue
<1>3. CASE info # NoInfo /\ ~(info.isPending /\ info.aged)
  <2>1. finished' = finished \ {a} /\ UNCHANGED conn
    BY <1>3 DEF CheckConnectionState, TimedOut
  <2>2. CASE info.proxy # None
    BY <1>0, <1>3, <2>1, <2>2 DEF CheckConnectionState, TimedOut, UseProxy
  <2>3. CASE info.proxy = None
    <3>1. info.isPending /\ ~info.aged
      BY <1>3, <2>3 DEF TypeOK
    <3>2. /\ info' = [info EXCEPT !.pendingCallbacks = @ \cup {Strategy(a)}, !.isPending = TRUE,
                                  !.aged = @ /\ info.isPending]
          /\ Leave(a)
      BY <1>3, <2>3, <3>1 DEF CheckConnectionState, TimedOut
    <3>3. info' = [proxy |-> None, callback |-> info.callback, isPending |-> TRUE,
                   aged |-> FALSE, pendingCallbacks |-> info.pendingCallbacks \cup {Strategy(a)}]
      <4>1. info \in Infos
        BY <1>3 DEF TypeOK
      <4>. QED
        BY <2>3, <3>1, <3>2, <4>1 DEF Infos
    <3>. QED
      BY <1>0, <1>3, <2>1, <3>1, <3>2, <3>3 DEF JoinQueue
  <2>. QED
    BY <2>2, <2>3
<1>. QED
  BY <1>1, <1>2, <1>3

LEMMA SaveProxyEffect ==
    ASSUME TypeOK, info # NoInfo, NEW c \in Conns, SaveProxy(c)
    PROVE  /\ info' = [proxy |-> c, callback |-> info.callback, isPending |-> FALSE,
                       aged |-> FALSE, pendingCallbacks |-> {}]
           /\ conn' = [conn EXCEPT ![c] = [at |-> "flushing", isStale |-> conn[c].isStale,
                                           callbacks |-> Pending]]
           /\ conn[c].at = "saving"
<1>1. info \in Infos /\ conn[c] \in Connections
  BY DEF TypeOK
<1>2. info' = [proxy |-> c, callback |-> info.callback, isPending |-> FALSE,
               aged |-> FALSE, pendingCallbacks |-> {}]
  BY <1>1 DEF SaveProxy, Infos
<1>3. conn' = [conn EXCEPT ![c] = [conn[c] EXCEPT !.at = "flushing", !.callbacks = Pending]]
  BY DEF SaveProxy
<1>4. ASSUME NEW r, r = [conn[c] EXCEPT !.at = "flushing", !.callbacks = Pending]
      PROVE  r = [at |-> "flushing", isStale |-> conn[c].isStale, callbacks |-> Pending]
  BY <1>1, <1>4 DEF Connections
<1>5. conn[c].at = "saving"
  BY DEF SaveProxy
<1>. QED
  BY <1>2, <1>3, <1>4, <1>5

LEMMA RequeueEffect ==
    ASSUME TypeOK, info # NoInfo, NEW a \in Actors, RequeueAndReconnect(a)
    PROVE  info' = [proxy |-> None, callback |-> info.callback, isPending |-> TRUE,
                    aged |-> FALSE, pendingCallbacks |-> info.pendingCallbacks \cup {Strategy(a)}]
<1>1. info \in Infos
  BY DEF TypeOK
<1>. QED
  BY <1>1 DEF RequeueAndReconnect, Infos

LEMMA NewQueueEffect ==
    ASSUME TypeOK, NEW a \in Actors, FreshQueue(a) \/ JoinQueue(a)
    PROVE  /\ info' # NoInfo
           /\ FreshQueue(a) => info'.pendingCallbacks = {Strategy(a)}
           /\ JoinQueue(a) => info'.pendingCallbacks = info.pendingCallbacks \cup {Strategy(a)}
<1>1. Strategy(a) \in Strategies
  BY DEF Strategy, Strategies
<1>2. CASE FreshQueue(a)
  BY <1>1, <1>2, InfoRecord DEF FreshQueue, JoinQueue
<1>3. CASE JoinQueue(a)
  <2>1. info \in Infos /\ info # NoInfo
    BY <1>3 DEF JoinQueue, TypeOK
  <2>2. /\ info.callback \in Conns \cup {None}
        /\ info.pendingCallbacks \cup {Strategy(a)} \in SUBSET Strategies
    BY <1>1, <2>1 DEF Infos
  <2>. QED
    BY <1>3, <2>2, InfoRecord DEF JoinQueue, FreshQueue
<1>. QED
  BY <1>2, <1>3

LEMMA StoreEffect ==
    ASSUME TypeOK, HoldsConnection, info # NoInfo, NEW a \in Actors, StoreCallback(a)
    PROVE  info' # NoInfo /\ info'.pendingCallbacks = info.pendingCallbacks
<1>1. info \in Infos /\ info' = [info EXCEPT !.callback = call[a].c] /\ call[a].c \in Conns
  BY DEF StoreCallback, TypeOK, HoldsConnection
<1>2. info' \in Infos /\ info'.pendingCallbacks = info.pendingCallbacks
  BY <1>1 DEF Infos
<1>. QED
  BY <1>2, NoInfoAssumption

(* The steps, with CheckConnectionState as its three outcomes. *)
LEMMA StepCases ==
    ASSUME TypeOK, [Next]_vars
    PROVE  \/ \E a \in Actors : Arrives(a) /\ calm' = calm /\ FreshQueue(a)
           \/ \E a \in Actors : Arrives(a) /\ calm' = calm /\ UseProxy(a)
           \/ \E a \in Actors : Arrives(a) /\ calm' = calm /\ JoinQueue(a)
           \/ \E a \in Actors : Execute(a)
           \/ \E a \in Actors : RequeueAndReconnect(a)
           \/ \E a \in Actors : EstablishConnection(a)
           \/ \E a \in Actors : DisconnectStaleCallback(a)
           \/ \E a \in Actors : Connect(a)
           \/ \E a \in Actors : StoreCallback(a)
           \/ \E a \in Actors : ConnectFailed(a)
           \/ \E c \in Conns : OnAbilityConnectDone(c)
           \/ \E c \in Conns : SaveProxy(c)
           \/ \E c \in Conns, s \in Strategies : FlushOne(c, s)
           \/ \E c \in Conns : Flushed(c)
           \/ \E c \in Conns : RemoveRemoteObject(c)
           \/ \E c \in Conns : OnAbilityDisconnectDone(c)
           \/ Elapse
           \/ ClearConnections
           \/ UNCHANGED vars
<1>1. ASSUME NEW t \in Callers, ExecuteCallback(t)
      PROVE  t \in Actors /\ Arrives(t) /\ CheckConnectionState(t)
  BY <1>1 DEF ExecuteCallback, Arrives, Actors
<1>2. ASSUME NEW c \in Conns, ExecuteStart(c)
      PROVE  c \in Actors /\ Arrives(c) /\ CheckConnectionState(c)
  BY <1>2 DEF ExecuteStart, Arrives, Actors
<1>3. CASE \E a \in Actors : Arrives(a) /\ CheckConnectionState(a)
  BY <1>3, CheckCases
<1>4. CASE \E a \in Actors : CallStep(a)
  BY <1>4, Zenon DEF CallStep
<1>5. CASE \E c \in Conns : HandlerStep(c) \/ OnAbilityDisconnectDone(c)
  BY <1>2, <1>3, <1>5, Zenon DEF HandlerStep
<1>. QED
  BY <1>1, <1>3, <1>4, <1>5, Zenon DEF Next

(* Every step keeps the types and what a thread holds. *)
LEMMA TypeStep ==
    ASSUME TypeOK, HoldsConnection, [Next]_vars
    PROVE  TypeOK' /\ HoldsConnection'
<1>1. ASSUME NEW a \in Actors, Arrives(a), calm' = calm, FreshQueue(a) PROVE TypeOK' /\ HoldsConnection'
  <2>1. info' \in Infos \cup {NoInfo}
    BY <1>1 DEF TypeOK, Infos, Strategies, Strategy, FreshQueue
  <2>2. info' # NoInfo => (info'.isPending <=> info'.proxy = None)
    BY <1>1 DEF TypeOK, FreshQueue
  <2>3. info' # NoInfo => (info'.pendingCallbacks # {} => info'.isPending)
    BY <1>1 DEF TypeOK, FreshQueue
  <2>4. conn' \in [Conns -> Connections]
    BY <1>1, MarkStaleEffect DEF TypeOK, FreshQueue
  <2>5. call' \in [Actors -> Calls]
    BY <1>1 DEF TypeOK, Calls, FreshQueue, Goto
  <2>6. finished' \subseteq Callers /\ calm' \in BOOLEAN
    BY <1>1 DEF TypeOK, FreshQueue
  <2>7. HoldsConnection'
    BY <1>1 DEF TypeOK, HoldsConnection, FreshQueue, Goto
  <2>. QED
    BY <2>1, <2>2, <2>3, <2>4, <2>5, <2>6, <2>7 DEF TypeOK
<1>2. ASSUME NEW a \in Actors, Arrives(a), calm' = calm, UseProxy(a) PROVE TypeOK' /\ HoldsConnection'
  <2>1. info' \in Infos \cup {NoInfo}
    BY <1>2 DEF TypeOK, UseProxy
  <2>2. info' # NoInfo => (info'.isPending <=> info'.proxy = None)
    BY <1>2 DEF TypeOK, UseProxy
  <2>3. info' # NoInfo => (info'.pendingCallbacks # {} => info'.isPending)
    BY <1>2 DEF TypeOK, UseProxy
  <2>4. conn' \in [Conns -> Connections]
    BY <1>2 DEF TypeOK, Connections, UseProxy
  <2>5. call' \in [Actors -> Calls]
    BY <1>2 DEF TypeOK, Infos, Calls, UseProxy, Goto
  <2>6. finished' \subseteq Callers /\ calm' \in BOOLEAN
    BY <1>2 DEF TypeOK, UseProxy
  <2>7. HoldsConnection'
    BY <1>2 DEF TypeOK, Infos, HoldsConnection, UseProxy, Goto
  <2>. QED
    BY <2>1, <2>2, <2>3, <2>4, <2>5, <2>6, <2>7 DEF TypeOK
<1>3. ASSUME NEW a \in Actors, Arrives(a), calm' = calm, JoinQueue(a) PROVE TypeOK' /\ HoldsConnection'
  <2>1. info' \in Infos \cup {NoInfo}
    BY <1>3 DEF TypeOK, Infos, Actors, Strategies, Strategy, Calls, JoinQueue, Arrives, Leave
  <2>2. info' # NoInfo => (info'.isPending <=> info'.proxy = None)
    BY <1>3 DEF TypeOK, JoinQueue
  <2>3. info' # NoInfo => (info'.pendingCallbacks # {} => info'.isPending)
    BY <1>3 DEF TypeOK, JoinQueue
  <2>4. conn' \in [Conns -> Connections]
    BY <1>3 DEF TypeOK, Connections, JoinQueue
  <2>5. call' \in [Actors -> Calls]
    BY <1>3 DEF TypeOK, Calls, JoinQueue, Leave, Goto
  <2>6. finished' \subseteq Callers /\ calm' \in BOOLEAN
    BY <1>3 DEF TypeOK, JoinQueue
  <2>7. HoldsConnection'
    BY <1>3, ConnectionAssumption DEF TypeOK, Infos, Calls, Actors, HoldsConnection, JoinQueue, Arrives, Leave, Goto
  <2>. QED
    BY <2>1, <2>2, <2>3, <2>4, <2>5, <2>6, <2>7 DEF TypeOK
<1>4. ASSUME NEW a \in Actors, Execute(a) PROVE TypeOK' /\ HoldsConnection'
  <2>1. info' \in Infos \cup {NoInfo}
    BY <1>4 DEF TypeOK, Execute
  <2>2. info' # NoInfo => (info'.isPending <=> info'.proxy = None)
    BY <1>4 DEF TypeOK, Execute
  <2>3. info' # NoInfo => (info'.pendingCallbacks # {} => info'.isPending)
    BY <1>4 DEF TypeOK, Execute
  <2>4. conn' \in [Conns -> Connections]
    BY <1>4 DEF TypeOK, Connections, Execute
  <2>5. call' \in [Actors -> Calls]
    BY <1>4 DEF TypeOK, Calls, Execute, Leave, Goto
  <2>6. finished' \subseteq Callers /\ calm' \in BOOLEAN
    BY <1>4 DEF TypeOK, Finish, Execute, Fault
  <2>7. HoldsConnection'
    BY <1>4 DEF TypeOK, HoldsConnection, Execute, Leave, Goto
  <2>. QED
    BY <2>1, <2>2, <2>3, <2>4, <2>5, <2>6, <2>7 DEF TypeOK
<1>5. ASSUME NEW a \in Actors, RequeueAndReconnect(a) PROVE TypeOK' /\ HoldsConnection'
  <2>1. info' \in Infos \cup {NoInfo}
    <3>1. CASE info = NoInfo
      BY <1>5, <3>1 DEF RequeueAndReconnect
    <3>2. CASE info # NoInfo
      <4>1. info \in Infos
        BY <3>2 DEF TypeOK
      <4>2. Strategy(a) \in Strategies
        BY DEF Strategies, Strategy
      <4>3. info.pendingCallbacks \cup {Strategy(a)} \subseteq Strategies
        BY <4>1, <4>2 DEF Infos
      <4>4. info' = [proxy |-> None, callback |-> info.callback, isPending |-> TRUE,
                     aged |-> FALSE, pendingCallbacks |-> info.pendingCallbacks \cup {Strategy(a)}]
        BY <1>5, <3>2, RequeueEffect
      <4>. QED
        BY <4>1, <4>3, <4>4 DEF Infos
    <3>. QED
      BY <3>1, <3>2
  <2>2. info' # NoInfo => (info'.isPending <=> info'.proxy = None)
    BY <1>5, RequeueEffect DEF TypeOK, RequeueAndReconnect
  <2>3. info' # NoInfo => (info'.pendingCallbacks # {} => info'.isPending)
    BY <1>5, RequeueEffect DEF TypeOK, RequeueAndReconnect
  <2>4. conn' \in [Conns -> Connections]
    BY <1>5 DEF TypeOK, Connections, RequeueAndReconnect
  <2>5. call' \in [Actors -> Calls]
    BY <1>5 DEF TypeOK, Infos, Calls, RequeueAndReconnect, Leave, Goto
  <2>6. finished' \subseteq Callers /\ calm' \in BOOLEAN
    BY <1>5 DEF TypeOK, Finish, RequeueAndReconnect
  <2>7. HoldsConnection'
    BY <1>5 DEF TypeOK, Infos, HoldsConnection, RequeueAndReconnect, Leave, Goto
  <2>. QED
    BY <2>1, <2>2, <2>3, <2>4, <2>5, <2>6, <2>7 DEF TypeOK
<1>6. ASSUME NEW a \in Actors, EstablishConnection(a) PROVE TypeOK' /\ HoldsConnection'
  <2>1. info' \in Infos \cup {NoInfo}
    BY <1>6 DEF TypeOK, EstablishConnection
  <2>2. info' # NoInfo => (info'.isPending <=> info'.proxy = None)
    BY <1>6 DEF TypeOK, EstablishConnection
  <2>3. info' # NoInfo => (info'.pendingCallbacks # {} => info'.isPending)
    BY <1>6 DEF TypeOK, EstablishConnection
  <2>4. conn' \in [Conns -> Connections]
    BY <1>6 DEF TypeOK, Connections, EstablishConnection
  <2>5. call' \in [Actors -> Calls]
    BY <1>6 DEF TypeOK, Infos, Calls, Callback, EstablishConnection, Goto
  <2>6. finished' \subseteq Callers /\ calm' \in BOOLEAN
    BY <1>6 DEF TypeOK, history, EstablishConnection
  <2>7. HoldsConnection'
    BY <1>6 DEF TypeOK, Infos, Callback, HoldsConnection, EstablishConnection, Goto
  <2>. QED
    BY <2>1, <2>2, <2>3, <2>4, <2>5, <2>6, <2>7 DEF TypeOK
<1>7. ASSUME NEW a \in Actors, DisconnectStaleCallback(a) PROVE TypeOK' /\ HoldsConnection'
  <2>1. info' \in Infos \cup {NoInfo}
    BY <1>7 DEF TypeOK, DisconnectStaleCallback
  <2>2. info' # NoInfo => (info'.isPending <=> info'.proxy = None)
    BY <1>7 DEF TypeOK, DisconnectStaleCallback
  <2>3. info' # NoInfo => (info'.pendingCallbacks # {} => info'.isPending)
    BY <1>7 DEF TypeOK, DisconnectStaleCallback
  <2>4. conn' \in [Conns -> Connections]
    BY <1>7, MarkStaleEffect DEF TypeOK, HoldsConnection, DisconnectStaleCallback
  <2>5. call' \in [Actors -> Calls]
    BY <1>7 DEF TypeOK, Calls, DisconnectStaleCallback, Goto
  <2>6. finished' \subseteq Callers /\ calm' \in BOOLEAN
    BY <1>7 DEF TypeOK, history, DisconnectStaleCallback
  <2>7. HoldsConnection'
    BY <1>7 DEF TypeOK, HoldsConnection, DisconnectStaleCallback, Goto
  <2>. QED
    BY <2>1, <2>2, <2>3, <2>4, <2>5, <2>6, <2>7 DEF TypeOK
<1>8. ASSUME NEW a \in Actors, Connect(a) PROVE TypeOK' /\ HoldsConnection'
  <2>1. info' \in Infos \cup {NoInfo}
    BY <1>8 DEF TypeOK, Connect, Unused
  <2>2. info' # NoInfo => (info'.isPending <=> info'.proxy = None)
    BY <1>8 DEF TypeOK, Connect, Unused
  <2>3. info' # NoInfo => (info'.pendingCallbacks # {} => info'.isPending)
    BY <1>8 DEF TypeOK, Connect, Unused
  <2>4. conn' \in [Conns -> Connections]
    <3>1. [at |-> "connecting", isStale |-> FALSE, callbacks |-> {}] \in Connections
      BY DEF Connections
    <3>. QED
      BY <1>8, <3>1 DEF TypeOK, Connect
  <2>5. call' \in [Actors -> Calls]
    BY <1>8 DEF TypeOK, Calls, Connect, Unused, Goto
  <2>6. finished' \subseteq Callers /\ calm' \in BOOLEAN
    BY <1>8 DEF TypeOK, Connect, Unused, Fault
  <2>7. HoldsConnection'
    BY <1>8 DEF TypeOK, HoldsConnection, Connect, Unused, Goto
  <2>. QED
    BY <2>1, <2>2, <2>3, <2>4, <2>5, <2>6, <2>7 DEF TypeOK
<1>9. ASSUME NEW a \in Actors, StoreCallback(a) PROVE TypeOK' /\ HoldsConnection'
  <2>1. info' \in Infos \cup {NoInfo}
    BY <1>9 DEF TypeOK, Infos, Calls, StoreCallback
  <2>2. info' # NoInfo => (info'.isPending <=> info'.proxy = None)
    BY <1>9 DEF TypeOK, StoreCallback
  <2>3. info' # NoInfo => (info'.pendingCallbacks # {} => info'.isPending)
    BY <1>9 DEF TypeOK, StoreCallback
  <2>4. conn' \in [Conns -> Connections]
    BY <1>9 DEF TypeOK, Connections, StoreCallback
  <2>5. call' \in [Actors -> Calls]
    BY <1>9 DEF TypeOK, Calls, StoreCallback, Leave, Goto
  <2>6. finished' \subseteq Callers /\ calm' \in BOOLEAN
    BY <1>9 DEF TypeOK, history, StoreCallback
  <2>7. HoldsConnection'
    BY <1>9 DEF TypeOK, HoldsConnection, StoreCallback, Leave, Goto
  <2>. QED
    BY <2>1, <2>2, <2>3, <2>4, <2>5, <2>6, <2>7 DEF TypeOK
<1>10. ASSUME NEW a \in Actors, ConnectFailed(a) PROVE TypeOK' /\ HoldsConnection'
  <2>1. info' \in Infos \cup {NoInfo}
    BY <1>10 DEF TypeOK, ConnectFailed
  <2>2. info' # NoInfo => (info'.isPending <=> info'.proxy = None)
    BY <1>10 DEF TypeOK, ConnectFailed
  <2>3. info' # NoInfo => (info'.pendingCallbacks # {} => info'.isPending)
    BY <1>10 DEF TypeOK, ConnectFailed
  <2>4. conn' \in [Conns -> Connections]
    BY <1>10 DEF TypeOK, Connections, ConnectFailed
  <2>5. call' \in [Actors -> Calls]
    BY <1>10 DEF TypeOK, Calls, ConnectFailed, Leave, Goto
  <2>6. finished' \subseteq Callers /\ calm' \in BOOLEAN
    BY <1>10 DEF TypeOK, Finish, ConnectFailed
  <2>7. HoldsConnection'
    BY <1>10 DEF TypeOK, HoldsConnection, ConnectFailed, Leave, Goto
  <2>. QED
    BY <2>1, <2>2, <2>3, <2>4, <2>5, <2>6, <2>7 DEF TypeOK
<1>11. ASSUME NEW c \in Conns, OnAbilityConnectDone(c) PROVE TypeOK' /\ HoldsConnection'
  <2>1. info' \in Infos \cup {NoInfo}
    BY <1>11 DEF TypeOK, OnAbilityConnectDone, HandlerGoto
  <2>2. info' # NoInfo => (info'.isPending <=> info'.proxy = None)
    BY <1>11 DEF TypeOK, OnAbilityConnectDone, HandlerGoto
  <2>3. info' # NoInfo => (info'.pendingCallbacks # {} => info'.isPending)
    BY <1>11 DEF TypeOK, OnAbilityConnectDone, HandlerGoto
  <2>4. conn' \in [Conns -> Connections]
    BY <1>11 DEF TypeOK, Connections, OnAbilityConnectDone, HandlerGoto
  <2>5. call' \in [Actors -> Calls]
    BY <1>11 DEF TypeOK, OnAbilityConnectDone, HandlerGoto
  <2>6. finished' \subseteq Callers /\ calm' \in BOOLEAN
    BY <1>11 DEF TypeOK, OnAbilityConnectDone, HandlerGoto, Fault
  <2>7. HoldsConnection'
    BY <1>11 DEF TypeOK, HoldsConnection, OnAbilityConnectDone, HandlerGoto
  <2>. QED
    BY <2>1, <2>2, <2>3, <2>4, <2>5, <2>6, <2>7 DEF TypeOK
<1>12. ASSUME NEW c \in Conns, SaveProxy(c) PROVE TypeOK' /\ HoldsConnection'
  <2>1. info' \in Infos \cup {NoInfo}
    BY <1>12 DEF TypeOK, Infos, SaveProxy
  <2>2. info' # NoInfo => (info'.isPending <=> info'.proxy = None)
    BY <1>12, ConnectionAssumption DEF TypeOK, Infos, SaveProxy
  <2>3. info' # NoInfo => (info'.pendingCallbacks # {} => info'.isPending)
    BY <1>12 DEF TypeOK, Infos, SaveProxy
  <2>4. conn' \in [Conns -> Connections]
    <3>1. CASE info = NoInfo
      BY <1>12, <3>1, HandlerEndsEffect DEF TypeOK, SaveProxy
    <3>2. CASE info # NoInfo
      BY <1>12, <3>2 DEF TypeOK, SaveProxy, Connections
    <3>. QED
      BY <3>1, <3>2
  <2>5. call' \in [Actors -> Calls]
    BY <1>12 DEF TypeOK, SaveProxy
  <2>6. finished' \subseteq Callers /\ calm' \in BOOLEAN
    BY <1>12 DEF TypeOK, history, SaveProxy
  <2>7. HoldsConnection'
    BY <1>12 DEF TypeOK, HoldsConnection, SaveProxy
  <2>. QED
    BY <2>1, <2>2, <2>3, <2>4, <2>5, <2>6, <2>7 DEF TypeOK
<1>13. ASSUME NEW c \in Conns, NEW s \in Strategies, FlushOne(c, s) PROVE TypeOK' /\ HoldsConnection'
  <2>1. info' \in Infos \cup {NoInfo}
    BY <1>13 DEF TypeOK, FlushOne
  <2>2. info' # NoInfo => (info'.isPending <=> info'.proxy = None)
    BY <1>13 DEF TypeOK, FlushOne
  <2>3. info' # NoInfo => (info'.pendingCallbacks # {} => info'.isPending)
    BY <1>13 DEF TypeOK, FlushOne
  <2>4. conn' \in [Conns -> Connections]
    BY <1>13 DEF TypeOK, Connections, FlushOne
  <2>5. call' \in [Actors -> Calls]
    BY <1>13 DEF TypeOK, FlushOne
  <2>6. finished' \subseteq Callers /\ calm' \in BOOLEAN
    BY <1>13 DEF TypeOK, Finish, FlushOne
  <2>7. HoldsConnection'
    BY <1>13 DEF TypeOK, HoldsConnection, FlushOne
  <2>. QED
    BY <2>1, <2>2, <2>3, <2>4, <2>5, <2>6, <2>7 DEF TypeOK
<1>14. ASSUME NEW c \in Conns, Flushed(c) PROVE TypeOK' /\ HoldsConnection'
  <2>1. info' \in Infos \cup {NoInfo}
    BY <1>14 DEF TypeOK, Flushed
  <2>2. info' # NoInfo => (info'.isPending <=> info'.proxy = None)
    BY <1>14 DEF TypeOK, Flushed
  <2>3. info' # NoInfo => (info'.pendingCallbacks # {} => info'.isPending)
    BY <1>14 DEF TypeOK, Flushed
  <2>4. conn' \in [Conns -> Connections]
    BY <1>14, HandlerEndsEffect DEF TypeOK, Flushed
  <2>5. call' \in [Actors -> Calls]
    BY <1>14 DEF TypeOK, Flushed
  <2>6. finished' \subseteq Callers /\ calm' \in BOOLEAN
    BY <1>14 DEF TypeOK, history, Flushed
  <2>7. HoldsConnection'
    BY <1>14 DEF TypeOK, HoldsConnection, Flushed
  <2>. QED
    BY <2>1, <2>2, <2>3, <2>4, <2>5, <2>6, <2>7 DEF TypeOK
<1>15. ASSUME NEW c \in Conns, RemoveRemoteObject(c) PROVE TypeOK' /\ HoldsConnection'
  <2>1. info' \in Infos \cup {NoInfo}
    BY <1>15 DEF TypeOK, RemoveRemoteObject, HandlerGoto, StartAgain
  <2>2. info' # NoInfo => (info'.isPending <=> info'.proxy = None)
    BY <1>15 DEF TypeOK, RemoveRemoteObject, HandlerGoto, StartAgain
  <2>3. info' # NoInfo => (info'.pendingCallbacks # {} => info'.isPending)
    BY <1>15 DEF TypeOK, RemoveRemoteObject, HandlerGoto, StartAgain
  <2>4. conn' \in [Conns -> Connections]
    BY <1>15 DEF TypeOK, Connections, RemoveRemoteObject, HandlerGoto, StartAgain
  <2>5. call' \in [Actors -> Calls]
    BY <1>15 DEF TypeOK, Calls, RemoveRemoteObject, HandlerGoto, StartAgain, Goto
  <2>6. finished' \subseteq Callers /\ calm' \in BOOLEAN
    BY <1>15 DEF TypeOK, Finish, RemoveRemoteObject, HandlerGoto, StartAgain
  <2>7. HoldsConnection'
    BY <1>15 DEF TypeOK, HoldsConnection, RemoveRemoteObject, HandlerGoto, StartAgain, Goto
  <2>. QED
    BY <2>1, <2>2, <2>3, <2>4, <2>5, <2>6, <2>7 DEF TypeOK
<1>16. ASSUME NEW c \in Conns, OnAbilityDisconnectDone(c) PROVE TypeOK' /\ HoldsConnection'
  <2>1. info' \in Infos \cup {NoInfo}
    BY <1>16 DEF TypeOK, OnAbilityDisconnectDone, HandlerGoto
  <2>2. info' # NoInfo => (info'.isPending <=> info'.proxy = None)
    BY <1>16 DEF TypeOK, OnAbilityDisconnectDone, HandlerGoto
  <2>3. info' # NoInfo => (info'.pendingCallbacks # {} => info'.isPending)
    BY <1>16 DEF TypeOK, OnAbilityDisconnectDone, HandlerGoto
  <2>4. conn' \in [Conns -> Connections]
    BY <1>16 DEF TypeOK, Connections, OnAbilityDisconnectDone, HandlerGoto
  <2>5. call' \in [Actors -> Calls]
    BY <1>16 DEF TypeOK, OnAbilityDisconnectDone, HandlerGoto
  <2>6. finished' \subseteq Callers /\ calm' \in BOOLEAN
    BY <1>16 DEF TypeOK, OnAbilityDisconnectDone, HandlerGoto, Fault
  <2>7. HoldsConnection'
    BY <1>16 DEF TypeOK, HoldsConnection, OnAbilityDisconnectDone, HandlerGoto
  <2>. QED
    BY <2>1, <2>2, <2>3, <2>4, <2>5, <2>6, <2>7 DEF TypeOK
<1>17. CASE Elapse
  <2>1. info' \in Infos \cup {NoInfo}
    BY <1>17 DEF TypeOK, Infos, Elapse
  <2>2. info' # NoInfo => (info'.isPending <=> info'.proxy = None)
    BY <1>17 DEF TypeOK, Elapse
  <2>3. info' # NoInfo => (info'.pendingCallbacks # {} => info'.isPending)
    BY <1>17 DEF TypeOK, Elapse
  <2>4. conn' \in [Conns -> Connections]
    BY <1>17 DEF TypeOK, Connections, Elapse
  <2>5. call' \in [Actors -> Calls]
    BY <1>17 DEF TypeOK, Elapse
  <2>6. finished' \subseteq Callers /\ calm' \in BOOLEAN
    BY <1>17 DEF TypeOK, Elapse, Fault
  <2>7. HoldsConnection'
    BY <1>17 DEF TypeOK, HoldsConnection, Elapse
  <2>. QED
    BY <2>1, <2>2, <2>3, <2>4, <2>5, <2>6, <2>7 DEF TypeOK
<1>18. CASE ClearConnections
  <2>1. info' \in Infos \cup {NoInfo}
    BY <1>18 DEF TypeOK, ClearConnections
  <2>2. info' # NoInfo => (info'.isPending <=> info'.proxy = None)
    BY <1>18 DEF TypeOK, ClearConnections
  <2>3. info' # NoInfo => (info'.pendingCallbacks # {} => info'.isPending)
    BY <1>18 DEF TypeOK, ClearConnections
  <2>4. conn' \in [Conns -> Connections]
    BY <1>18, MarkStaleEffect DEF TypeOK, Infos, ClearConnections, Callback
  <2>5. call' \in [Actors -> Calls]
    BY <1>18 DEF TypeOK, ClearConnections
  <2>6. finished' \subseteq Callers /\ calm' \in BOOLEAN
    BY <1>18 DEF TypeOK, Finish, ClearConnections, Fault
  <2>7. HoldsConnection'
    BY <1>18 DEF TypeOK, HoldsConnection, ClearConnections
  <2>. QED
    BY <2>1, <2>2, <2>3, <2>4, <2>5, <2>6, <2>7 DEF TypeOK
<1>19. CASE UNCHANGED vars
  <2>1. info' \in Infos \cup {NoInfo}
    BY <1>19 DEF TypeOK, vars
  <2>2. info' # NoInfo => (info'.isPending <=> info'.proxy = None)
    BY <1>19 DEF TypeOK, vars
  <2>3. info' # NoInfo => (info'.pendingCallbacks # {} => info'.isPending)
    BY <1>19 DEF TypeOK, vars
  <2>4. conn' \in [Conns -> Connections]
    BY <1>19 DEF TypeOK, Connections, vars
  <2>5. call' \in [Actors -> Calls]
    BY <1>19 DEF TypeOK, vars
  <2>6. finished' \subseteq Callers /\ calm' \in BOOLEAN
    BY <1>19 DEF TypeOK, vars
  <2>7. HoldsConnection'
    BY <1>19 DEF TypeOK, HoldsConnection, vars
  <2>. QED
    BY <2>1, <2>2, <2>3, <2>4, <2>5, <2>6, <2>7 DEF TypeOK
<1>. QED
  BY <1>1, <1>2, <1>3, <1>4, <1>5, <1>6, <1>7, <1>8, <1>9, <1>10, <1>11, <1>12, <1>13, <1>14, <1>15, <1>16, <1>17, <1>18, <1>19, StepCases

(* A queue keeps somebody who serves it, and a proxy somebody who watches it. *)
LEMMA ServedStep ==
    ASSUME TypeOK, TypeOK', HoldsConnection, PendingIsServed, ProxyIsWatched, [Next]_vars
    PROVE  PendingIsServed' /\ ProxyIsWatched'
<1>. /\ call \in [Actors -> Calls] /\ conn \in [Conns -> Connections]
     /\ call' \in [Actors -> Calls] /\ conn' \in [Conns -> Connections]
  BY DEF TypeOK
<1>1. ASSUME NEW a \in Actors, Arrives(a), calm' = calm, FreshQueue(a) PROVE PendingIsServed' /\ ProxyIsWatched'
  <2>1. PendingIsServed'
    BY <1>1 DEF PendingIsServed, Establishing, FreshQueue, Goto
  <2>2. ProxyIsWatched'
    BY <1>1 DEF ProxyIsWatched, Establishing, FreshQueue
  <2>. QED
    BY <2>1, <2>2 DEF PendingIsServed, ProxyIsWatched, Establishing
<1>2. ASSUME NEW a \in Actors, Arrives(a), calm' = calm, UseProxy(a) PROVE PendingIsServed' /\ ProxyIsWatched'
  <2>1. PendingIsServed'
    BY <1>2 DEF PendingIsServed, Establishing, UseProxy, Arrives, Goto
  <2>2. ProxyIsWatched'
    BY <1>2 DEF ProxyIsWatched, Establishing, UseProxy, Arrives, Goto
  <2>. QED
    BY <2>1, <2>2 DEF PendingIsServed, ProxyIsWatched, Establishing
<1>3. ASSUME NEW a \in Actors, Arrives(a), calm' = calm, JoinQueue(a) PROVE PendingIsServed' /\ ProxyIsWatched'
  <2>1. PendingIsServed'
    BY <1>3 DEF PendingIsServed, Establishing, JoinQueue, Arrives, Leave, Goto
  <2>2. ProxyIsWatched'
    BY <1>3 DEF ProxyIsWatched, Establishing, JoinQueue
  <2>. QED
    BY <2>1, <2>2 DEF PendingIsServed, ProxyIsWatched, Establishing
<1>4. ASSUME NEW a \in Actors, Execute(a) PROVE PendingIsServed' /\ ProxyIsWatched'
  <2>1. PendingIsServed'
    BY <1>4 DEF PendingIsServed, Establishing, Execute, Leave, Goto
  <2>2. ProxyIsWatched'
    BY <1>4 DEF ProxyIsWatched, Establishing, Execute, Leave, Goto
  <2>. QED
    BY <2>1, <2>2 DEF PendingIsServed, ProxyIsWatched, Establishing
<1>5. ASSUME NEW a \in Actors, RequeueAndReconnect(a) PROVE PendingIsServed' /\ ProxyIsWatched'
  <2>1. PendingIsServed'
    BY <1>5 DEF PendingIsServed, Establishing, RequeueAndReconnect, Goto
  <2>2. ProxyIsWatched'
    BY <1>5 DEF ProxyIsWatched, Establishing, RequeueAndReconnect, Goto
  <2>. QED
    BY <2>1, <2>2 DEF PendingIsServed, ProxyIsWatched, Establishing
<1>6. ASSUME NEW a \in Actors, EstablishConnection(a) PROVE PendingIsServed' /\ ProxyIsWatched'
  <2>1. PendingIsServed'
    BY <1>6 DEF PendingIsServed, Establishing, EstablishConnection, Goto
  <2>2. ProxyIsWatched'
    BY <1>6 DEF ProxyIsWatched, Establishing, EstablishConnection, Goto
  <2>. QED
    BY <2>1, <2>2 DEF PendingIsServed, ProxyIsWatched, Establishing
<1>7. ASSUME NEW a \in Actors, DisconnectStaleCallback(a) PROVE PendingIsServed' /\ ProxyIsWatched'
  <2>1. PendingIsServed'
    BY <1>7 DEF PendingIsServed, Establishing, DisconnectStaleCallback, Goto
  <2>2. ProxyIsWatched'
    BY <1>7 DEF ProxyIsWatched, Establishing, DisconnectStaleCallback, Goto
  <2>. QED
    BY <2>1, <2>2 DEF PendingIsServed, ProxyIsWatched, Establishing
<1>8. ASSUME NEW a \in Actors, Connect(a) PROVE PendingIsServed' /\ ProxyIsWatched'
  <2>1. PendingIsServed'
    BY <1>8 DEF PendingIsServed, Establishing, Connect, Unused, Goto
  <2>2. ProxyIsWatched'
    BY <1>8 DEF ProxyIsWatched, Establishing, Connect, Unused, Goto
  <2>. QED
    BY <2>1, <2>2 DEF PendingIsServed, ProxyIsWatched, Establishing
<1>9. ASSUME NEW a \in Actors, StoreCallback(a) PROVE PendingIsServed' /\ ProxyIsWatched'
  <2>1. PendingIsServed'
    BY <1>9 DEF PendingIsServed, Establishing, StoreCallback, Leave, Goto
  <2>2. ProxyIsWatched'
    BY <1>9 DEF ProxyIsWatched, Establishing, StoreCallback, Leave, Goto
  <2>. QED
    BY <2>1, <2>2 DEF PendingIsServed, ProxyIsWatched, Establishing
<1>10. ASSUME NEW a \in Actors, ConnectFailed(a) PROVE PendingIsServed' /\ ProxyIsWatched'
  <2>1. PendingIsServed'
    BY <1>10 DEF PendingIsServed, Establishing, ConnectFailed
  <2>2. ProxyIsWatched'
    BY <1>10 DEF ProxyIsWatched, Establishing, ConnectFailed
  <2>. QED
    BY <2>1, <2>2 DEF PendingIsServed, ProxyIsWatched, Establishing
<1>11. ASSUME NEW c \in Conns, OnAbilityConnectDone(c) PROVE PendingIsServed' /\ ProxyIsWatched'
  <2>1. PendingIsServed'
    BY <1>11 DEF PendingIsServed, ProxyIsWatched, Establishing, history, OnAbilityConnectDone, HandlerGoto, Connections
  <2>2. ProxyIsWatched'
    BY <1>11 DEF PendingIsServed, ProxyIsWatched, Establishing, history, OnAbilityConnectDone, HandlerGoto, Connections
  <2>. QED
    BY <2>1, <2>2 DEF PendingIsServed, ProxyIsWatched, Establishing
<1>12. ASSUME NEW c \in Conns, SaveProxy(c) PROVE PendingIsServed' /\ ProxyIsWatched'
  <2>1. PendingIsServed'
    <3>1. CASE info = NoInfo
      BY <1>12, <3>1 DEF SaveProxy, PendingIsServed, ProxyIsWatched
    <3>2. CASE info # NoInfo
      <4>1. Establishing # {} \/ \E d \in Conns : ~conn[d].isStale /\ conn[d].at # "ended"
        BY <3>2 DEF PendingIsServed, ProxyIsWatched
      <4>2. /\ info'.isPending = FALSE /\ call' = call
            /\ \A d \in Conns : conn'[d].isStale = conn[d].isStale
            /\ conn[c].at # "ended" /\ conn'[c].at # "ended"
            /\ \A d \in Conns : d # c => conn'[d] = conn[d]
        <5>1. call' = call /\ info'.isPending = FALSE
          BY <1>12, <3>2, SaveProxyEffect DEF SaveProxy
        <5>2. conn[c].at = "saving" /\ conn' = [conn EXCEPT ![c] = [at |-> "flushing",
                isStale |-> conn[c].isStale, callbacks |-> Pending]]
          BY <1>12, <3>2, SaveProxyEffect
        <5>. QED
          BY <5>1, <5>2
      <4>. QED
        BY <3>2, <4>1, <4>2 DEF PendingIsServed, ProxyIsWatched, Establishing
    <3>. QED
      BY <3>1, <3>2
  <2>2. ProxyIsWatched'
    <3>1. CASE info = NoInfo
      BY <1>12, <3>1 DEF SaveProxy, PendingIsServed, ProxyIsWatched
    <3>2. CASE info # NoInfo
      <4>1. Establishing # {} \/ \E d \in Conns : ~conn[d].isStale /\ conn[d].at # "ended"
        BY <3>2 DEF PendingIsServed, ProxyIsWatched
      <4>2. /\ info'.isPending = FALSE /\ call' = call
            /\ \A d \in Conns : conn'[d].isStale = conn[d].isStale
            /\ conn[c].at # "ended" /\ conn'[c].at # "ended"
            /\ \A d \in Conns : d # c => conn'[d] = conn[d]
        <5>1. call' = call /\ info'.isPending = FALSE
          BY <1>12, <3>2, SaveProxyEffect DEF SaveProxy
        <5>2. conn[c].at = "saving" /\ conn' = [conn EXCEPT ![c] = [at |-> "flushing",
                isStale |-> conn[c].isStale, callbacks |-> Pending]]
          BY <1>12, <3>2, SaveProxyEffect
        <5>. QED
          BY <5>1, <5>2
      <4>. QED
        BY <3>2, <4>1, <4>2 DEF PendingIsServed, ProxyIsWatched, Establishing
    <3>. QED
      BY <3>1, <3>2
  <2>. QED
    BY <2>1, <2>2 DEF PendingIsServed, ProxyIsWatched, Establishing
<1>13. ASSUME NEW c \in Conns, NEW s \in Strategies, FlushOne(c, s) PROVE PendingIsServed' /\ ProxyIsWatched'
  <2>1. PendingIsServed'
    BY <1>13 DEF PendingIsServed, Establishing, FlushOne
  <2>2. ProxyIsWatched'
    BY <1>13 DEF ProxyIsWatched, Establishing, FlushOne
  <2>. QED
    BY <2>1, <2>2 DEF PendingIsServed, ProxyIsWatched, Establishing
<1>14. ASSUME NEW c \in Conns, Flushed(c) PROVE PendingIsServed' /\ ProxyIsWatched'
  <2>1. PendingIsServed'
    BY <1>14, HandlerEndsEffect DEF PendingIsServed, ProxyIsWatched, Establishing, Flushed
  <2>2. ProxyIsWatched'
    BY <1>14, HandlerEndsEffect DEF PendingIsServed, ProxyIsWatched, Establishing, Flushed
  <2>. QED
    BY <2>1, <2>2 DEF PendingIsServed, ProxyIsWatched, Establishing
<1>15. ASSUME NEW c \in Conns, RemoveRemoteObject(c) PROVE PendingIsServed' /\ ProxyIsWatched'
  <2>1. PendingIsServed'
    BY <1>15 DEF PendingIsServed, Establishing, RemoveRemoteObject, HandlerGoto, StartAgain
  <2>2. ProxyIsWatched'
    BY <1>15 DEF ProxyIsWatched, Establishing, RemoveRemoteObject, HandlerGoto, StartAgain
  <2>. QED
    BY <2>1, <2>2 DEF PendingIsServed, ProxyIsWatched, Establishing
<1>16. ASSUME NEW c \in Conns, OnAbilityDisconnectDone(c) PROVE PendingIsServed' /\ ProxyIsWatched'
  <2>1. PendingIsServed'
    BY <1>16 DEF PendingIsServed, Establishing, OnAbilityDisconnectDone, HandlerGoto
  <2>2. ProxyIsWatched'
    BY <1>16 DEF ProxyIsWatched, Establishing, OnAbilityDisconnectDone, HandlerGoto
  <2>. QED
    BY <2>1, <2>2 DEF PendingIsServed, ProxyIsWatched, Establishing
<1>17. CASE Elapse
  <2>1. PendingIsServed'
    BY <1>17 DEF PendingIsServed, Establishing, Elapse
  <2>2. ProxyIsWatched'
    BY <1>17 DEF ProxyIsWatched, Establishing, Elapse
  <2>. QED
    BY <2>1, <2>2 DEF PendingIsServed, ProxyIsWatched, Establishing
<1>18. CASE ClearConnections
  <2>1. PendingIsServed'
    BY <1>18 DEF PendingIsServed, Establishing, ClearConnections
  <2>2. ProxyIsWatched'
    BY <1>18 DEF ProxyIsWatched, Establishing, ClearConnections
  <2>. QED
    BY <2>1, <2>2 DEF PendingIsServed, ProxyIsWatched, Establishing
<1>19. CASE UNCHANGED vars
  <2>1. PendingIsServed'
    BY <1>19 DEF PendingIsServed, Establishing, vars
  <2>2. ProxyIsWatched'
    BY <1>19 DEF ProxyIsWatched, Establishing, vars
  <2>. QED
    BY <2>1, <2>2 DEF PendingIsServed, ProxyIsWatched, Establishing
<1>. QED
  BY <1>1, <1>2, <1>3, <1>4, <1>5, <1>6, <1>7, <1>8, <1>9, <1>10, <1>11, <1>12, <1>13, <1>14, <1>15, <1>16, <1>17, <1>18, <1>19, StepCases

(* A handler has strategies only while it executes them. *)
LEMMA FlushedStep ==
    ASSUME TypeOK, TypeOK', HoldsConnection, CallbacksAreFlushed, [Next]_vars
    PROVE  CallbacksAreFlushed'
<1>. /\ call \in [Actors -> Calls] /\ conn \in [Conns -> Connections]
     /\ call' \in [Actors -> Calls] /\ conn' \in [Conns -> Connections]
  BY DEF TypeOK
<1>1. ASSUME NEW a \in Actors, Arrives(a), calm' = calm, FreshQueue(a) PROVE CallbacksAreFlushed'
  BY <1>1, HandlerEndsEffect, MarkStaleEffect DEF CallbacksAreFlushed, Connections, FreshQueue
<1>2. ASSUME NEW a \in Actors, Arrives(a), calm' = calm, UseProxy(a) PROVE CallbacksAreFlushed'
  BY <1>2, HandlerEndsEffect, MarkStaleEffect DEF CallbacksAreFlushed, Connections, UseProxy
<1>3. ASSUME NEW a \in Actors, Arrives(a), calm' = calm, JoinQueue(a) PROVE CallbacksAreFlushed'
  BY <1>3, HandlerEndsEffect, MarkStaleEffect DEF CallbacksAreFlushed, Connections, JoinQueue
<1>4. ASSUME NEW a \in Actors, Execute(a) PROVE CallbacksAreFlushed'
  BY <1>4, HandlerEndsEffect, MarkStaleEffect DEF CallbacksAreFlushed, Connections, Execute
<1>5. ASSUME NEW a \in Actors, RequeueAndReconnect(a) PROVE CallbacksAreFlushed'
  BY <1>5, HandlerEndsEffect, MarkStaleEffect DEF CallbacksAreFlushed, Connections, RequeueAndReconnect
<1>6. ASSUME NEW a \in Actors, EstablishConnection(a) PROVE CallbacksAreFlushed'
  BY <1>6, HandlerEndsEffect, MarkStaleEffect DEF CallbacksAreFlushed, Connections, EstablishConnection
<1>7. ASSUME NEW a \in Actors, DisconnectStaleCallback(a) PROVE CallbacksAreFlushed'
  <2>1. call[a].c \in Conns /\ MarkStale(call[a].c)
    BY <1>7 DEF DisconnectStaleCallback, HoldsConnection
  <2>. QED
    BY <2>1, MarkStaleEffect DEF CallbacksAreFlushed
<1>8. ASSUME NEW a \in Actors, Connect(a) PROVE CallbacksAreFlushed'
  BY <1>8, HandlerEndsEffect, MarkStaleEffect DEF CallbacksAreFlushed, Connections, Connect, Unused
<1>9. ASSUME NEW a \in Actors, StoreCallback(a) PROVE CallbacksAreFlushed'
  BY <1>9, HandlerEndsEffect, MarkStaleEffect DEF CallbacksAreFlushed, Connections, StoreCallback
<1>10. ASSUME NEW a \in Actors, ConnectFailed(a) PROVE CallbacksAreFlushed'
  BY <1>10, HandlerEndsEffect, MarkStaleEffect DEF CallbacksAreFlushed, Connections, ConnectFailed
<1>11. ASSUME NEW c \in Conns, OnAbilityConnectDone(c) PROVE CallbacksAreFlushed'
  BY <1>11, HandlerEndsEffect, MarkStaleEffect DEF CallbacksAreFlushed, Connections, OnAbilityConnectDone, HandlerGoto
<1>12. ASSUME NEW c \in Conns, SaveProxy(c) PROVE CallbacksAreFlushed'
  <2>1. CASE info = NoInfo
    <3>1. HandlerEnds(c)
      BY <1>12, <2>1 DEF SaveProxy
    <3>. QED
      BY <3>1, HandlerEndsEffect, <1>12, <2>1 DEF CallbacksAreFlushed, SaveProxy
  <2>2. CASE info # NoInfo
    BY <1>12, <2>2, SaveProxyEffect DEF CallbacksAreFlushed
  <2>. QED
    BY <2>1, <2>2
<1>13. ASSUME NEW c \in Conns, NEW s \in Strategies, FlushOne(c, s) PROVE CallbacksAreFlushed'
  BY <1>13, HandlerEndsEffect, MarkStaleEffect DEF CallbacksAreFlushed, Connections, FlushOne
<1>14. ASSUME NEW c \in Conns, Flushed(c) PROVE CallbacksAreFlushed'
  BY <1>14, HandlerEndsEffect, MarkStaleEffect DEF CallbacksAreFlushed, Connections, Flushed
<1>15. ASSUME NEW c \in Conns, RemoveRemoteObject(c) PROVE CallbacksAreFlushed'
  BY <1>15, HandlerEndsEffect, MarkStaleEffect DEF CallbacksAreFlushed, Connections, RemoveRemoteObject, HandlerGoto, StartAgain
<1>16. ASSUME NEW c \in Conns, OnAbilityDisconnectDone(c) PROVE CallbacksAreFlushed'
  BY <1>16, HandlerEndsEffect, MarkStaleEffect DEF CallbacksAreFlushed, Connections, OnAbilityDisconnectDone, HandlerGoto
<1>17. CASE Elapse
  BY <1>17, HandlerEndsEffect, MarkStaleEffect DEF CallbacksAreFlushed, Connections, Elapse
<1>18. CASE ClearConnections
  <2>1. (Callback \in Conns /\ MarkStale(Callback)) \/ UNCHANGED conn
    BY <1>18 DEF ClearConnections, TypeOK, Infos, Callback
  <2>. QED
    BY <2>1, MarkStaleEffect DEF CallbacksAreFlushed
<1>19. CASE UNCHANGED vars
  BY <1>19, HandlerEndsEffect, MarkStaleEffect DEF CallbacksAreFlushed, Connections, vars
<1>. QED
  BY <1>1, <1>2, <1>3, <1>4, <1>5, <1>6, <1>7, <1>8, <1>9, <1>10, <1>11, <1>12, <1>13, <1>14, <1>15, <1>16, <1>17, <1>18, <1>19, StepCases

(* A strategy stays in one place. *)
LEMMA PlacedStep ==
    ASSUME TypeOK, TypeOK', HoldsConnection, CallbacksAreFlushed, NEW t \in Callers, Placed(t), [Next]_vars
    PROVE  Placed(t)'
<1>. /\ call \in [Actors -> Calls] /\ conn \in [Conns -> Connections]
     /\ call' \in [Actors -> Calls] /\ conn' \in [Conns -> Connections]
     /\ t \in Actors /\ t \notin Conns
  BY ConnectionAssumption DEF TypeOK, Actors
<1>1. ASSUME NEW a \in Actors, Arrives(a), calm' = calm, FreshQueue(a) PROVE Placed(t)'
  <2>1. Strategy(a) \in Strategies /\ (t = Strategy(a) <=> a = t)
    BY ConnectionAssumption DEF Strategy, Strategies
  <2>2. info' # NoInfo /\ info'.pendingCallbacks = {Strategy(a)}
    BY <1>1, NewQueueEffect
  <2>3. t \in Pending' <=> a = t
    BY <2>1, <2>2 DEF Pending
  <2>4. Held(t)' <=> Held(t) /\ (a = t => ~Held(t))
    BY <1>1 DEF FreshQueue, Goto, Held
  <2>5. t \in finished' <=> a # t /\ (t \in finished \/ t \in Pending)
    BY <1>1 DEF FreshQueue
  <2>6. \A d \in Conns : conn'[d].callbacks = conn[d].callbacks
    BY <1>1, MarkStaleEffect DEF FreshQueue
  <2>7. a = t => t \in finished
    BY <1>1 DEF Arrives
  <2>. QED
    BY <2>1, <2>2, <2>3, <2>4, <2>5, <2>6, <2>7, Zenon DEF Placed
<1>2. ASSUME NEW a \in Actors, Arrives(a), calm' = calm, UseProxy(a) PROVE Placed(t)'
  BY <1>2, HandlerEndsEffect DEF Placed, Held, Pending, Connections, UseProxy, Arrives, Goto
<1>3. ASSUME NEW a \in Actors, Arrives(a), calm' = calm, JoinQueue(a) PROVE Placed(t)'
  <2>1. Strategy(a) \in Strategies /\ (t = Strategy(a) <=> a = t)
    BY ConnectionAssumption DEF Strategy, Strategies
  <2>2. info # NoInfo /\ info' # NoInfo /\ info'.pendingCallbacks = info.pendingCallbacks \cup {Strategy(a)}
    BY <1>3, NewQueueEffect DEF JoinQueue
  <2>3. t \in Pending' <=> t \in Pending \/ a = t
    BY <2>1, <2>2 DEF Pending
  <2>4. Held(t)' <=> Held(t) /\ (a = t => ~Held(t))
    BY <1>3 DEF JoinQueue, Leave, Goto, Held
  <2>5. t \in finished' <=> a # t /\ t \in finished
    BY <1>3 DEF JoinQueue
  <2>6. \A d \in Conns : conn'[d].callbacks = conn[d].callbacks
    BY <1>3 DEF JoinQueue
  <2>7. a = t => t \in finished
    BY <1>3 DEF Arrives
  <2>. QED
    BY <2>1, <2>2, <2>3, <2>4, <2>5, <2>6, <2>7, Zenon DEF Placed
<1>4. ASSUME NEW a \in Actors, Execute(a) PROVE Placed(t)'
  BY <1>4, HandlerEndsEffect DEF Placed, Held, Pending, Finish, Connections, Execute, Leave, Goto
<1>5. ASSUME NEW a \in Actors, RequeueAndReconnect(a) PROVE Placed(t)'
  <2>1. /\ Held(t)' <=> Held(t) /\ a # t
        /\ a = t => Held(t)
    BY <1>5 DEF RequeueAndReconnect, Leave, Goto, Held
  <2>2. \A d \in Conns : conn'[d].callbacks = conn[d].callbacks
    BY <1>5 DEF RequeueAndReconnect
  <2>3. CASE info = NoInfo
    <3>1. t \in finished' <=> t \in finished \/ a = t
      BY <1>5, <2>3, ConnectionAssumption DEF RequeueAndReconnect, Finish, Strategy
    <3>2. t \notin Pending' /\ t \notin Pending
      BY <1>5, <2>3 DEF RequeueAndReconnect, Pending
    <3>. QED
      BY <2>1, <2>2, <3>1, <3>2, Zenon DEF Placed
  <2>4. CASE info # NoInfo
    <3>1. t \in finished' <=> t \in finished
      BY <1>5, <2>4 DEF RequeueAndReconnect
    <3>2. t \in Pending' <=> t \in Pending \/ a = t
      <4>1. Strategy(a) \in Strategies /\ (t = Strategy(a) <=> a = t)
        BY ConnectionAssumption DEF Strategy, Strategies
      <4>2. info \in Infos
        BY <2>4 DEF TypeOK
      <4>3. info.callback \in Conns \cup {None} /\ info.pendingCallbacks \cup {Strategy(a)} \in SUBSET Strategies
        BY <4>1, <4>2 DEF Infos
      <4>4. info' # NoInfo /\ info'.pendingCallbacks = info.pendingCallbacks \cup {Strategy(a)}
        <5>1. info' = [proxy |-> None, callback |-> info.callback, isPending |-> TRUE,
                       aged |-> FALSE, pendingCallbacks |-> info.pendingCallbacks \cup {Strategy(a)}]
          BY <1>5, <2>4, RequeueEffect
        <5>. QED
          BY <4>3, <5>1, InfoRecord
      <4>. QED
        BY <2>4, <4>1, <4>4 DEF Pending
    <3>. QED
      BY <2>1, <2>2, <3>1, <3>2, Zenon DEF Placed
  <2>. QED
    BY <2>3, <2>4
<1>6. ASSUME NEW a \in Actors, EstablishConnection(a) PROVE Placed(t)'
  BY <1>6, HandlerEndsEffect DEF Placed, Held, Pending, history, Connections, EstablishConnection, Goto
<1>7. ASSUME NEW a \in Actors, DisconnectStaleCallback(a) PROVE Placed(t)'
  <2>1. call[a].c \in Conns /\ MarkStale(call[a].c)
    BY <1>7 DEF DisconnectStaleCallback, HoldsConnection
  <2>2. \A d \in Conns : conn'[d].callbacks = conn[d].callbacks
    BY <2>1, MarkStaleEffect
  <2>3. Pending' = Pending /\ finished' = finished /\ (Held(t)' <=> Held(t))
    BY <1>7 DEF DisconnectStaleCallback, Pending, Held, Goto, history
  <2>. QED
    BY <2>2, <2>3, Zenon DEF Placed
<1>8. ASSUME NEW a \in Actors, Connect(a) PROVE Placed(t)'
  <2>1. Pending' = Pending /\ finished' = finished /\ (Held(t)' <=> Held(t))
    BY <1>8 DEF Connect, Pending, Held, Goto
  <2>2. \A d \in Conns : conn'[d].callbacks = conn[d].callbacks
    <3>1. CASE conn' = conn
      BY <3>1
    <3>2. CASE conn' # conn
      <4>1. PICK c \in Conns : conn[c].at = "ended" /\ conn' = [conn EXCEPT
                   ![c] = [at |-> "connecting", isStale |-> FALSE, callbacks |-> {}]]
        BY <1>8, <3>2, Zenon DEF Connect, Unused
      <4>2. conn[c].callbacks = {}
        BY <4>1 DEF CallbacksAreFlushed
      <4>3. \A d \in Conns : d # c => conn'[d] = conn[d]
        BY <4>1
      <4>4. conn'[c].callbacks = {}
        BY <4>1
      <4>. QED
        BY <4>2, <4>3, <4>4
    <3>. QED
      BY <3>1, <3>2
  <2>. QED
    BY <2>1, <2>2, Zenon DEF Placed
<1>9. ASSUME NEW a \in Actors, StoreCallback(a) PROVE Placed(t)'
  <2>1. Pending' = Pending
    <3>1. CASE info = NoInfo
      BY <1>9, <3>1 DEF StoreCallback, Pending
    <3>2. CASE info # NoInfo
      BY <1>9, <3>2, StoreEffect DEF Pending
    <3>. QED
      BY <3>1, <3>2
  <2>2. finished' = finished /\ conn' = conn /\ (Held(t)' <=> Held(t))
    BY <1>9 DEF StoreCallback, Held, Leave, Goto, history
  <2>. QED
    BY <2>1, <2>2, Zenon DEF Placed
<1>10. ASSUME NEW a \in Actors, ConnectFailed(a) PROVE Placed(t)'
  BY <1>10, HandlerEndsEffect DEF Placed, Held, Pending, Finish, Connections, ConnectFailed, Leave, Goto
<1>11. ASSUME NEW c \in Conns, OnAbilityConnectDone(c) PROVE Placed(t)'
  BY <1>11, HandlerEndsEffect DEF Placed, Held, Pending, Strategies, Connections, OnAbilityConnectDone, HandlerGoto, Fault
<1>12. ASSUME NEW c \in Conns, SaveProxy(c) PROVE Placed(t)'
  <2>1. finished' = finished /\ (Held(t)' <=> Held(t))
    BY <1>12 DEF SaveProxy, Held, history
  <2>2. CASE info = NoInfo
    <3>1. HandlerEnds(c) /\ Pending' = Pending
      BY <1>12, <2>2 DEF SaveProxy, Pending
    <3>2. \A d \in Conns : conn'[d].callbacks = conn[d].callbacks
      BY <3>1, HandlerEndsEffect
    <3>. QED
      BY <2>1, <3>1, <3>2, Zenon DEF Placed
  <2>3. CASE info # NoInfo
    <3>1. conn[c].at = "saving" /\ t \notin Pending'
      BY <1>12, <2>3, SaveProxyEffect DEF Pending, TypeOK
    <3>2. conn[c].callbacks = {}
      BY <3>1 DEF CallbacksAreFlushed
    <3>3. conn'[c].callbacks = Pending /\ \A d \in Conns : d # c => conn'[d] = conn[d]
      BY <1>12, <2>3, SaveProxyEffect
    <3>. QED
      BY <2>1, <3>1, <3>2, <3>3 DEF Placed
  <2>. QED
    BY <2>2, <2>3
<1>13. ASSUME NEW c \in Conns, NEW s \in Strategies, FlushOne(c, s) PROVE Placed(t)'
  BY <1>13, HandlerEndsEffect DEF Placed, Held, Pending, Finish, Connections, FlushOne
<1>14. ASSUME NEW c \in Conns, Flushed(c) PROVE Placed(t)'
  BY <1>14, HandlerEndsEffect DEF Placed, Held, Pending, history, Connections, Flushed
<1>15. ASSUME NEW c \in Conns, RemoveRemoteObject(c) PROVE Placed(t)'
  BY <1>15, HandlerEndsEffect DEF Placed, Held, Pending, Finish, Connections, RemoveRemoteObject, HandlerGoto, StartAgain, Goto
<1>16. ASSUME NEW c \in Conns, OnAbilityDisconnectDone(c) PROVE Placed(t)'
  BY <1>16, HandlerEndsEffect DEF Placed, Held, Pending, Connections, OnAbilityDisconnectDone, HandlerGoto
<1>17. CASE Elapse
  <2>1. Pending' = Pending
    <3>1. info \in Infos
      BY <1>17 DEF TypeOK, Elapse
    <3>. QED
      BY <1>17, <3>1, NoInfoAssumption DEF Elapse, Pending, Infos
  <2>2. finished' = finished /\ conn' = conn /\ call' = call
    BY <1>17 DEF Elapse
  <2>. QED
    BY <2>1, <2>2, Zenon DEF Placed, Held
<1>18. CASE ClearConnections
  <2>1. (Callback \in Conns /\ MarkStale(Callback)) \/ UNCHANGED conn
    BY <1>18 DEF ClearConnections, TypeOK, Infos, Callback
  <2>2. \A d \in Conns : conn'[d].callbacks = conn[d].callbacks
    BY <2>1, MarkStaleEffect
  <2>3. t \notin Pending' /\ (t \in finished' <=> t \in finished \/ t \in Pending)
    BY <1>18 DEF ClearConnections, Pending, Finish
  <2>4. Held(t)' <=> Held(t)
    BY <1>18 DEF ClearConnections, Held
  <2>. QED
    BY <2>2, <2>3, <2>4, Zenon DEF Placed
<1>19. CASE UNCHANGED vars
  BY <1>19, HandlerEndsEffect DEF Placed, Held, Pending, Connections, vars
<1>. QED
  BY <1>1, <1>2, <1>3, <1>4, <1>5, <1>6, <1>7, <1>8, <1>9, <1>10, <1>11, <1>12, <1>13, <1>14, <1>15, <1>16, <1>17, <1>18, <1>19, StepCases

(* As long as nothing goes wrong, one thread makes one connection. *)
LEMMA CalmStep ==
    ASSUME TypeOK, TypeOK', HoldsConnection, CalmInv, [Next]_vars
    PROVE  CalmInv'
<1>. /\ call \in [Actors -> Calls] /\ conn \in [Conns -> Connections]
     /\ call' \in [Actors -> Calls] /\ conn' \in [Conns -> Connections]
  BY DEF TypeOK
<1>. SUFFICES ASSUME calm' PROVE CalmInv'
  BY DEF CalmInv
<1>1. ASSUME NEW a \in Actors, Arrives(a), calm' = calm, FreshQueue(a) PROVE CalmInv'
  <2>. calm /\ Alone /\ Resting /\ Timely /\ Healthy /\ Straight /\ OneConnects
    BY <1>1, Zenon DEF CalmInv, FreshQueue
  <2>1. Alone'
    BY <1>1 DEF Alone, Resting, Timely, Healthy, Straight, OneConnects, Connecting, history, FreshQueue
  <2>2. Resting'
    BY <1>1, NewQueueEffect DEF Resting
  <2>3. Timely'
    BY <1>1 DEF Timely, FreshQueue
  <2>4. Healthy'
    BY <1>1 DEF Alone, Resting, Timely, Healthy, Straight, OneConnects, Connecting, history, FreshQueue
  <2>5. Straight'
    BY <1>1 DEF Alone, Resting, Timely, Healthy, Straight, OneConnects, Connecting, history, FreshQueue, Goto
  <2>6. OneConnects'
    BY <1>1 DEF Alone, Resting, Timely, Healthy, Straight, OneConnects, Connecting, history, FreshQueue, Goto
  <2>. QED
    BY <2>1, <2>2, <2>3, <2>4, <2>5, <2>6 DEF CalmInv
<1>2. ASSUME NEW a \in Actors, Arrives(a), calm' = calm, UseProxy(a) PROVE CalmInv'
  <2>. calm /\ Alone /\ Resting /\ Timely /\ Healthy /\ Straight /\ OneConnects
    BY <1>2, Zenon DEF CalmInv, UseProxy
  <2>1. Alone'
    BY <1>2 DEF Alone, UseProxy
  <2>2. Resting'
    BY <1>2 DEF Resting, UseProxy
  <2>3. Timely'
    BY <1>2 DEF Timely, UseProxy
  <2>4. Healthy'
    BY <1>2 DEF Healthy, UseProxy
  <2>5. Straight'
    BY <1>2 DEF Alone, Resting, Timely, Healthy, Straight, OneConnects, Connecting, history, UseProxy, Goto
  <2>6. OneConnects'
    BY <1>2 DEF OneConnects, Connecting, UseProxy, Goto
  <2>. QED
    BY <2>1, <2>2, <2>3, <2>4, <2>5, <2>6 DEF CalmInv
<1>3. ASSUME NEW a \in Actors, Arrives(a), calm' = calm, JoinQueue(a) PROVE CalmInv'
  <2>. calm /\ Alone /\ Resting /\ Timely /\ Healthy /\ Straight /\ OneConnects
    BY <1>3, Zenon DEF CalmInv, JoinQueue
  <2>1. Alone'
    BY <1>3 DEF Alone, JoinQueue
  <2>2. Resting'
    BY <1>3, NewQueueEffect DEF Resting
  <2>3. Timely'
    BY <1>3 DEF Timely, JoinQueue
  <2>4. Healthy'
    BY <1>3 DEF Healthy, JoinQueue
  <2>5. Straight'
    BY <1>3 DEF Straight, Connecting, JoinQueue, Leave, Goto
  <2>6. OneConnects'
    BY <1>3 DEF OneConnects, Connecting, JoinQueue, Leave, Goto
  <2>. QED
    BY <2>1, <2>2, <2>3, <2>4, <2>5, <2>6 DEF CalmInv
<1>4. ASSUME NEW a \in Actors, Execute(a) PROVE CalmInv'
  <2>. calm /\ Alone /\ Resting /\ Timely /\ Healthy /\ Straight /\ OneConnects
    BY <1>4, Zenon DEF CalmInv, Execute, Fault
  <2>1. Alone'
    BY <1>4 DEF Alone, Execute
  <2>2. Resting'
    BY <1>4 DEF Resting, Execute
  <2>3. Timely'
    BY <1>4 DEF Timely, Execute
  <2>4. Healthy'
    BY <1>4 DEF Healthy, Execute
  <2>5. Straight'
    BY <1>4 DEF Straight, Connecting, Execute, Leave, Goto, Fault
  <2>6. OneConnects'
    BY <1>4 DEF OneConnects, Connecting, Execute, Leave, Goto
  <2>. QED
    BY <2>1, <2>2, <2>3, <2>4, <2>5, <2>6 DEF CalmInv
<1>5. ASSUME NEW a \in Actors, RequeueAndReconnect(a) PROVE CalmInv'
  <2>. calm /\ Alone /\ Resting /\ Timely /\ Healthy /\ Straight /\ OneConnects
    BY <1>5, Zenon DEF CalmInv, RequeueAndReconnect
  <2>1. Alone'
    BY <1>5 DEF Alone, RequeueAndReconnect
  <2>2. Resting'
    BY <1>5 DEF Alone, Resting, Timely, Healthy, Straight, OneConnects, Connecting, history, RequeueAndReconnect
  <2>3. Timely'
    BY <1>5 DEF Alone, Resting, Timely, Healthy, Straight, OneConnects, Connecting, history, RequeueAndReconnect
  <2>4. Healthy'
    BY <1>5 DEF Healthy, RequeueAndReconnect
  <2>5. Straight'
    BY <1>5 DEF Straight, Connecting, RequeueAndReconnect
  <2>6. OneConnects'
    BY <1>5 DEF Alone, Resting, Timely, Healthy, Straight, OneConnects, Connecting, history, RequeueAndReconnect
  <2>. QED
    BY <2>1, <2>2, <2>3, <2>4, <2>5, <2>6 DEF CalmInv
<1>6. ASSUME NEW a \in Actors, EstablishConnection(a) PROVE CalmInv'
  <2>. calm /\ Alone /\ Resting /\ Timely /\ Healthy /\ Straight /\ OneConnects
    BY <1>6, Zenon DEF CalmInv, EstablishConnection, history
  <2>1. Alone'
    BY <1>6 DEF Alone, EstablishConnection
  <2>2. Resting'
    BY <1>6 DEF Resting, EstablishConnection
  <2>3. Timely'
    BY <1>6 DEF Timely, EstablishConnection
  <2>4. Healthy'
    BY <1>6 DEF Healthy, EstablishConnection
  <2>5. Straight'
    BY <1>6 DEF Straight, Connecting, EstablishConnection, Goto, Callback
  <2>6. OneConnects'
    BY <1>6 DEF OneConnects, Connecting, EstablishConnection, Goto
  <2>. QED
    BY <2>1, <2>2, <2>3, <2>4, <2>5, <2>6 DEF CalmInv
<1>7. ASSUME NEW a \in Actors, DisconnectStaleCallback(a) PROVE CalmInv'
  <2>. calm /\ Alone /\ Resting /\ Timely /\ Healthy /\ Straight /\ OneConnects
    BY <1>7, Zenon DEF CalmInv, DisconnectStaleCallback, history
  <2>1. Alone'
    BY <1>7 DEF Alone, Resting, Timely, Healthy, Straight, OneConnects, Connecting, DisconnectStaleCallback
  <2>2. Resting'
    BY <1>7 DEF Resting, DisconnectStaleCallback
  <2>3. Timely'
    BY <1>7 DEF Alone, Resting, Timely, Healthy, Straight, OneConnects, Connecting, DisconnectStaleCallback
  <2>4. Healthy'
    BY <1>7 DEF Alone, Resting, Timely, Healthy, Straight, OneConnects, Connecting, DisconnectStaleCallback
  <2>5. Straight'
    BY <1>7 DEF Straight, Connecting, DisconnectStaleCallback
  <2>6. OneConnects'
    BY <1>7 DEF Alone, Resting, Timely, Healthy, Straight, OneConnects, Connecting, DisconnectStaleCallback
  <2>. QED
    BY <2>1, <2>2, <2>3, <2>4, <2>5, <2>6 DEF CalmInv
<1>8. ASSUME NEW a \in Actors, Connect(a) PROVE CalmInv'
  <2>. calm /\ Alone /\ Resting /\ Timely /\ Healthy /\ Straight /\ OneConnects
    BY <1>8, Zenon DEF CalmInv, Connect, Unused, Fault
  <2>1. Alone'
    BY <1>8 DEF Alone, Resting, Timely, Healthy, Straight, OneConnects, Connecting, history, Connect, Unused
  <2>2. Resting'
    BY <1>8 DEF Resting, Connect, Unused
  <2>3. Timely'
    <3>1. call[a].pc = "connect" /\ info' = info /\ info # NoInfo
      BY <1>8 DEF Connect, Resting
    <3>2. PICK c \in Conns : /\ conn' = [conn EXCEPT ![c] = [at |-> "connecting", isStale |-> FALSE,
                                                            callbacks |-> {}]]
                             /\ Goto(a, "store", c)
      BY <1>8, Zenon DEF Connect, Fault
    <3>3. /\ \A d \in Conns : d # c => conn'[d] = conn[d]
          /\ conn'[c].at = "connecting"
      BY <3>2
    <3>4. \A d \in Conns : conn[d].at = "ended"
      BY <3>1 DEF Straight
    <3>5. info.proxy # None => info.proxy \in Conns
      BY <3>1 DEF TypeOK, Infos
    <3>. QED
      BY <3>1, <3>3, <3>4, <3>5 DEF Timely
  <2>4. Healthy'
    BY <1>8 DEF Healthy, Connect, Unused
  <2>5. Straight'
    <3>1. call[a].pc = "connect" /\ info' = info /\ info # NoInfo
      BY <1>8 DEF Connect, Resting
    <3>2. PICK c \in Conns : /\ conn' = [conn EXCEPT ![c] = [at |-> "connecting", isStale |-> FALSE,
                                                            callbacks |-> {}]]
                             /\ Goto(a, "store", c)
      BY <1>8, Zenon DEF Connect, Fault
    <3>3. /\ \A d \in Conns : d # c => conn'[d] = conn[d]
          /\ conn'[c].at = "connecting"
      BY <3>2
    <3>4. \A d \in Conns : conn[d].at = "ended"
      BY <3>1 DEF Straight
    <3>5. call'[a].pc = "store" /\ \A b \in Actors : b # a => call'[b] = call[b] /\ ~Connecting(b)
      BY <3>1, <3>2 DEF Goto, OneConnects, Connecting
    <3>6. \A b \in Actors : call[b].pc # "execute"
      BY <3>4 DEF Straight, HoldsConnection
    <3>7. info'.callback = None
      BY <3>1 DEF Straight, Connecting
    <3>. QED
      BY <3>1, <3>5, <3>6, <3>7 DEF Straight, Connecting
  <2>6. OneConnects'
    BY <1>8 DEF OneConnects, Connecting, Connect, Unused, Goto
  <2>. QED
    BY <2>1, <2>2, <2>3, <2>4, <2>5, <2>6 DEF CalmInv
<1>9. ASSUME NEW a \in Actors, StoreCallback(a) PROVE CalmInv'
  <2>. calm /\ Alone /\ Resting /\ Timely /\ Healthy /\ Straight /\ OneConnects
    BY <1>9, Zenon DEF CalmInv, StoreCallback, history
  <2>1. Alone'
    BY <1>9 DEF Alone, StoreCallback
  <2>2. Resting'
    <3>1. info # NoInfo
      BY <1>9 DEF Resting, StoreCallback
    <3>. QED
      BY <1>9, <3>1, StoreEffect DEF Resting
  <2>3. Timely'
    BY <1>9 DEF Timely, StoreCallback
  <2>4. Healthy'
    BY <1>9 DEF Healthy, StoreCallback
  <2>5. Straight'
    BY <1>9 DEF Alone, Resting, Timely, Healthy, Straight, OneConnects, Connecting, StoreCallback, Leave, Goto
  <2>6. OneConnects'
    BY <1>9 DEF OneConnects, Connecting, StoreCallback, Leave, Goto
  <2>. QED
    BY <2>1, <2>2, <2>3, <2>4, <2>5, <2>6 DEF CalmInv
<1>10. ASSUME NEW a \in Actors, ConnectFailed(a) PROVE CalmInv'
  <2>. calm /\ Alone /\ Resting /\ Timely /\ Healthy /\ Straight /\ OneConnects
    BY <1>10, Zenon DEF CalmInv, ConnectFailed
  <2>1. Alone'
    BY <1>10 DEF Alone, ConnectFailed
  <2>2. Resting'
    BY <1>10 DEF Alone, Resting, Timely, Healthy, Straight, OneConnects, Connecting, history, ConnectFailed
  <2>3. Timely'
    BY <1>10 DEF Timely, ConnectFailed
  <2>4. Healthy'
    BY <1>10 DEF Healthy, ConnectFailed
  <2>5. Straight'
    BY <1>10 DEF Straight, Connecting, ConnectFailed
  <2>6. OneConnects'
    BY <1>10 DEF OneConnects, Connecting, ConnectFailed, Leave, Goto
  <2>. QED
    BY <2>1, <2>2, <2>3, <2>4, <2>5, <2>6 DEF CalmInv
<1>11. ASSUME NEW c \in Conns, OnAbilityConnectDone(c) PROVE CalmInv'
  <2>. calm /\ Alone /\ Resting /\ Timely /\ Healthy /\ Straight /\ OneConnects
    BY <1>11, Zenon DEF CalmInv, OnAbilityConnectDone, HandlerGoto, Fault
  <2>1. Alone'
    <3>1. /\ \A d \in Conns : d # c => conn'[d] = conn[d]
          /\ conn'[c].isStale = conn[c].isStale /\ conn'[c].at = "saving"
          /\ conn[c].at = "connecting" /\ call' = call /\ info' = info
      BY <1>11 DEF OnAbilityConnectDone, HandlerGoto, Fault, Connections
    <3>. QED
      BY <3>1 DEF Alone
  <2>2. Resting'
    BY <1>11 DEF Resting, OnAbilityConnectDone, HandlerGoto
  <2>3. Timely'
    <3>1. /\ \A d \in Conns : d # c => conn'[d] = conn[d]
          /\ conn'[c].isStale = conn[c].isStale /\ conn'[c].at = "saving"
          /\ conn[c].at = "connecting" /\ call' = call /\ info' = info
      BY <1>11 DEF OnAbilityConnectDone, HandlerGoto, Fault, Connections
    <3>2. info # NoInfo /\ info.proxy # None => info.proxy \in Conns
      BY DEF TypeOK, Infos
    <3>. QED
      BY <3>1, <3>2 DEF Timely
  <2>4. Healthy'
    <3>1. /\ \A d \in Conns : d # c => conn'[d] = conn[d]
          /\ conn'[c].isStale = conn[c].isStale /\ conn'[c].at = "saving"
          /\ conn[c].at = "connecting" /\ call' = call /\ info' = info
      BY <1>11 DEF OnAbilityConnectDone, HandlerGoto, Fault, Connections
    <3>. QED
      BY <3>1 DEF Healthy
  <2>5. Straight'
    <3>1. /\ \A d \in Conns : d # c => conn'[d] = conn[d]
          /\ conn'[c].isStale = conn[c].isStale /\ conn'[c].at = "saving"
          /\ conn[c].at = "connecting" /\ call' = call /\ info' = info
      BY <1>11 DEF OnAbilityConnectDone, HandlerGoto, Fault, Connections
    <3>2. \A b \in Actors : call[b].pc = "execute" => call[b].c \in Conns
      BY DEF HoldsConnection
    <3>3. \A b \in Actors : call[b].pc \notin {"establish", "connect"}
      BY <3>1 DEF Straight
    <3>. QED
      BY <3>1, <3>2, <3>3 DEF Straight, Connecting
  <2>6. OneConnects'
    BY <1>11 DEF OneConnects, Connecting, OnAbilityConnectDone, HandlerGoto
  <2>. QED
    BY <2>1, <2>2, <2>3, <2>4, <2>5, <2>6 DEF CalmInv
<1>12. ASSUME NEW c \in Conns, SaveProxy(c) PROVE CalmInv'
  <2>. calm /\ Alone /\ Resting /\ Timely /\ Healthy /\ Straight /\ OneConnects
    BY <1>12, Zenon DEF CalmInv, SaveProxy, history
  <2>1. Alone'
    BY <1>12 DEF Alone, Resting, Timely, Healthy, Straight, OneConnects, Connecting, SaveProxy
  <2>2. Resting'
    <3>0. info # NoInfo /\ call' = call
      BY <1>12 DEF SaveProxy, Resting
    <3>1. /\ info'.proxy = c /\ info'.callback = info.callback /\ info'.aged = FALSE /\ info' # NoInfo
          /\ conn[c].at = "saving"
      <4>1. info.callback \in Conns \cup {None}
        BY <3>0 DEF TypeOK, Infos
      <4>2. {} \in SUBSET Strategies
        OBVIOUS
      <4>3. info' = [proxy |-> c, callback |-> info.callback, isPending |-> FALSE, aged |-> FALSE,
                     pendingCallbacks |-> {}]
        BY <1>12, <3>0, SaveProxyEffect
      <4>. QED
        BY <1>12, <3>0, <4>1, <4>2, <4>3, InfoRecord, SaveProxyEffect
    <3>2. /\ \A d \in Conns : d # c => conn'[d] = conn[d]
          /\ conn'[c].isStale = conn[c].isStale /\ conn'[c].at = "flushing"
      BY <1>12, <3>0, SaveProxyEffect
    <3>. QED
      BY <3>0, <3>1, <3>2 DEF Resting
  <2>3. Timely'
    <3>0. info # NoInfo /\ call' = call
      BY <1>12 DEF SaveProxy, Resting
    <3>1. /\ info'.proxy = c /\ info'.callback = info.callback /\ info'.aged = FALSE /\ info' # NoInfo
          /\ conn[c].at = "saving"
      <4>1. info.callback \in Conns \cup {None}
        BY <3>0 DEF TypeOK, Infos
      <4>2. {} \in SUBSET Strategies
        OBVIOUS
      <4>3. info' = [proxy |-> c, callback |-> info.callback, isPending |-> FALSE, aged |-> FALSE,
                     pendingCallbacks |-> {}]
        BY <1>12, <3>0, SaveProxyEffect
      <4>. QED
        BY <1>12, <3>0, <4>1, <4>2, <4>3, InfoRecord, SaveProxyEffect
    <3>2. /\ \A d \in Conns : d # c => conn'[d] = conn[d]
          /\ conn'[c].isStale = conn[c].isStale /\ conn'[c].at = "flushing"
      BY <1>12, <3>0, SaveProxyEffect
    <3>. QED
      BY <3>0, <3>1, <3>2 DEF Timely
  <2>4. Healthy'
    <3>0. info # NoInfo /\ call' = call
      BY <1>12 DEF SaveProxy, Resting
    <3>1. /\ info'.proxy = c /\ info'.callback = info.callback /\ info'.aged = FALSE /\ info' # NoInfo
          /\ conn[c].at = "saving"
      <4>1. info.callback \in Conns \cup {None}
        BY <3>0 DEF TypeOK, Infos
      <4>2. {} \in SUBSET Strategies
        OBVIOUS
      <4>3. info' = [proxy |-> c, callback |-> info.callback, isPending |-> FALSE, aged |-> FALSE,
                     pendingCallbacks |-> {}]
        BY <1>12, <3>0, SaveProxyEffect
      <4>. QED
        BY <1>12, <3>0, <4>1, <4>2, <4>3, InfoRecord, SaveProxyEffect
    <3>2. /\ \A d \in Conns : d # c => conn'[d] = conn[d]
          /\ conn'[c].isStale = conn[c].isStale /\ conn'[c].at = "flushing"
      BY <1>12, <3>0, SaveProxyEffect
    <3>. QED
      BY <3>0, <3>1, <3>2 DEF Healthy
  <2>5. Straight'
    <3>0. info # NoInfo /\ call' = call
      BY <1>12 DEF SaveProxy, Resting
    <3>1. /\ info'.proxy = c /\ info'.callback = info.callback /\ info'.aged = FALSE /\ info' # NoInfo
          /\ conn[c].at = "saving"
      <4>1. info.callback \in Conns \cup {None}
        BY <3>0 DEF TypeOK, Infos
      <4>2. {} \in SUBSET Strategies
        OBVIOUS
      <4>3. info' = [proxy |-> c, callback |-> info.callback, isPending |-> FALSE, aged |-> FALSE,
                     pendingCallbacks |-> {}]
        BY <1>12, <3>0, SaveProxyEffect
      <4>. QED
        BY <1>12, <3>0, <4>1, <4>2, <4>3, InfoRecord, SaveProxyEffect
    <3>2. /\ \A d \in Conns : d # c => conn'[d] = conn[d]
          /\ conn'[c].isStale = conn[c].isStale /\ conn'[c].at = "flushing"
      BY <1>12, <3>0, SaveProxyEffect
    <3>3. \A b \in Actors : call[b].pc = "execute" => call[b].c \in Conns
      BY DEF HoldsConnection
    <3>4. \A b \in Actors : call[b].pc \notin {"establish", "connect"}
      BY <3>1 DEF Straight
    <3>. QED
      BY <3>0, <3>1, <3>2, <3>3, <3>4 DEF Straight, Connecting
  <2>6. OneConnects'
    BY <1>12 DEF OneConnects, Connecting, SaveProxy
  <2>. QED
    BY <2>1, <2>2, <2>3, <2>4, <2>5, <2>6 DEF CalmInv
<1>13. ASSUME NEW c \in Conns, NEW s \in Strategies, FlushOne(c, s) PROVE CalmInv'
  <2>. calm /\ Alone /\ Resting /\ Timely /\ Healthy /\ Straight /\ OneConnects
    BY <1>13, Zenon DEF CalmInv, FlushOne
  <2>1. Alone'
    BY <1>13 DEF Alone, FlushOne
  <2>2. Resting'
    BY <1>13 DEF Resting, FlushOne
  <2>3. Timely'
    BY <1>13 DEF Timely, FlushOne
  <2>4. Healthy'
    BY <1>13 DEF Healthy, FlushOne
  <2>5. Straight'
    BY <1>13 DEF Straight, Connecting, FlushOne
  <2>6. OneConnects'
    BY <1>13 DEF OneConnects, Connecting, FlushOne
  <2>. QED
    BY <2>1, <2>2, <2>3, <2>4, <2>5, <2>6 DEF CalmInv
<1>14. ASSUME NEW c \in Conns, Flushed(c) PROVE CalmInv'
  <2>. calm /\ Alone /\ Resting /\ Timely /\ Healthy /\ Straight /\ OneConnects
    BY <1>14, Zenon DEF CalmInv, Flushed, history
  <2>1. Alone'
    <3>1. /\ \A d \in Conns : d # c => conn'[d] = conn[d]
          /\ conn'[c].isStale = FALSE /\ conn'[c].at = "connected"
          /\ conn[c].at = "flushing" /\ call' = call /\ info' = info
      BY <1>14, HandlerEndsEffect DEF Flushed, Healthy
    <3>. QED
      BY <3>1 DEF Alone
  <2>2. Resting'
    BY <1>14 DEF Resting, Flushed
  <2>3. Timely'
    <3>1. /\ \A d \in Conns : d # c => conn'[d] = conn[d]
          /\ conn'[c].isStale = FALSE /\ conn'[c].at = "connected"
          /\ conn[c].at = "flushing" /\ call' = call /\ info' = info
      BY <1>14, HandlerEndsEffect DEF Flushed, Healthy
    <3>2. info # NoInfo /\ info.proxy # None => info.proxy \in Conns
      BY DEF TypeOK, Infos
    <3>. QED
      BY <3>1, <3>2 DEF Timely
  <2>4. Healthy'
    <3>1. /\ \A d \in Conns : d # c => conn'[d] = conn[d]
          /\ conn'[c].isStale = FALSE /\ conn'[c].at = "connected"
          /\ conn[c].at = "flushing" /\ call' = call /\ info' = info
      BY <1>14, HandlerEndsEffect DEF Flushed, Healthy
    <3>. QED
      BY <3>1 DEF Healthy
  <2>5. Straight'
    <3>1. /\ \A d \in Conns : d # c => conn'[d] = conn[d]
          /\ conn'[c].isStale = FALSE /\ conn'[c].at = "connected"
          /\ conn[c].at = "flushing" /\ call' = call /\ info' = info
      BY <1>14, HandlerEndsEffect DEF Flushed, Healthy
    <3>2. \A b \in Actors : call[b].pc = "execute" => call[b].c \in Conns
      BY DEF HoldsConnection
    <3>3. \A b \in Actors : call[b].pc \notin {"establish", "connect"}
      BY <3>1 DEF Straight
    <3>. QED
      BY <3>1, <3>2, <3>3 DEF Straight, Connecting
  <2>6. OneConnects'
    BY <1>14 DEF OneConnects, Connecting, Flushed
  <2>. QED
    BY <2>1, <2>2, <2>3, <2>4, <2>5, <2>6 DEF CalmInv
<1>15. ASSUME NEW c \in Conns, RemoveRemoteObject(c) PROVE CalmInv'
  <2>. calm /\ Alone /\ Resting /\ Timely /\ Healthy /\ Straight /\ OneConnects
    BY <1>15, Zenon DEF CalmInv, RemoveRemoteObject, HandlerGoto, StartAgain
  <2>1. Alone'
    BY <1>15 DEF Alone, RemoveRemoteObject, HandlerGoto, StartAgain
  <2>2. Resting'
    BY <1>15 DEF Alone, Resting, Timely, Healthy, Straight, OneConnects, Connecting, history, RemoveRemoteObject, HandlerGoto, StartAgain
  <2>3. Timely'
    BY <1>15 DEF Timely, RemoveRemoteObject, HandlerGoto, StartAgain
  <2>4. Healthy'
    BY <1>15 DEF Healthy, RemoveRemoteObject, HandlerGoto, StartAgain
  <2>5. Straight'
    BY <1>15 DEF Alone, Resting, Timely, Healthy, Straight, OneConnects, Connecting, history, RemoveRemoteObject, HandlerGoto, StartAgain
  <2>6. OneConnects'
    BY <1>15 DEF OneConnects, Connecting, RemoveRemoteObject, HandlerGoto, StartAgain, Goto
  <2>. QED
    BY <2>1, <2>2, <2>3, <2>4, <2>5, <2>6 DEF CalmInv
<1>16. ASSUME NEW c \in Conns, OnAbilityDisconnectDone(c) PROVE CalmInv'
  BY <1>16, Zenon DEF OnAbilityDisconnectDone, Fault
<1>17. CASE Elapse
  BY <1>17, Zenon DEF Elapse, Fault
<1>18. CASE ClearConnections
  BY <1>18, Zenon DEF ClearConnections, Fault
<1>19. CASE UNCHANGED vars
  <2>. calm /\ Alone /\ Resting /\ Timely /\ Healthy /\ Straight /\ OneConnects
    BY <1>19, Zenon DEF CalmInv, vars
  <2>1. Alone'
    BY <1>19 DEF Alone, vars
  <2>2. Resting'
    BY <1>19 DEF Resting, vars
  <2>3. Timely'
    BY <1>19 DEF Timely, vars
  <2>4. Healthy'
    BY <1>19 DEF Healthy, vars
  <2>5. Straight'
    BY <1>19 DEF Straight, Connecting, vars
  <2>6. OneConnects'
    BY <1>19 DEF OneConnects, Connecting, vars
  <2>. QED
    BY <2>1, <2>2, <2>3, <2>4, <2>5, <2>6 DEF CalmInv
<1>. QED
  BY <1>1, <1>2, <1>3, <1>4, <1>5, <1>6, <1>7, <1>8, <1>9, <1>10, <1>11, <1>12, <1>13, <1>14, <1>15, <1>16, <1>17, <1>18, <1>19, StepCases

-----------------------------------------------------------------------------

LEMMA InitInv ==
    ASSUME Init PROVE ConnInv
<1>1. TypeOK
  <2>1. [at |-> "ended", isStale |-> FALSE, callbacks |-> {}] \in Connections
    BY DEF Connections
  <2>2. [pc |-> "idle", c |-> None] \in Calls
    BY DEF Calls
  <2>. QED
    BY <2>1, <2>2 DEF Init, TypeOK
<1>2. HoldsConnection /\ CallbacksAreFlushed /\ PendingIsServed /\ ProxyIsWatched
  BY DEF Init, HoldsConnection, CallbacksAreFlushed, PendingIsServed, ProxyIsWatched
<1>3. \A t \in Callers : Placed(t)
  BY DEF Init, Placed, Pending, Held, Actors
<1>4. CalmInv
  BY DEF Init, CalmInv, Alone, Resting, Timely, Healthy, Straight, OneConnects, Connecting
<1>. QED
  BY <1>1, <1>2, <1>3, <1>4 DEF ConnInv

(* However often the connection is refused, lost, replaced or times out,      *)
(* every step of ExecuteCallback and of the handlers of the connection keeps  *)
(* the types, the callback each thread holds, who serves a queue, where each  *)
(* strategy is and, while nothing fails, the one connection.                  *)
THEOREM ConnectionInvariant == Spec => []ConnInv
<1>1. Init => ConnInv
  BY InitInv
<1>2. ConnInv /\ [Next]_vars => ConnInv'
  <2>. SUFFICES ASSUME ConnInv, [Next]_vars PROVE ConnInv'
    OBVIOUS
  <2>1. TypeOK' /\ HoldsConnection'
    BY TypeStep DEF ConnInv
  <2>2. CallbacksAreFlushed'
    BY <2>1, FlushedStep DEF ConnInv
  <2>3. PendingIsServed' /\ ProxyIsWatched'
    BY <2>1, ServedStep DEF ConnInv
  <2>4. \A t \in Callers : Placed(t)'
    BY <2>1, PlacedStep DEF ConnInv
  <2>5. CalmInv'
    BY <2>1, CalmStep DEF ConnInv
  <2>. QED
    BY <2>1, <2>2, <2>3, <2>4, <2>5 DEF ConnInv
<1>. QED
  BY <1>1, <1>2, PTL DEF Spec

(* A pending queue has a connection under way that is not stale, or somebody  *)
(* in EstablishConnection who will make one or drop the queue.                *)
THEOREM QueuesAreServed == Spec => []PendingIsServed
<1>1. ConnInv => PendingIsServed
  BY DEF ConnInv
<1>. QED
  BY <1>1, ConnectionInvariant, PTL

(* A proxy in connectionMap_ goes with a connection whose end will be heard,  *)
(* or is about to be replaced.                                                *)
THEOREM ProxiesAreWatched == Spec => []ProxyIsWatched
<1>1. ConnInv => ProxyIsWatched
  BY DEF ConnInv
<1>. QED
  BY <1>1, ConnectionInvariant, PTL

LEMMA OnePlace ==
    ASSUME NEW t \in Callers, Placed(t)
    PROVE  Cardinality(Places(t)) = IF t \in finished THEN 0 ELSE 1
<1>1. CASE t \in finished
  <2>1. Places(t) = {}
    BY <1>1 DEF Placed, Places, Held
  <2>. QED
    BY <1>1, <2>1, FS_EmptySet
<1>2. CASE t \notin finished
  <2>1. \E p : Places(t) = {p}
    <3>1. CASE t \in Pending
      <4>1. Places(t) = {NoInfo}
        BY <3>1 DEF Placed, Places, Held
      <4>. QED
        BY <4>1
    <3>2. CASE t \notin Pending /\ Held(t)
      <4>1. Places(t) = {t}
        BY <3>2 DEF Placed, Places, Held
      <4>. QED
        BY <4>1
    <3>3. CASE t \notin Pending /\ ~Held(t)
      <4>1. PICK c \in Conns : t \in conn[c].callbacks
        BY <1>2, <3>3 DEF Placed
      <4>2. Places(t) = {c}
        BY <3>3, <4>1 DEF Placed, Places, Held
      <4>. QED
        BY <4>2
    <3>. QED
      BY <3>1, <3>2, <3>3
  <2>. QED
    BY <1>2, <2>1, FS_Singleton
<1>. QED
  BY <1>1, <1>2

(* A strategy given to ExecuteCallback is in exactly one queue or thread      *)
(* until it was executed or dropped, and in none after: it is not executed    *)
(* twice and is not forgotten.                                                *)
THEOREM StrategiesInOnePlace == Spec => []InOnePlace
<1>1. ConnInv => InOnePlace
  BY OnePlace DEF ConnInv, InOnePlace
<1>. QED
  BY <1>1, ConnectionInvariant, PTL

(* As long as nothing has failed, died, timed out or been cleared, the        *)
(* administrator has one connection, however many threads asked for it.       *)
THEOREM OneConnectionInCalm == Spec => []OneInCalm
<1>1. ConnInv => OneInCalm
  BY DEF ConnInv, CalmInv, Alone, OneInCalm
<1>. QED
  BY <1>1, ConnectionInvariant, PTL
=============================================================================
