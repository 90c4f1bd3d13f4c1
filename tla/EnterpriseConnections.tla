------------------------ MODULE EnterpriseConnections ------------------------
(* EnterpriseConnManager: the connection to the extension of one              *)
(* administrator, over which ICallbackStrategy objects are executed, and the  *)
(* EnterpriseConnectionCallback objects whose handlers the ability manager    *)
(* calls.  Keys of connectionMap_ have nothing in common, so there is one.    *)
(*                                                                            *)
(* What happens under connectionMutex_ is one step, and so is one call to     *)
(* another process.  Strategies are named after the thread that brings them.  *)
EXTENDS FiniteSets, Integers

CONSTANTS
    Callers,        \* threads that call ExecuteCallback
    Conns,          \* EnterpriseConnectionCallback objects; their handlers call it too
    None,
    Start,          \* StartStrategy, which does nothing
    NoInfo,
    KeepAlive,      \* the administrator has IsEnterpriseAdminKeepAlive
    Env             \* what may happen: "connect" is refused, "done" reports a failure,
                    \* the extension may "die", a "call" of it fails, the "clock"
                    \* passes ten seconds, somebody asks to "clear" all connections

ASSUME ConnectionAssumption ==
    /\ Callers \cap Conns = {}
    /\ None \notin Callers \cup Conns
    /\ Start \notin Callers
    /\ KeepAlive \in BOOLEAN
    /\ Env \subseteq {"connect", "done", "die", "call", "clock", "clear"}

VARIABLES
    info,           \* the ConnectionInfo of the key in connectionMap_, or NoInfo
    conn,           \* conn[c]: what the ability manager and the handlers of c do
    call,           \* call[a]: where a thread is in ExecuteCallback, and with which c
    finished,       \* history: callers whose strategy was executed or dropped
    calm            \* history: nothing in Env has happened

vars == <<info, conn, call, finished, calm>>
history == <<finished, calm>>

Actors == Callers \cup Conns
Strategies == Callers \cup {Start}

(* ConnectionInfo; a proxy is named after the connection it came with, and    *)
(* "aged" says that createTime is more than ten seconds ago.                  *)
Infos == [proxy : Conns \cup {None}, callback : Conns \cup {None},
          pendingCallbacks : SUBSET Strategies, isPending : BOOLEAN, aged : BOOLEAN]

ASSUME NoInfoAssumption == NoInfo \notin Infos

(* Where the handlers of a connection are, with the queue they have taken.    *)
Connections == [at : {"ended", "connecting", "saving", "flushing", "connected", "failing", "dying"},
                isStale : BOOLEAN, callbacks : SUBSET Strategies]
Calls == [pc : {"idle", "check", "execute", "requeue", "disconnect", "establish", "replace",
                "connect", "store", "failed"},
          c : Conns \cup {None}]

TypeOK ==
    /\ info \in Infos \cup {NoInfo}
    /\ info # NoInfo => /\ info.isPending <=> info.proxy = None
                        /\ info.pendingCallbacks # {} => info.isPending
    /\ conn \in [Conns -> Connections]
    /\ call \in [Actors -> Calls]
    /\ finished \subseteq Callers
    /\ calm \in BOOLEAN

Init ==
    /\ info = NoInfo
    /\ conn = [c \in Conns |-> [at |-> "ended", isStale |-> FALSE, callbacks |-> {}]]
    /\ call = [a \in Actors |-> [pc |-> "idle", c |-> None]]
    /\ finished = Callers
    /\ calm = TRUE

Strategy(a) == IF a \in Callers THEN a ELSE Start

Pending == IF info = NoInfo THEN {} ELSE info.pendingCallbacks
Callback == IF info = NoInfo THEN None ELSE info.callback

(* Where a thread goes on, and with which connection. *)
Goto(a, place, c) == call' = [call EXCEPT ![a] = [pc |-> place, c |-> c]]
Leave(a) == Goto(a, "idle", None)

(* A stale callback ignores every call of its handlers, so it has ended,      *)
(* unless the handler is running and is past the check.                       *)
MarkStale(c) ==
    conn' = IF conn[c].at \in {"connecting", "connected"} THEN [conn EXCEPT ![c].at = "ended"]
            ELSE [conn EXCEPT ![c].isStale = conn[c].at \in {"saving", "flushing"}]

(* The strategies S are executed, or dropped. *)
Finish(S) == finished' = finished \cup (S \cap Callers)

Fault(kind) == kind \in Env /\ calm' = FALSE

-----------------------------------------------------------------------------
(* ExecuteCallback *)

TimedOut == IF info = NoInfo THEN FALSE ELSE info.isPending /\ info.aged

(* mutant: a connection that is pending is not noticed *)
CheckProxyOnly(a) ==
    /\ finished' = finished \ {a}
    /\ IF info = NoInfo
       THEN /\ info' = [proxy |-> None, callback |-> None, isPending |-> TRUE,
                        aged |-> FALSE, pendingCallbacks |-> {Strategy(a)}]
            /\ Goto(a, "establish", None)
       ELSE IF info.proxy # None
       THEN Goto(a, "execute", info.proxy) /\ UNCHANGED info
       ELSE /\ info' = [info EXCEPT !.pendingCallbacks = @ \cup {Strategy(a)}]
            /\ Goto(a, "establish", None)
    /\ UNCHANGED <<conn, calm>>

(* CheckConnectionState erases a connection that is pending for too long;     *)
(* then it uses the proxy, or joins the queue, or prepares a new connection.  *)
CheckConnectionState(a) ==
    /\ LET now == IF TimedOut THEN NoInfo ELSE info
           timedOut == IF TimedOut THEN Pending \cap Callers ELSE {}
       IN  /\ finished' = (finished \cup timedOut) \ {a}
           /\ IF TimedOut /\ Callback # None THEN MarkStale(Callback) ELSE UNCHANGED conn
           /\ IF now = NoInfo
              THEN /\ info' = [proxy |-> None, callback |-> None, isPending |-> TRUE,
                               aged |-> FALSE, pendingCallbacks |-> {Strategy(a)}]
                   /\ Goto(a, "establish", None)
              ELSE IF now.proxy # None
              THEN /\ Goto(a, "execute", now.proxy)
                   /\ UNCHANGED info
              ELSE /\ info' = [now EXCEPT !.pendingCallbacks = @ \cup {Strategy(a)},
                                          !.isPending = TRUE,
                                          !.aged = @ /\ now.isPending]
                   /\ IF now.isPending THEN Leave(a) ELSE Goto(a, "establish", None)
    /\ UNCHANGED calm

(* A thread comes with a new strategy, its former one being done with. *)
ExecuteCallback(t) ==
    /\ call[t].pc = "idle"
    /\ t \in finished
    /\ CheckConnectionState(t)

(* A handler starts the administrator again. *)
ExecuteStart(c) ==
    /\ call[c].pc = "check"
    /\ CheckConnectionState(c)

(* The proxy is used directly.  A call may fail when the extension is gone,   *)
(* or at any time; StartStrategy only finds out that the proxy is dead.       *)
Execute(a) ==
    /\ call[a].pc = "execute"
    /\ \/ /\ Finish({a})
          /\ Leave(a)
          /\ UNCHANGED calm
       \/ /\ \/ conn[call[a].c].at = "ended" /\ UNCHANGED calm
             \/ Fault("call")
          /\ Goto(a, "requeue", None)
          /\ UNCHANGED finished
    /\ UNCHANGED <<info, conn>>

(* RequeueAndReconnect gives up if the connection is gone. *)
RequeueAndReconnect(a) ==
    /\ call[a].pc = "requeue"
    /\ IF info = NoInfo
       THEN /\ Finish({Strategy(a)})
            /\ Leave(a)
            /\ UNCHANGED info
       ELSE /\ info' = [info EXCEPT !.proxy = None, !.isPending = TRUE, !.aged = FALSE,
                                    !.pendingCallbacks = @ \cup {Strategy(a)}]
            /\ IF info.callback = None THEN Goto(a, "establish", None)
               ELSE Goto(a, "disconnect", info.callback)
            /\ UNCHANGED finished
    /\ UNCHANGED <<conn, calm>>

(* EstablishConnection looks for an old callback ... *)
EstablishConnection(a) ==
    /\ call[a].pc = "establish"
    /\ IF Callback = None THEN Goto(a, "connect", None) ELSE Goto(a, "replace", Callback)
    /\ UNCHANGED <<info, conn, history>>

(* ... which is disconnected without connectionMutex_. *)
DisconnectStaleCallback(a) ==
    /\ call[a].pc \in {"disconnect", "replace"}
    /\ MarkStale(call[a].c)
    /\ Goto(a, IF call[a].pc = "disconnect" THEN "establish" ELSE "connect", None)
    /\ UNCHANGED <<info, history>>

(* An object nobody refers to any more stands for a new one. *)
Unused(c) ==
    /\ conn[c].at = "ended"
    /\ call[c].pc = "idle"
    /\ \A a \in Actors : call[a].c # c
    /\ info # NoInfo => c \notin {info.proxy, info.callback}

(* ConnectEnterpriseAdminExtensionAbility. *)
Connect(a) ==
    /\ call[a].pc = "connect"
    /\ \/ \E c \in Conns :
              /\ Unused(c)
              /\ conn' = [conn EXCEPT ![c] = [at |-> "connecting", isStale |-> FALSE, callbacks |-> {}]]
              /\ Goto(a, "store", c)
              /\ UNCHANGED calm
       \/ /\ Fault("connect")
          /\ Goto(a, "failed", None)
          /\ UNCHANGED conn
    /\ UNCHANGED <<info, finished>>

StoreCallback(a) ==
    /\ call[a].pc = "store"
    /\ info' = IF info = NoInfo THEN NoInfo ELSE [info EXCEPT !.callback = call[a].c]
    /\ Leave(a)
    /\ UNCHANGED <<conn, history>>

(* mutant: a refused connection stays pending *)
ConnectFailedSilently(a) ==
    /\ call[a].pc = "failed"
    /\ Leave(a)
    /\ UNCHANGED <<info, conn, history>>

(* The queue is lost, whoever is in it. *)
ConnectFailed(a) ==
    /\ call[a].pc = "failed"
    /\ info' = NoInfo
    /\ Finish(Pending)
    /\ Leave(a)
    /\ UNCHANGED <<conn, calm>>

-----------------------------------------------------------------------------
(* EnterpriseConnectionCallback; the ability manager calls the handlers of    *)
(* one connection one after the other.                                        *)

HandlerGoto(c, place) == conn' = [conn EXCEPT ![c].at = place]
HandlerEnds(c) ==
    conn' = [conn EXCEPT ![c].at = IF conn[c].isStale THEN "ended" ELSE "connected",
                         ![c].isStale = FALSE]

OnAbilityConnectDone(c) ==
    /\ conn[c].at = "connecting"
    /\ \/ HandlerGoto(c, "saving") /\ UNCHANGED calm
       \/ HandlerGoto(c, "failing") /\ Fault("done")
    /\ UNCHANGED <<info, call, finished>>

(* mutant: the queue is copied, not taken *)
SaveProxyCopying(c) ==
    /\ conn[c].at = "saving"
    /\ IF info = NoInfo
       THEN HandlerEnds(c) /\ UNCHANGED info
       ELSE /\ info' = [info EXCEPT !.proxy = c, !.isPending = FALSE, !.aged = FALSE]
            /\ conn' = [conn EXCEPT ![c].at = "flushing", ![c].callbacks = Pending]
    /\ UNCHANGED <<call, history>>

(* SaveProxy takes the queue ... *)
SaveProxy(c) ==
    /\ conn[c].at = "saving"
    /\ IF info = NoInfo
       THEN HandlerEnds(c) /\ UNCHANGED info
       ELSE /\ info' = [info EXCEPT !.proxy = c, !.isPending = FALSE, !.aged = FALSE,
                                    !.pendingCallbacks = {}]
            /\ conn' = [conn EXCEPT ![c].at = "flushing", ![c].callbacks = Pending]
    /\ UNCHANGED <<call, history>>

(* ... and executes it after it has released connectionMutex_; a failure is   *)
(* only logged.                                                               *)
FlushOne(c, s) ==
    /\ conn[c].at = "flushing"
    /\ s \in conn[c].callbacks
    /\ conn' = [conn EXCEPT ![c].callbacks = @ \ {s}]
    /\ Finish({s})
    /\ UNCHANGED <<info, call, calm>>

Flushed(c) ==
    /\ conn[c].at = "flushing"
    /\ conn[c].callbacks = {}
    /\ HandlerEnds(c)
    /\ UNCHANGED <<info, call, history>>

(* The extension is gone: OnAbilityDisconnectDone. *)
OnAbilityDisconnectDone(c) ==
    /\ conn[c].at = "connected"
    /\ Fault("die")
    /\ HandlerGoto(c, "dying")
    /\ UNCHANGED <<info, call, finished>>

(* An administrator that is to be kept alive is started again by the thread   *)
(* of the handler, if it is still enabled and the current user's.             *)
StartAgain(c) == Goto(c, "check", None)

(* mutant: the proxy of a lost connection stays *)
RemoveNothing(c) ==
    /\ conn[c].at \in {"failing", "dying"}
    /\ HandlerGoto(c, "ended")
    /\ UNCHANGED call \/ (conn[c].at = "dying" /\ KeepAlive /\ StartAgain(c))
    /\ UNCHANGED <<info, history>>

(* RemoveRemoteObject, and what follows it.                                   *)
RemoveRemoteObject(c) ==
    /\ conn[c].at \in {"failing", "dying"}
    /\ HandlerGoto(c, "ended")
    /\ info' = NoInfo
    /\ Finish(Pending)
    /\ UNCHANGED call \/ (conn[c].at = "dying" /\ KeepAlive /\ StartAgain(c))
    /\ UNCHANGED calm

-----------------------------------------------------------------------------

Elapse ==
    /\ info # NoInfo
    /\ info.isPending /\ ~info.aged
    /\ Fault("clock")
    /\ info' = [info EXCEPT !.aged = TRUE]
    /\ UNCHANGED <<conn, call, finished>>

ClearConnections ==
    /\ info # NoInfo
    /\ Fault("clear")
    /\ IF Callback # None THEN MarkStale(Callback) ELSE UNCHANGED conn
    /\ info' = NoInfo
    /\ Finish(Pending)
    /\ UNCHANGED call

CallStep(a) ==
    \/ Execute(a) \/ RequeueAndReconnect(a)
    \/ EstablishConnection(a) \/ DisconnectStaleCallback(a) \/ Connect(a)
    \/ StoreCallback(a) \/ ConnectFailed(a)
HandlerStep(c) ==
    \/ OnAbilityConnectDone(c) \/ SaveProxy(c) \/ (\E s \in Strategies : FlushOne(c, s))
    \/ Flushed(c) \/ RemoveRemoteObject(c) \/ ExecuteStart(c)

Next ==
    \/ \E t \in Callers : ExecuteCallback(t)
    \/ \E a \in Actors : CallStep(a)
    \/ \E c \in Conns : HandlerStep(c) \/ OnAbilityDisconnectDone(c)
    \/ Elapse
    \/ ClearConnections

Spec == Init /\ [][Next]_vars

(* Threads run, and the ability manager answers every request to connect; the *)
(* handlers of one connection and what they call are one thread.              *)
FairSpec ==
    /\ Spec
    /\ \A t \in Callers : WF_vars(CallStep(t))
    /\ \A c \in Conns : WF_vars(HandlerStep(c) \/ CallStep(c))

-----------------------------------------------------------------------------

(* Somebody is about to connect, or to take the entry away. *)
Establishing == {a \in Actors : call[a].pc \in {"disconnect", "establish", "replace", "connect", "failed"}}

(* A queue has a connection under way that is not going to be ignored, or     *)
(* somebody who is going to make one: nobody waits for a stale callback.      *)
PendingIsServed ==
    info # NoInfo /\ info.isPending =>
        \/ Establishing # {}
        \/ \E c \in Conns : ~conn[c].isStale /\ conn[c].at \in {"connecting", "saving", "failing", "dying"}

(* A proxy in the map goes with a connection whose end will remove it, or is  *)
(* about to be replaced: it does not outlive the extension for good.          *)
ProxyIsWatched ==
    info # NoInfo /\ ~info.isPending =>
        Establishing # {} \/ \E c \in Conns : ~conn[c].isStale /\ conn[c].at # "ended"

(* A strategy is in one place until it was executed or dropped, and then in   *)
(* none: however often it is queued again, and whatever happens to the queue  *)
(* and the connection meanwhile, it is not executed twice and does not vanish.*)
Places(t) ==
    (IF t \in Pending THEN {NoInfo} ELSE {}) \cup {c \in Conns : t \in conn[c].callbacks}
        \cup {a \in {t} : call[a].pc \in {"execute", "requeue"}}
InOnePlace == \A t \in Callers : Cardinality(Places(t)) = IF t \in finished THEN 0 ELSE 1

(* As long as nothing goes wrong, there is one connection.                    *)
OneInCalm ==
    calm => \A c, d \in Conns : conn[c].at # "ended" /\ conn[d].at # "ended" => c = d

(* Whoever waits in the queue is executed or dropped in the end.              *)
QueueMoves == \A t \in Callers : t \in Pending ~> t \notin Pending
=============================================================================
