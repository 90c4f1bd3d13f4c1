------------------------- MODULE SystemTimersProofs -------------------------
(* Theorems about SystemTimers, for any clients, timers, names and limit and  *)
(* any faults: a timer that can go off has an entry or is about to, a dead    *)
(* client is noticed, and a client can start the timers it has.               *)
EXTENDS SystemTimers, TLAPS

-----------------------------------------------------------------------------
(* Who holds a timer, and what an operation that holds adminLock_ has done *)

(* What a client has in its map, or is about to put there.                    *)
Has(c) == known[c] \cup Created({c})

(* A client owns a timer as long as it can have an entry of its own made for  *)
(* it; others of the administrator can only destroy it.                       *)
Owns(c, id) ==
    \/ timerMap[id] = c
    \/ id \in Has(c) \/ id \in resync[c].items
    \/ op.kind = "insert" /\ op.by = c /\ id \in op.ids
OwnedOnce == \A id \in Ids : \A c, d \in Clients : Owns(c, id) /\ Owns(d, id) => c = d

(* A timer is given to one thread, and is then in no map yet.                 *)
CreatedOnce ==
    \A t \in Threads : call[t].at = "created" =>
        /\ \A c \in Clients : call[t].id \notin known[c]
        /\ \A u \in Threads : call[u].at = "created" /\ call[u].id = call[t].id => u = t

CallsHaveTimers == \A t \in Threads : call[t].at \in {"none", "create"} <=> call[t].id = None

(* A timer that is being destroyed is gone from the time service, and so are  *)
(* those whose name an item of a resynchronization has taken.                 *)
OpIsHalfDone ==
    /\ op.kind = "none" => op = NoOp
    /\ op.kind = "cleanup" =>
          /\ op.by \in Threads /\ call[op.by].at = "destroy" /\ op.ids = {call[op.by].id}
          /\ op.ids \cap timers = {}
    /\ op.kind = "insert" =>
          /\ op.by \in Clients
          /\ \E id \in Ids : op.ids = {id} /\ SameName(id) \cap timers = {}
    /\ op.kind = "remove" => op.by = None

Owned == CallsHaveTimers /\ OpIsHalfDone /\ CreatedOnce /\ OwnedOnce
OwnedInv == TypeOK /\ Owned

-----------------------------------------------------------------------------
(* Typing *)

CallType == [at : {"none", "create", "created", "destroy", "destroyed"}, id : Ids \cup {None}]
ResyncType == [due : BOOLEAN, items : SUBSET Ids]

LEMMA AnswerType ==
    ASSUME TypeOK, NEW t \in Threads, NEW at \in {"none", "created", "destroyed"},
           NEW id \in Ids \cup {None}, Answer(t, at, id)
    PROVE  call' \in [Threads -> CallType]
<1>1. call \in [Threads -> CallType]
  BY DEF TypeOK, CallType
<1>2. NoCall \in CallType /\ [at |-> at, id |-> id] \in CallType
  BY DEF NoCall, CallType
<1>. QED
  BY <1>1, <1>2 DEF Answer

LEMMA CleanupType ==
    ASSUME TypeOK, NEW ids, Cleanup(ids)
    PROVE  /\ timerMap' \in [Ids -> Clients \cup {None}]
           /\ recipients' \subseteq Clients /\ notices' \subseteq Clients
  BY DEF TypeOK, Cleanup, Erased

LEMMA InsertType ==
    ASSUME TypeOK, NEW c \in Clients, NEW id \in Ids, Insert(c, id)
    PROVE  /\ timerMap' \in [Ids -> Clients \cup {None}]
           /\ recipients' \subseteq Clients /\ notices' \subseteq Clients
           /\ late' \subseteq Clients /\ lost' \subseteq Ids
<1>1. Replaced(id) \subseteq Ids
  BY DEF Replaced, SameName
<1>2. Erased(Replaced(id)) \in [Ids -> Clients \cup {None}]
  BY DEF TypeOK, Erased
<1>. QED
  BY <1>1, <1>2 DEF TypeOK, Insert

LEMMA TypeStep ==
    ASSUME TypeOK, OpIsHalfDone, CallsHaveTimers, [Next]_vars
    PROVE  TypeOK'
<1>. USE TimersAssumption DEF client, service, history
<1>1. /\ call \in [Threads -> CallType] /\ resync \in [Clients -> ResyncType]
      /\ call' \in [Threads -> CallType] /\ resync' \in [Clients -> ResyncType]
         /\ alive' \subseteq Clients /\ known' \in [Clients -> SUBSET Ids] /\ enabled' \subseteq Admins
         /\ timerMap' \in [Ids -> Clients \cup {None}] /\ recipients' \subseteq Clients
         /\ notices' \subseteq Clients /\ dying' \in [Clients -> SUBSET Ids]
         /\ trigger' \in [Ids -> {"idle", "dead", "destroy"}]
         /\ op' \in [kind : {"none", "cleanup", "insert", "remove"},
                     by : Threads \cup Clients \cup {None}, ids : SUBSET Ids]
         /\ timers' \subseteq Ids /\ late' \subseteq Clients /\ lost' \subseteq Ids
         => TypeOK'
  BY DEF TypeOK, CallType, ResyncType
<1>2. ASSUME NEW t \in Threads, CreateTimer(t) PROVE TypeOK'
  <2>0. ClientOf[t] \in Clients
    OBVIOUS
  <2>1. CASE Answer(t, "none", None) /\ UNCHANGED <<timerMap, recipients, notices, timers, history>>
    <3>1. call' \in [Threads -> CallType]
      BY <2>1, AnswerType
    <3>. QED
      BY <1>2, <2>1, <3>1 DEF TypeOK, CreateTimer, CallType
  <2>2. ASSUME NEW id \in Ids, TimeServiceCreates(id), Insert(ClientOf[t], id), Answer(t, "created", id)
        PROVE  TypeOK'
    <3>1. call' \in [Threads -> CallType]
      BY <2>2, AnswerType
    <3>2. /\ timerMap' \in [Ids -> Clients \cup {None}]
          /\ recipients' \subseteq Clients /\ notices' \subseteq Clients
          /\ late' \subseteq Clients /\ lost' \subseteq Ids
      BY <2>0, <2>2, InsertType
    <3>3. timers' \subseteq Ids
      BY <2>2 DEF TimeServiceCreates, TypeOK
    <3>. QED
      BY <1>2, <3>1, <3>2, <3>3 DEF TypeOK, CreateTimer, CallType
  <2>. QED
    BY <1>2, <2>1, <2>2 DEF CreateTimer
<1>3. ASSUME NEW t \in Threads, DestroyTimer(t) PROVE TypeOK'
  <2>1. CASE call[t].id \in Ids /\ timers' = timers \ {call[t].id} /\ UNCHANGED call
             /\ op' = [kind |-> "cleanup", by |-> t, ids |-> {call[t].id}]
    BY <1>3, <2>1 DEF TypeOK, DestroyTimer
  <2>2. CASE Answer(t, "none", None) /\ UNCHANGED <<timers, op>>
    <3>1. call' \in [Threads -> CallType]
      BY <2>2, AnswerType
    <3>. QED
      BY <1>3, <2>2, <3>1 DEF TypeOK, DestroyTimer, CallType
  <2>. QED
    BY <1>3, <2>1, <2>2 DEF DestroyTimer, EntriesOf
<1>4. ASSUME DestroyCleanup PROVE TypeOK'
  <2>1. /\ timerMap' \in [Ids -> Clients \cup {None}]
        /\ recipients' \subseteq Clients /\ notices' \subseteq Clients
    BY <1>4, CleanupType DEF DestroyCleanup
  <2>2. call' \in [Threads -> CallType]
    <3>1. \A t \in Threads : call[t] \in CallType /\ [at |-> "destroyed", id |-> call[t].id] \in CallType
      BY DEF TypeOK, CallType
    <3>2. NoCall \in CallType
      BY DEF NoCall, CallType
    <3>. QED
      BY <1>4, <3>1, <3>2 DEF DestroyCleanup, Answer, TypeOK, CallType
  <2>3. op' \in [kind : {"none", "cleanup", "insert", "remove"}, by : Threads \cup Clients \cup {None}, ids : SUBSET Ids]
    BY <1>4 DEF DestroyCleanup, NoOp
  <2>4. lost' \subseteq Ids
    BY <1>4 DEF DestroyCleanup, TypeOK
  <2>. QED
    BY <1>4, <2>1, <2>2, <2>3, <2>4 DEF TypeOK, DestroyCleanup, CallType
<1>5. ASSUME NEW c \in Clients, NEW id \in Ids, ResyncTimer(c, id) PROVE TypeOK'
  <2>1. resync' \in [Clients -> ResyncType]
    BY <1>5 DEF ResyncTimer, TypeOK, ResyncType
  <2>2. timers' \subseteq Ids /\ late' \subseteq Clients /\ lost' \subseteq Ids
    BY <1>5 DEF ResyncTimer, TimeServiceCreates, TypeOK
  <2>3. op' \in [kind : {"none", "cleanup", "insert", "remove"}, by : Threads \cup Clients \cup {None}, ids : SUBSET Ids]
    BY <1>5 DEF ResyncTimer, TypeOK
  <2>. QED
    BY <1>5, <2>1, <2>2, <2>3 DEF TypeOK, ResyncTimer, ResyncType
<1>6. ASSUME ResyncInsert PROVE TypeOK'
  <2>1. PICK id \in op.ids : Insert(op.by, id)
    BY <1>6 DEF ResyncInsert
  <2>2. id \in Ids /\ op.by \in Clients
    BY <1>6 DEF TypeOK, OpIsHalfDone, ResyncInsert
  <2>3. /\ timerMap' \in [Ids -> Clients \cup {None}]
        /\ recipients' \subseteq Clients /\ notices' \subseteq Clients
        /\ late' \subseteq Clients /\ lost' \subseteq Ids
    BY <2>1, <2>2, InsertType
  <2>. QED
    BY <1>6, <2>3 DEF TypeOK, ResyncInsert, NoOp
<1>7. ASSUME NEW id \in Ids, OnTimerTriggered(id) \/ TriggerCleanup(id) \/ TriggerDestroy(id)
      PROVE  TypeOK'
  <2>1. CASE OnTimerTriggered(id)
    BY <2>1 DEF TypeOK, OnTimerTriggered
  <2>2. CASE TriggerCleanup(id)
    <3>1. /\ timerMap' \in [Ids -> Clients \cup {None}]
          /\ recipients' \subseteq Clients /\ notices' \subseteq Clients
      BY <2>2, CleanupType DEF TriggerCleanup
    <3>. QED
      BY <2>2, <3>1 DEF TypeOK, TriggerCleanup
  <2>3. CASE TriggerDestroy(id)
    BY <2>3 DEF TypeOK, TriggerDestroy
  <2>. QED
    BY <1>7, <2>1, <2>2, <2>3
<1>8. ASSUME NEW c \in Clients, OnRemoteDied(c) \/ DiedDestroy(c) PROVE TypeOK'
  <2>1. CASE OnRemoteDied(c)
    <3>. DEFINE ids == {id \in Ids : timerMap[id] = c}
    <3>1. ids \subseteq Ids /\ timerMap' = Erased(ids) /\ dying' = [dying EXCEPT ![c] = ids]
      BY <2>1 DEF OnRemoteDied
    <3>2. timerMap' \in [Ids -> Clients \cup {None}] /\ dying' \in [Clients -> SUBSET Ids]
      BY <3>1 DEF TypeOK, Erased
    <3>. QED
      BY <2>1, <3>2 DEF TypeOK, OnRemoteDied
  <2>2. CASE DiedDestroy(c)
    BY <2>2 DEF TypeOK, DiedDestroy
  <2>. QED
    BY <1>8, <2>1, <2>2
<1>9. ASSUME NEW a \in Admins, OnAdminRemove(a) \/ EnableAdmin(a) PROVE TypeOK'
  <2>1. EntriesOf(a) \subseteq Ids
    BY DEF EntriesOf
  <2>2. CASE OnAdminRemove(a)
    <3>1. op' \in [kind : {"none", "cleanup", "insert", "remove"}, by : Threads \cup Clients \cup {None}, ids : SUBSET Ids]
      BY <2>1, <2>2 DEF OnAdminRemove
    <3>2. lost' \subseteq Ids /\ enabled' \subseteq Admins
      BY <2>1, <2>2 DEF OnAdminRemove, TypeOK
    <3>3. /\ timerMap' \in [Ids -> Clients \cup {None}]
          /\ recipients' \subseteq Clients /\ notices' \subseteq Clients
      BY <2>2, CleanupType DEF OnAdminRemove
    <3>. QED
      BY <2>2, <3>1, <3>2, <3>3 DEF TypeOK, OnAdminRemove
  <2>3. CASE EnableAdmin(a)
    BY <2>3 DEF TypeOK, EnableAdmin
  <2>. QED
    BY <1>9, <2>2, <2>3
<1>10. ASSUME RemoveDestroy PROVE TypeOK'
  BY <1>10 DEF TypeOK, RemoveDestroy, NoOp
<1>11. ASSUME Crash PROVE TypeOK'
  <2>1. call' \in [Threads -> CallType]
    BY <1>1, <1>11 DEF Crash, NoCall, CallType
  <2>2. resync' \in [Clients -> ResyncType]
    BY <1>11 DEF Crash, TypeOK, ResyncType
  <2>. QED
    BY <1>11, <2>1, <2>2 DEF TypeOK, Crash, Empty, NoOp, CallType, ResyncType
<1>12. ASSUME NEW c \in Clients, StartClient(c) PROVE TypeOK'
  BY <1>12 DEF TypeOK, StartClient
<1>13. ASSUME NEW t \in Threads, Request(t) \/ InsertCallback(t) \/ RemoveCallback(t) PROVE TypeOK'
  <2>1. NoCall \in CallType /\ \A id \in Ids : [at |-> "destroy", id |-> id] \in CallType
    BY DEF NoCall, CallType
  <2>2. CASE Request(t)
    <3>1. call' \in [Threads -> CallType]
      BY <1>1, <2>1, <2>2 DEF Request, CallType
    <3>. QED
      BY <2>2, <3>1 DEF TypeOK, Request, CallType
  <2>3. CASE InsertCallback(t)
    <3>1. call[t].id \in Ids /\ call' \in [Threads -> CallType] /\ lost' \subseteq Ids
      BY <1>1, <2>1, <2>3 DEF InsertCallback, CallsHaveTimers, TypeOK
    <3>. QED
      BY <2>3, <3>1 DEF TypeOK, InsertCallback, CallType
  <2>4. CASE RemoveCallback(t)
    <3>1. call' \in [Threads -> CallType] /\ lost' \subseteq Ids
      BY <1>1, <2>1, <2>4 DEF RemoveCallback, TypeOK
    <3>. QED
      BY <2>4, <3>1 DEF TypeOK, RemoveCallback, CallType
  <2>. QED
    BY <1>13, <2>2, <2>3, <2>4
<1>14. ASSUME NEW c \in Clients, OnEdmSaRestart(c) PROVE TypeOK'
  <2>1. resync' \in [Clients -> ResyncType]
    <3>1. known[c] \subseteq Ids
      BY DEF TypeOK
    <3>2. [due |-> FALSE, items |-> known[c]] \in ResyncType
      BY <3>1 DEF ResyncType
    <3>. QED
      BY <1>1, <1>14, <3>2 DEF OnEdmSaRestart
  <2>2. lost' \subseteq Ids
    BY <1>14 DEF OnEdmSaRestart, TypeOK, CallsHaveTimers, Created
  <2>. QED
    BY <1>14, <2>1, <2>2 DEF TypeOK, OnEdmSaRestart, ResyncType
<1>15. ASSUME NEW c \in Clients, Die(c) PROVE TypeOK'
  <2>1. call' \in [Threads -> CallType]
    BY <1>1, <1>15 DEF Die, NoCall, CallType
  <2>2. resync' \in [Clients -> ResyncType]
    BY <1>15 DEF Die, TypeOK, ResyncType
  <2>. QED
    BY <1>15, <2>1, <2>2 DEF TypeOK, Die, CallType, ResyncType
<1>16. ASSUME UNCHANGED vars PROVE TypeOK'
  BY <1>16 DEF TypeOK, vars
<1>. QED
  BY <1>2, <1>3, <1>4, <1>5, <1>6, <1>7, <1>8, <1>9, <1>10, <1>11, <1>12, <1>13, <1>14, <1>15, <1>16
     DEF Next

-----------------------------------------------------------------------------
(* Timers have one owner *)

LEMMA InitOwned == Init => OwnedInv
<1>. SUFFICES ASSUME Init PROVE OwnedInv
  OBVIOUS
<1>. USE TimersAssumption DEF Init, NoCall, NoOp, Empty
<1>1. TypeOK
  BY DEF TypeOK
<1>2. CallsHaveTimers /\ CreatedOnce
  BY DEF CallsHaveTimers, CreatedOnce
<1>3. OpIsHalfDone
  BY DEF OpIsHalfDone
<1>4. OwnedOnce
  BY DEF OwnedOnce, Owns, Has, Created
<1>. QED
  BY <1>1, <1>2, <1>3, <1>4 DEF OwnedInv, Owned

(* An operation stays half done while others only destroy timers.             *)
LEMMA OpRests ==
    ASSUME OpIsHalfDone, op' = op, timers' \subseteq timers,
           op.kind = "cleanup" => call'[op.by] = call[op.by]
    PROVE  OpIsHalfDone'
  BY DEF OpIsHalfDone

(* While nobody is given a timer and no entry but the expected one is made,   *)
(* owners can only become fewer.                                              *)
LEMMA OwnersStay ==
    ASSUME OwnedOnce, CreatedOnce,
           \A c \in Clients : known'[c] \subseteq known[c],
           \A c \in Clients : resync'[c].items \subseteq resync[c].items \cup known[c],
           \A t \in Threads : call'[t].at = "created" => call'[t] = call[t],
           \A c \in Clients, id \in Ids : timerMap'[id] = c => Owns(c, id),
           \A c \in Clients, id \in Ids :
              op'.kind = "insert" /\ op'.by = c /\ id \in op'.ids => Owns(c, id)
    PROVE  OwnedOnce' /\ CreatedOnce'
<1>1. \A c \in Clients : Has(c)' \subseteq Has(c)
  BY DEF Has, Created
<1>2. \A c \in Clients, id \in Ids : Owns(c, id)' => Owns(c, id)
  <2>1. ASSUME NEW c \in Clients, NEW id \in Ids, Owns(c, id)' PROVE Owns(c, id)
    <3>1. CASE id \in Has(c)'
      BY <1>1, <3>1 DEF Owns
    <3>2. CASE id \in resync'[c].items
      BY <3>2 DEF Owns, Has
    <3>. QED
      BY <2>1, <3>1, <3>2 DEF Owns
  <2>. QED
    BY <2>1
<1>3. OwnedOnce'
  BY <1>2 DEF OwnedOnce
<1>4. CreatedOnce'
  BY DEF CreatedOnce
<1>. QED
  BY <1>3, <1>4

LEMMA AnswerIs ==
    ASSUME TypeOK, CallsHaveTimers, NEW t \in Threads, NEW at, NEW id, Answer(t, at, id),
           at \in {"created", "destroyed"}, id \in Ids
    PROVE  /\ CallsHaveTimers'
           /\ \A u \in Threads \ {t} : call'[u] = call[u]
           /\ call'[t] = [at |-> at, id |-> id] \/ call'[t] = NoCall
<1>. USE TimersAssumption
<1>1. call \in [Threads -> CallType]
  BY DEF TypeOK, CallType
<1>2. /\ \A u \in Threads \ {t} : call'[u] = call[u]
      /\ call'[t] = [at |-> at, id |-> id] \/ call'[t] = NoCall
  BY <1>1 DEF Answer
<1>3. call'[t].at \in {"none", "create"} <=> call'[t].id = None
  BY <1>2 DEF NoCall
<1>. QED
  BY <1>2, <1>3 DEF CallsHaveTimers

LEMMA AnswersNothing ==
    ASSUME TypeOK, CallsHaveTimers, NEW t \in Threads, Answer(t, "none", None)
    PROVE  /\ CallsHaveTimers'
           /\ \A u \in Threads \ {t} : call'[u] = call[u]
           /\ call'[t] = NoCall
<1>1. call \in [Threads -> CallType]
  BY DEF TypeOK, CallType
<1>2. /\ \A u \in Threads \ {t} : call'[u] = call[u]
      /\ call'[t] = NoCall
  BY <1>1 DEF Answer, NoCall
<1>. QED
  BY <1>2 DEF CallsHaveTimers, NoCall

LEMMA CleanupOwners ==
    ASSUME TypeOK, NEW ids, Cleanup(ids)
    PROVE  \A id \in Ids : timerMap'[id] \in {timerMap[id], None}
  BY DEF TypeOK, Cleanup, Erased

LEMMA InsertOwners ==
    ASSUME TypeOK, NEW c \in Clients, NEW id \in Ids, Insert(c, id)
    PROVE  timerMap'[id] = c /\ \A d \in Ids \ {id} : timerMap'[d] \in {timerMap[d], None}
  BY DEF TypeOK, Insert, Erased

LEMMA CreateOwned ==
    ASSUME OwnedInv, NEW t \in Threads, CreateTimer(t)
    PROVE  Owned'
<1>. USE TimersAssumption DEF OwnedInv, Owned
<1>1. op = NoOp /\ op' = op /\ known' = known /\ resync' = resync /\ call[t].at = "create"
  BY DEF CreateTimer
<1>2. OpIsHalfDone'
  BY <1>1 DEF OpIsHalfDone, NoOp
<1>3. CASE Answer(t, "none", None) /\ timerMap' = timerMap
  <2>1. /\ CallsHaveTimers' /\ \A u \in Threads \ {t} : call'[u] = call[u]
        /\ call'[t] = NoCall
    BY <1>3, AnswersNothing
  <2>2. \A u \in Threads : call'[u].at = "created" => call'[u] = call[u]
    BY <2>1 DEF NoCall
  <2>3. \A c \in Clients, id \in Ids : timerMap'[id] = c => Owns(c, id)
    BY <1>3 DEF Owns
  <2>4. op'.kind # "insert"
    BY <1>1 DEF NoOp
  <2>5. OwnedOnce' /\ CreatedOnce'
    BY <1>1, <2>2, <2>3, <2>4, OwnersStay
  <2>. QED
    BY <1>2, <2>1, <2>5
<1>4. ASSUME NEW id \in Ids, Free(id), Insert(ClientOf[t], id), Answer(t, "created", id)
      PROVE  CallsHaveTimers' /\ OwnedOnce' /\ CreatedOnce'
  <2>1. /\ CallsHaveTimers'
        /\ \A u \in Threads \ {t} : call'[u] = call[u]
        /\ call'[t] = [at |-> "created", id |-> id] \/ call'[t] = NoCall
    BY <1>4, AnswerIs
  <2>2. /\ ClientOf[t] \in Clients /\ timerMap'[id] = ClientOf[t]
        /\ \A d \in Ids \ {id} : timerMap'[d] \in {timerMap[d], None}
    BY <1>4, InsertOwners
  <2>3. /\ \A d \in Clients : ~Owns(d, id) /\ id \notin known[d]
        /\ \A u \in Threads : call[u].id # id
    BY <1>1, <1>4 DEF Free, Owns, Has, Created, NoOp
  <2>4. \A u \in Threads : call'[u].at = "created" => call'[u] = call[u] \/ (u = t /\ call'[u].id = id)
    BY <2>1 DEF NoCall
  <2>5. CreatedOnce'
    BY <1>1, <2>3, <2>4 DEF CreatedOnce
  <2>6. \A d \in Clients, i \in Ids : Owns(d, i)' => Owns(d, i) \/ (d = ClientOf[t] /\ i = id)
    <3>1. ASSUME NEW d \in Clients, NEW i \in Ids, Owns(d, i)'
          PROVE  Owns(d, i) \/ (d = ClientOf[t] /\ i = id)
      <4>1. CASE timerMap'[i] = d
        BY <2>2, <4>1 DEF Owns
      <4>2. CASE i \in Has(d)'
        BY <1>1, <2>4, <4>2 DEF Owns, Has, Created
      <4>3. CASE i \in resync'[d].items
        BY <1>1, <4>3 DEF Owns
      <4>. QED
        BY <1>1, <3>1, <4>1, <4>2, <4>3 DEF Owns, NoOp
    <3>. QED
      BY <3>1
  <2>7. OwnedOnce'
    BY <2>3, <2>6 DEF OwnedOnce
  <2>. QED
    BY <2>1, <2>5, <2>7
<1>. QED
  BY <1>2, <1>3, <1>4 DEF CreateTimer

LEMMA DestroyOwned ==
    ASSUME OwnedInv, NEW t \in Threads, DestroyTimer(t)
    PROVE  Owned'
<1>. USE TimersAssumption DEF OwnedInv, Owned
<1>1. op = NoOp /\ UNCHANGED <<known, resync, timerMap>> /\ call[t].at = "destroy"
  BY DEF DestroyTimer
<1>2. \A c \in Clients, id \in Ids : timerMap'[id] = c => Owns(c, id)
  BY <1>1 DEF Owns
<1>3. CASE Answer(t, "none", None) /\ op' = op
  <2>1. /\ CallsHaveTimers' /\ \A u \in Threads \ {t} : call'[u] = call[u]
        /\ call'[t] = NoCall
    BY <1>3, AnswersNothing
  <2>2. \A u \in Threads : call'[u].at = "created" => call'[u] = call[u]
    BY <2>1 DEF NoCall
  <2>3. OpIsHalfDone' /\ op'.kind # "insert"
    BY <1>1, <1>3 DEF OpIsHalfDone, NoOp
  <2>4. OwnedOnce' /\ CreatedOnce'
    BY <1>1, <1>2, <2>2, <2>3, OwnersStay
  <2>. QED
    BY <2>1, <2>3, <2>4
<1>4. CASE /\ timers' = timers \ {call[t].id}
           /\ op' = [kind |-> "cleanup", by |-> t, ids |-> {call[t].id}]
           /\ call' = call
  <2>1. OpIsHalfDone' /\ CallsHaveTimers'
    BY <1>1, <1>4 DEF OpIsHalfDone, CallsHaveTimers
  <2>2. op'.kind # "insert"
    BY <1>4
  <2>3. OwnedOnce' /\ CreatedOnce'
    BY <1>1, <1>2, <1>4, <2>2, OwnersStay
  <2>. QED
    BY <2>1, <2>3
<1>. QED
  BY <1>3, <1>4 DEF DestroyTimer

LEMMA CleanupOwned ==
    ASSUME OwnedInv, DestroyCleanup
    PROVE  Owned'
<1>. USE TimersAssumption DEF OwnedInv, Owned
<1>1. /\ op.by \in Threads /\ call[op.by].at = "destroy" /\ call[op.by].id \in Ids
      /\ op' = NoOp /\ UNCHANGED <<known, resync>>
  BY DEF DestroyCleanup, OpIsHalfDone, CallsHaveTimers, TypeOK
<1>2. /\ CallsHaveTimers' /\ \A u \in Threads \ {op.by} : call'[u] = call[u]
      /\ call'[op.by].at # "created"
  <2>1. /\ CallsHaveTimers' /\ \A u \in Threads \ {op.by} : call'[u] = call[u]
        /\ \/ call'[op.by] = [at |-> "destroyed", id |-> call[op.by].id]
           \/ call'[op.by] = NoCall
    BY <1>1, AnswerIs DEF DestroyCleanup
  <2>. QED
    BY <2>1 DEF NoCall
<1>3. \A id \in Ids : timerMap'[id] \in {timerMap[id], None}
  BY CleanupOwners DEF DestroyCleanup
<1>4. \A c \in Clients, id \in Ids : timerMap'[id] = c => Owns(c, id)
  BY <1>3 DEF Owns
<1>5. OpIsHalfDone' /\ op'.kind # "insert"
  BY <1>1 DEF OpIsHalfDone, NoOp
<1>6. OwnedOnce' /\ CreatedOnce'
  BY <1>1, <1>2, <1>4, <1>5, OwnersStay
<1>. QED
  BY <1>2, <1>5, <1>6

LEMMA ResyncOwned ==
    ASSUME OwnedInv, NEW c \in Clients, NEW id \in Ids, ResyncTimer(c, id)
    PROVE  Owned'
<1>. USE TimersAssumption DEF OwnedInv, Owned
<1>1. /\ op = NoOp /\ UNCHANGED <<known, call, timerMap>> /\ id \in resync[c].items
      /\ \A d \in Clients : resync'[d].items \subseteq resync[d].items
  BY DEF ResyncTimer, TypeOK
<1>2. CallsHaveTimers' /\ \A d \in Clients, i \in Ids : timerMap'[i] = d => Owns(d, i)
  BY <1>1 DEF CallsHaveTimers, Owns
<1>3. CASE op' = op
  <2>1. OpIsHalfDone' /\ op'.kind # "insert"
    BY <1>1, <1>3 DEF OpIsHalfDone, NoOp
  <2>2. OwnedOnce' /\ CreatedOnce'
    BY <1>1, <1>2, <2>1, OwnersStay
  <2>. QED
    BY <1>2, <2>1, <2>2
<1>4. CASE TimeServiceCreates(id) /\ op' = [kind |-> "insert", by |-> c, ids |-> {id}]
  <2>1. \A d \in Clients, i \in Ids : op'.kind = "insert" /\ op'.by = d /\ i \in op'.ids => Owns(d, i)
    BY <1>1, <1>4 DEF Owns
  <2>2. SameName(id) \cap timers' = {}
    BY <1>4 DEF TimeServiceCreates, SameName
  <2>3. OpIsHalfDone'
    BY <1>4, <2>2 DEF OpIsHalfDone, SameName
  <2>4. OwnedOnce' /\ CreatedOnce'
    BY <1>1, <1>2, <2>1, OwnersStay
  <2>. QED
    BY <1>2, <2>3, <2>4
<1>. QED
  BY <1>3, <1>4 DEF ResyncTimer

LEMMA InsertOwned ==
    ASSUME OwnedInv, ResyncInsert
    PROVE  Owned'
<1>. USE TimersAssumption DEF OwnedInv, Owned
<1>1. PICK id \in op.ids : Insert(op.by, id)
  BY DEF ResyncInsert
<1>2. /\ op.kind = "insert" /\ op.by \in Clients /\ id \in Ids /\ op' = NoOp
      /\ UNCHANGED <<known, resync, call>>
  BY <1>1 DEF ResyncInsert, OpIsHalfDone, TypeOK, client
<1>3. timerMap'[id] = op.by /\ \A d \in Ids \ {id} : timerMap'[d] \in {timerMap[d], None}
  BY <1>1, <1>2, InsertOwners
<1>4. \A d \in Clients, i \in Ids : timerMap'[i] = d => Owns(d, i)
  BY <1>2, <1>3 DEF Owns
<1>5. OpIsHalfDone' /\ CallsHaveTimers' /\ op'.kind # "insert"
  BY <1>2 DEF OpIsHalfDone, NoOp, CallsHaveTimers
<1>6. OwnedOnce' /\ CreatedOnce'
  BY <1>2, <1>4, <1>5, OwnersStay
<1>. QED
  BY <1>5, <1>6

LEMMA OthersOwned ==
    ASSUME OwnedInv, UNCHANGED <<known, resync, call, op>>, timers' \subseteq timers,
           \A id \in Ids : timerMap'[id] \in {timerMap[id], None}
    PROVE  Owned'
<1>. USE DEF OwnedInv, Owned
<1>1. \A d \in Clients, id \in Ids : timerMap'[id] = d => Owns(d, id)
  BY TimersAssumption DEF Owns
<1>2. \A d \in Clients, id \in Ids : op'.kind = "insert" /\ op'.by = d /\ id \in op'.ids => Owns(d, id)
  BY DEF Owns
<1>3. OwnedOnce' /\ CreatedOnce'
  BY <1>1, <1>2, OwnersStay
<1>. QED
  BY <1>3, OpRests DEF CallsHaveTimers

LEMMA TriggerOwned ==
    ASSUME OwnedInv, NEW id \in Ids, OnTimerTriggered(id) \/ TriggerCleanup(id) \/ TriggerDestroy(id)
    PROVE  Owned'
<1>1. \A d \in Ids : timerMap'[d] \in {timerMap[d], None}
  BY CleanupOwners DEF OwnedInv, OnTimerTriggered, TriggerCleanup, TriggerDestroy
<1>. QED
  BY <1>1, OthersOwned DEF OnTimerTriggered, TriggerCleanup, TriggerDestroy, client

LEMMA DiedOwned ==
    ASSUME OwnedInv, NEW c \in Clients, OnRemoteDied(c) \/ DiedDestroy(c)
    PROVE  Owned'
<1>1. \A d \in Ids : timerMap'[d] \in {timerMap[d], None}
  BY DEF OwnedInv, TypeOK, OnRemoteDied, DiedDestroy, Erased
<1>. QED
  BY <1>1, OthersOwned DEF OnRemoteDied, DiedDestroy, client

LEMMA AdminOwned ==
    ASSUME OwnedInv, NEW a \in Admins, OnAdminRemove(a) \/ EnableAdmin(a)
    PROVE  Owned'
<1>. USE TimersAssumption DEF OwnedInv, Owned
<1>1. CASE OnAdminRemove(a)
  <2>1. UNCHANGED <<known, resync, call>> /\ op'.kind = "remove" /\ op'.by = None
    BY <1>1 DEF OnAdminRemove, client
  <2>2. \A id \in Ids : timerMap'[id] \in {timerMap[id], None}
    BY <1>1, CleanupOwners DEF OnAdminRemove
  <2>3. \A d \in Clients, id \in Ids : timerMap'[id] = d => Owns(d, id)
    BY <2>2 DEF Owns
  <2>4. OpIsHalfDone' /\ CallsHaveTimers'
    BY <2>1 DEF OpIsHalfDone, CallsHaveTimers
  <2>5. OwnedOnce' /\ CreatedOnce'
    BY <2>1, <2>3, OwnersStay
  <2>. QED
    BY <2>4, <2>5
<1>2. CASE EnableAdmin(a)
  BY <1>2, OthersOwned DEF EnableAdmin, client
<1>. QED
  BY <1>1, <1>2

LEMMA EndsOwned ==
    ASSUME OwnedInv, RemoveDestroy \/ Crash
    PROVE  Owned'
<1>. USE TimersAssumption DEF OwnedInv, Owned
<1>1. op' = NoOp /\ known' = known
  BY DEF RemoveDestroy, Crash, client
<1>2. OpIsHalfDone' /\ op'.kind # "insert"
  BY <1>1 DEF OpIsHalfDone, NoOp
<1>3. \A t \in Threads : call'[t] \in {call[t], NoCall}
  BY DEF RemoveDestroy, Crash, client
<1>4. CallsHaveTimers' /\ \A t \in Threads : call'[t].at = "created" => call'[t] = call[t]
  BY <1>3 DEF CallsHaveTimers, NoCall
<1>5. /\ \A c \in Clients : resync'[c].items \subseteq resync[c].items
      /\ \A id \in Ids : timerMap'[id] \in {timerMap[id], None}
  BY DEF RemoveDestroy, Crash, client, Empty
<1>6. \A d \in Clients, id \in Ids : timerMap'[id] = d => Owns(d, id)
  BY <1>5 DEF Owns
<1>7. OwnedOnce' /\ CreatedOnce'
  BY <1>1, <1>2, <1>4, <1>5, <1>6, OwnersStay
<1>. QED
  BY <1>2, <1>4, <1>7

(* What a client does moves a timer between a request, its map and what it    *)
(* still has to send.                                                         *)
LEMMA ClientOwned ==
    ASSUME OwnedInv, NEW c \in Clients, StartClient(c) \/ OnEdmSaRestart(c) \/ Die(c)
    PROVE  Owned'
<1>. USE TimersAssumption DEF OwnedInv, Owned
<1>1. op' = op /\ timers' = timers /\ timerMap' = timerMap
  BY DEF StartClient, OnEdmSaRestart, Die, service
<1>2. \A t \in Threads : /\ call'[t] \in {call[t], NoCall}
                         /\ call[t].at = "destroy" => call'[t] = call[t]
  BY DEF StartClient, OnEdmSaRestart, Die
<1>3. CallsHaveTimers' /\ \A t \in Threads : call'[t].at = "created" => call'[t] = call[t]
  BY <1>2 DEF CallsHaveTimers, NoCall
<1>4. OpIsHalfDone'
  <2>1. op.kind = "cleanup" => call'[op.by] = call[op.by]
    BY <1>2 DEF OpIsHalfDone
  <2>. QED
    BY <1>1, <2>1, OpRests
<1>5. /\ \A d \in Clients : known'[d] \subseteq known[d]
      /\ \A d \in Clients : resync'[d].items \subseteq resync[d].items \cup known[d]
  <2>1. known \in [Clients -> SUBSET Ids] /\ resync \in [Clients -> ResyncType]
    BY DEF TypeOK, ResyncType
  <2>2. CASE StartClient(c)
    BY <2>2 DEF StartClient
  <2>3. CASE OnEdmSaRestart(c)
    BY <2>1, <2>3 DEF OnEdmSaRestart
  <2>4. CASE Die(c)
    BY <2>1, <2>4 DEF Die
  <2>. QED
    BY <2>2, <2>3, <2>4
<1>6. \A d \in Clients, id \in Ids : timerMap'[id] = d => Owns(d, id)
  BY <1>1 DEF Owns
<1>7. \A d \in Clients, id \in Ids : op'.kind = "insert" /\ op'.by = d /\ id \in op'.ids => Owns(d, id)
  BY <1>1 DEF Owns
<1>8. OwnedOnce' /\ CreatedOnce'
  BY <1>3, <1>5, <1>6, <1>7, OwnersStay
<1>. QED
  BY <1>3, <1>4, <1>8

LEMMA CallbackOwned ==
    ASSUME OwnedInv, NEW t \in Threads, Request(t) \/ InsertCallback(t) \/ RemoveCallback(t)
    PROVE  Owned'
<1>. USE TimersAssumption DEF OwnedInv, Owned
<1>1. UNCHANGED <<op, timers, timerMap, resync>>
  BY DEF Request, InsertCallback, RemoveCallback, service
<1>2. /\ call \in [Threads -> CallType] /\ known \in [Clients -> SUBSET Ids] /\ ClientOf[t] \in Clients
      /\ \A u \in Threads \ {t} : call'[u] = call[u]
  BY DEF Request, InsertCallback, RemoveCallback, TypeOK, CallType
<1>3. /\ call[t].at # "destroy" /\ call'[t].at # "created"
      /\ call'[t].at \in {"none", "create"} <=> call'[t].id = None
  <2>1. CASE Request(t)
    <3>1. call[t] = NoCall /\ NoCall.at = "none" /\ NoCall.id = None
      BY <2>1 DEF Request, NoCall
    <3>2. CASE call' = [call EXCEPT ![t].at = "create"]
      <4>1. call'[t].at = "create" /\ call'[t].id = None
        BY <1>2, <3>1, <3>2 DEF CallType
      <4>. QED
        BY <3>1, <4>1
    <3>3. ASSUME NEW id \in Ids, call' = [call EXCEPT ![t] = [at |-> "destroy", id |-> id]]
          PROVE  call'[t].at = "destroy" /\ call'[t].id # None
      BY <1>2, <3>3
    <3>. QED
      BY <2>1, <3>1, <3>2, <3>3 DEF Request
  <2>2. CASE InsertCallback(t) \/ RemoveCallback(t)
    BY <1>2, <2>2 DEF InsertCallback, RemoveCallback, NoCall
  <2>. QED
    BY <2>1, <2>2
<1>4. CallsHaveTimers'
  BY <1>2, <1>3 DEF CallsHaveTimers
<1>5. OpIsHalfDone'
  <2>1. op.kind = "cleanup" => call'[op.by] = call[op.by]
    BY <1>2, <1>3 DEF OpIsHalfDone
  <2>. QED
    BY <1>1, <2>1, OpRests
<1>6. \A u \in Threads : call'[u].at = "created" => call'[u] = call[u]
  BY <1>2, <1>3
<1>7. /\ \A d \in Clients, id \in Ids : timerMap'[id] = d => Owns(d, id)
      /\ \A d \in Clients, id \in Ids : op'.kind = "insert" /\ op'.by = d /\ id \in op'.ids => Owns(d, id)
  BY <1>1 DEF Owns
<1>8. CASE Request(t) \/ RemoveCallback(t)
  <2>1. \A d \in Clients : known'[d] \subseteq known[d]
    BY <1>2, <1>8 DEF Request, RemoveCallback
  <2>2. OwnedOnce' /\ CreatedOnce'
    BY <1>1, <1>6, <1>7, <2>1, OwnersStay
  <2>. QED
    BY <1>4, <1>5, <2>2
<1>9. CASE InsertCallback(t)
  <2>1. PICK c, i : c = ClientOf[t] /\ i = call[t].id
    OBVIOUS
  <2>2. /\ c \in Clients /\ call[t].at = "created" /\ i \in Has(c)
        /\ \A d \in Clients : known'[d] \subseteq known[d] \cup {x \in {i} : d = c}
    BY <1>2, <1>9, <2>1 DEF InsertCallback, Has, Created
  <2>3. CreatedOnce'
    <3>1. ASSUME NEW u \in Threads, call'[u].at = "created"
          PROVE  /\ \A d \in Clients : call'[u].id \notin known'[d]
                 /\ \A v \in Threads : call'[v].at = "created" /\ call'[v].id = call'[u].id => v = u
      <4>1. u # t /\ call'[u] = call[u] /\ call[u].at = "created"
        BY <1>2, <1>3, <3>1
      <4>2. call[u].id # i
        BY <2>1, <2>2, <4>1 DEF CreatedOnce
      <4>. QED
        BY <1>6, <2>2, <4>1, <4>2 DEF CreatedOnce
    <3>. QED
      BY <3>1 DEF CreatedOnce
  <2>4. \A d \in Clients : Has(d)' \subseteq Has(d)
    BY <1>6, <2>2 DEF Has, Created
  <2>5. \A d \in Clients, id \in Ids : Owns(d, id)' => Owns(d, id)
    BY <1>1, <2>4 DEF Owns
  <2>6. OwnedOnce'
    BY <2>5 DEF OwnedOnce
  <2>. QED
    BY <1>4, <1>5, <2>3, <2>6
<1>. QED
  BY <1>8, <1>9

LEMMA OwnedStep == ASSUME OwnedInv, [Next]_vars PROVE OwnedInv'
<1>1. TypeOK'
  BY TypeStep DEF OwnedInv, Owned
<1>2. CASE Next
  BY <1>1, <1>2, CreateOwned, DestroyOwned, CleanupOwned, ResyncOwned, InsertOwned, TriggerOwned,
     DiedOwned, AdminOwned, EndsOwned, ClientOwned, CallbackOwned DEF Next, OwnedInv
<1>3. CASE UNCHANGED vars
  BY <1>1, <1>3 DEF vars, client, service, OwnedInv, Owned, CallsHaveTimers, OpIsHalfDone, CreatedOnce,
     OwnedOnce, Owns, Has, Created
<1>. QED
  BY <1>2, <1>3

(* A timer belongs to one client at most, wherever it is on its way between   *)
(* the maps of clients and service, although any client of the administrator  *)
(* can destroy it, is given to one thread, and what holds adminLock_ has left *)
(* the time service as the rest of it expects.                                *)
THEOREM OwnedInvariant == Spec => []OwnedInv
  BY InitOwned, OwnedStep, PTL DEF Spec

(* Every variable keeps its type; of the map of the service, that entries are *)
(* of clients and not of administrators.                                      *)
THEOREM TimersTyped == Spec => []TypeOK
<1>1. OwnedInv => TypeOK
  BY DEF OwnedInv
<1>. QED
  BY <1>1, OwnedInvariant, PTL

-----------------------------------------------------------------------------
(* No stray timers *)

LEMMA EntryErased ==
    ASSUME TypeOK, NEW ids, Cleanup(ids)
    PROVE  timerMap' = [d \in Ids |-> IF d \in ids THEN None ELSE timerMap[d]]
  BY DEF Cleanup, Erased

LEMMA EntryInserted ==
    ASSUME TypeOK, NEW c, NEW id \in Ids, Insert(c, id)
    PROVE  /\ timerMap'[id] = c
           /\ \A d \in Ids \ {id} : timerMap'[d] = timerMap[d] \/ (d \in Replaced(id) /\ timerMap'[d] = None)
           /\ Replaced(id) \subseteq SameName(id) /\ SameName(id) \subseteq Ids \ {id}
<1>1. Replaced(id) \subseteq SameName(id) /\ SameName(id) \subseteq Ids \ {id}
  BY DEF Replaced, SameName
<1>2. PICK old : old = Replaced(id)
  OBVIOUS
<1>3. timerMap' = [Erased(old) EXCEPT ![id] = c]
  BY <1>2 DEF Insert
<1>4. timerMap'[id] = c /\ \A d \in Ids \ {id} : timerMap'[d] = IF d \in old THEN None ELSE timerMap[d]
  BY <1>3 DEF Erased
<1>. QED
  BY <1>1, <1>2, <1>4

LEMMA StrayStep ==
    ASSUME OwnedInv, NoStrayTimers, [Next]_vars
    PROVE  NoStrayTimers'
<1>. USE TimersAssumption DEF OwnedInv, Owned
<1>1. ASSUME UNCHANGED <<timerMap, dying, trigger, op>>, timers' \subseteq timers PROVE NoStrayTimers'
  BY <1>1 DEF NoStrayTimers, Underway
<1>2. ASSUME NEW t \in Threads, CreateTimer(t) PROVE NoStrayTimers'
  <2>1. UNCHANGED <<dying, trigger, op>>
    BY <1>2 DEF CreateTimer
  <2>2. CASE UNCHANGED <<timerMap, timers>>
    BY <1>1, <2>1, <2>2
  <2>3. ASSUME NEW id \in Ids, TimeServiceCreates(id), Insert(ClientOf[t], id) PROVE NoStrayTimers'
    <3>0. ClientOf[t] \in Clients
      OBVIOUS
    <3>1. timers' = (timers \ SameName(id)) \cup {id}
      BY <2>3 DEF TimeServiceCreates
    <3>. QED
      BY <2>1, <2>3, <3>0, <3>1, EntryInserted DEF NoStrayTimers, Underway
  <2>. QED
    BY <1>2, <2>2, <2>3 DEF CreateTimer
<1>3. ASSUME NEW t \in Threads, DestroyTimer(t) PROVE NoStrayTimers'
  <2>1. UNCHANGED <<timerMap, dying, trigger>> /\ op = NoOp
    BY <1>3 DEF DestroyTimer
  <2>2. CASE timers' = timers \ {call[t].id} /\ op' = [kind |-> "cleanup", by |-> t, ids |-> {call[t].id}]
    BY <2>1, <2>2 DEF NoStrayTimers, Underway, NoOp
  <2>3. CASE UNCHANGED <<timers, op>>
    BY <1>1, <2>1, <2>3
  <2>. QED
    BY <1>3, <2>2, <2>3 DEF DestroyTimer
<1>4. ASSUME DestroyCleanup PROVE NoStrayTimers'
  <2>1. /\ UNCHANGED <<dying, trigger, timers>> /\ op.ids \cap timers = {}
        /\ timerMap' = [d \in Ids |-> IF d \in op.ids THEN None ELSE timerMap[d]]
    BY <1>4, EntryErased DEF DestroyCleanup, OpIsHalfDone
  <2>. QED
    BY <2>1 DEF NoStrayTimers, Underway
<1>5. ASSUME NEW c \in Clients, NEW id \in Ids, ResyncTimer(c, id) PROVE NoStrayTimers'
  <2>1. UNCHANGED <<timerMap, dying, trigger>> /\ op = NoOp
    BY <1>5 DEF ResyncTimer
  <2>2. CASE TimeServiceCreates(id) /\ op' = [kind |-> "insert", by |-> c, ids |-> {id}]
    BY <2>1, <2>2 DEF NoStrayTimers, Underway, NoOp, TimeServiceCreates
  <2>3. CASE UNCHANGED op /\ timers' \subseteq timers
    BY <1>1, <2>1, <2>3
  <2>. QED
    BY <1>5, <2>2, <2>3 DEF ResyncTimer
<1>6. ASSUME ResyncInsert PROVE NoStrayTimers'
  <2>1. PICK id \in op.ids : Insert(op.by, id)
    BY <1>6 DEF ResyncInsert
  <2>2. /\ op.ids = {id} /\ id \in Ids /\ SameName(id) \cap timers = {} /\ op.by # None
        /\ UNCHANGED <<dying, trigger, timers>>
    BY <1>6 DEF ResyncInsert, OpIsHalfDone
  <2>. QED
    BY <2>1, <2>2, EntryInserted DEF NoStrayTimers, Underway
<1>7. ASSUME NEW id \in Ids, OnTimerTriggered(id) \/ TriggerCleanup(id) \/ TriggerDestroy(id)
      PROVE  NoStrayTimers'
  <2>1. CASE OnTimerTriggered(id)
    <3>1. \A d \in Ids : trigger[d] = "destroy" => trigger'[d] = "destroy"
      BY <2>1 DEF OnTimerTriggered, TypeOK
    <3>. QED
      BY <2>1, <3>1 DEF NoStrayTimers, Underway, OnTimerTriggered
  <2>2. CASE TriggerCleanup(id)
    <3>1. /\ trigger'[id] = "destroy" /\ \A d \in Ids \ {id} : trigger'[d] = trigger[d]
          /\ timerMap' = [d \in Ids |-> IF d \in {id} THEN None ELSE timerMap[d]]
          /\ UNCHANGED <<dying, op, timers>>
      BY <2>2, EntryErased DEF TriggerCleanup, TypeOK
    <3>. QED
      BY <3>1 DEF NoStrayTimers, Underway
  <2>3. CASE TriggerDestroy(id)
    <3>1. \A d \in Ids \ {id} : trigger'[d] = trigger[d]
      BY <2>3 DEF TriggerDestroy, TypeOK
    <3>. QED
      BY <2>3, <3>1 DEF NoStrayTimers, Underway, TriggerDestroy
  <2>. QED
    BY <1>7, <2>1, <2>2, <2>3
<1>8. ASSUME NEW c \in Clients, OnRemoteDied(c) \/ DiedDestroy(c) PROVE NoStrayTimers'
  <2>1. CASE OnRemoteDied(c)
    <3>. DEFINE ids == {id \in Ids : timerMap[id] = c}
    <3>1. /\ UNCHANGED <<trigger, op, timers>> /\ dying'[c] = ids
          /\ \A d \in Clients \ {c} : dying'[d] = dying[d]
          /\ \A id \in Ids : timerMap'[id] = IF id \in ids THEN None ELSE timerMap[id]
          /\ dying[c] = {}
      BY <2>1 DEF OnRemoteDied, TypeOK, Erased
    <3>. HIDE DEF ids
    <3>. QED
      BY <3>1 DEF NoStrayTimers, Underway
  <2>2. CASE DiedDestroy(c)
    <3>1. \A d \in Clients \ {c} : dying'[d] = dying[d]
      BY <2>2 DEF DiedDestroy, TypeOK
    <3>. QED
      BY <2>2, <3>1 DEF NoStrayTimers, Underway, DiedDestroy
  <2>. QED
    BY <1>8, <2>1, <2>2
<1>9. ASSUME NEW a \in Admins, OnAdminRemove(a) \/ EnableAdmin(a) PROVE NoStrayTimers'
  <2>1. CASE OnAdminRemove(a)
    <3>1. /\ UNCHANGED <<trigger, dying, timers>> /\ op = NoOp /\ op'.ids = EntriesOf(a)
          /\ timerMap' = [d \in Ids |-> IF d \in EntriesOf(a) THEN None ELSE timerMap[d]]
      BY <2>1, EntryErased DEF OnAdminRemove
    <3>. QED
      BY <3>1 DEF NoStrayTimers, Underway, NoOp
  <2>2. CASE EnableAdmin(a)
    BY <1>1, <2>2 DEF EnableAdmin
  <2>. QED
    BY <1>9, <2>1, <2>2
<1>10. ASSUME RemoveDestroy PROVE NoStrayTimers'
  BY <1>10 DEF RemoveDestroy, NoStrayTimers, Underway
<1>11. ASSUME Crash PROVE NoStrayTimers'
  BY <1>11 DEF Crash, NoStrayTimers
<1>12. ASSUME NEW c \in Clients, StartClient(c) \/ OnEdmSaRestart(c) \/ Die(c)
       PROVE  NoStrayTimers'
  BY <1>1, <1>12 DEF StartClient, OnEdmSaRestart, Die, service
<1>13. ASSUME NEW t \in Threads, Request(t) \/ InsertCallback(t) \/ RemoveCallback(t)
       PROVE  NoStrayTimers'
  BY <1>1, <1>13 DEF Request, InsertCallback, RemoveCallback, service
<1>14. CASE UNCHANGED vars
  BY <1>1, <1>14 DEF vars, service
<1>. QED
  BY <1>2, <1>3, <1>4, <1>5, <1>6, <1>7, <1>8, <1>9, <1>10, <1>11, <1>12, <1>13, <1>14 DEF Next

(* Whatever goes off can be stopped: an entry is made before or with the      *)
(* timer, or somebody who has taken it away is about to destroy the timer.    *)
(* That cleanups of DestroyTimer, OnRemoteDied, OnAdminRemove and a trigger   *)
(* are in two steps, in different orders, leaves no timer behind.             *)
THEOREM TimersHaveEntries == Spec => []NoStrayTimers
<1>1. Init => NoStrayTimers
  BY DEF Init, NoStrayTimers
<1>. QED
  BY <1>1, StrayStep, OwnedInvariant, PTL DEF Spec

-----------------------------------------------------------------------------
(* Dead clients are noticed *)

EntriesAreKnown == \A id \in Ids : timerMap[id] # None => timerMap[id] \in alive \cup notices \cup late
RecipientsHaveEntries == recipients = {timerMap[id] : id \in Ids} \ {None}

(* Who is released has no entry left, and everybody who has none left is.     *)
LEMMA ReleasedHaveNone ==
    ASSUME TypeOK, NEW ids \in SUBSET Ids
    PROVE  /\ \A d \in Ids : Erased(ids)[d] \notin Released(ids)
           /\ RecipientsHaveEntries => recipients \ Released(ids) = {Erased(ids)[d] : d \in Ids} \ {None}
<1>1. \A d \in Ids : Erased(ids)[d] \notin Released(ids)
  BY DEF Released
<1>2. ASSUME RecipientsHaveEntries
      PROVE  recipients \ Released(ids) = {Erased(ids)[d] : d \in Ids} \ {None}
  <2>1. \A d \in Ids : Erased(ids)[d] = IF d \in ids THEN None ELSE timerMap[d]
    BY DEF Erased
  <2>2. ASSUME NEW c \in recipients \ Released(ids)
        PROVE  c \in {Erased(ids)[d] : d \in Ids} \ {None}
    <3>1. PICK d \in Ids : timerMap[d] = c /\ c # None
      BY <1>2 DEF RecipientsHaveEntries
    <3>2. CASE d \in ids
      BY <2>2, <3>1, <3>2 DEF Released
    <3>3. CASE d \notin ids
      BY <2>1, <3>1, <3>3
    <3>. QED
      BY <3>2, <3>3
  <2>3. ASSUME NEW d \in Ids, Erased(ids)[d] # None
        PROVE  Erased(ids)[d] \in recipients \ Released(ids)
    <3>1. Erased(ids)[d] = timerMap[d]
      BY <2>1, <2>3
    <3>. QED
      BY <1>1, <1>2, <2>3, <3>1 DEF RecipientsHaveEntries
  <2>. QED
    BY <2>2, <2>3
<1>. QED
  BY <1>1, <1>2

LEMMA CleanupNoticed ==
    ASSUME TypeOK, DeadAreNoticed, NEW ids \in SUBSET Ids, Cleanup(ids), UNCHANGED <<alive, late>>
    PROVE  DeadAreNoticed'
<1>1. timerMap' = Erased(ids) /\ notices \ Released(ids) \subseteq notices'
  BY DEF Cleanup
<1>2. \A d \in Ids : Erased(ids)[d] # None => Erased(ids)[d] = timerMap[d]
  BY DEF Erased
<1>3. EntriesAreKnown'
  BY <1>1, <1>2, ReleasedHaveNone DEF EntriesAreKnown, DeadAreNoticed
<1>4. RecipientsHaveEntries'
  <2>1. recipients' = {Erased(ids)[d] : d \in Ids} \ {None}
    BY ReleasedHaveNone DEF Cleanup, DeadAreNoticed, RecipientsHaveEntries
  <2>. QED
    BY <1>1, <2>1 DEF RecipientsHaveEntries
<1>. QED
  BY <1>3, <1>4 DEF DeadAreNoticed, EntriesAreKnown, RecipientsHaveEntries

LEMMA InsertNoticed ==
    ASSUME TypeOK, DeadAreNoticed, NEW c \in Clients, NEW id \in Ids, timerMap[id] \in {c, None},
           Insert(c, id), UNCHANGED alive
    PROVE  DeadAreNoticed'
<1>. USE TimersAssumption
<1>1. PICK old \in SUBSET Ids : old = Replaced(id)
  BY DEF Replaced, SameName
<1>2. PICK map : map = Erased(old)
  OBVIOUS
<1>3. /\ timerMap' = [map EXCEPT ![id] = c]
      /\ recipients' = (recipients \ Released(old)) \cup {c}
      /\ notices \ Released(old) \subseteq notices'
      /\ late \subseteq late' /\ c \in alive \cup notices' \cup late'
  BY <1>1, <1>2 DEF Insert
<1>4. map \in [Ids -> Clients \cup {None}] /\ \A d \in Ids : map[d] \in {timerMap[d], None}
  BY <1>2 DEF Erased, TypeOK
<1>5. timerMap'[id] = c /\ \A d \in Ids \ {id} : timerMap'[d] = map[d]
  BY <1>3, <1>4
<1>6. \A d \in Ids : map[d] \notin Released(old)
  BY <1>2, ReleasedHaveNone
<1>7. EntriesAreKnown'
  BY <1>3, <1>4, <1>5, <1>6 DEF EntriesAreKnown, DeadAreNoticed
<1>8. RecipientsHaveEntries'
  <2>1. recipients' = ({map[d] : d \in Ids} \ {None}) \cup {c}
    BY <1>2, <1>3, ReleasedHaveNone DEF DeadAreNoticed, RecipientsHaveEntries
  <2>2. {timerMap'[d] : d \in Ids} \ {None} = ({map[d] : d \in Ids} \ {None}) \cup {c}
    <3>1. map[id] \in {c, None} /\ c # None
      BY <1>4
    <3>. QED
      BY <1>5, <3>1
  <2>. QED
    BY <2>1, <2>2 DEF RecipientsHaveEntries
<1>. QED
  BY <1>7, <1>8 DEF DeadAreNoticed, EntriesAreKnown, RecipientsHaveEntries

LEMMA NoticedStep ==
    ASSUME OwnedInv, DeadAreNoticed, [Next]_vars
    PROVE  DeadAreNoticed'
<1>. USE TimersAssumption DEF OwnedInv, Owned
<1>1. ASSUME UNCHANGED <<timerMap, recipients>>,
             alive \cup notices \cup late \subseteq alive' \cup notices' \cup late'
      PROVE  DeadAreNoticed'
  <2>1. EntriesAreKnown'
    BY <1>1 DEF DeadAreNoticed, EntriesAreKnown
  <2>2. RecipientsHaveEntries'
    BY <1>1 DEF DeadAreNoticed, RecipientsHaveEntries
  <2>. QED
    BY <2>1, <2>2 DEF DeadAreNoticed, EntriesAreKnown, RecipientsHaveEntries
<1>2. ASSUME NEW t \in Threads, CreateTimer(t) PROVE DeadAreNoticed'
  <2>1. CASE UNCHANGED <<timerMap, recipients, notices, history>>
    BY <1>1, <1>2, <2>1 DEF CreateTimer, history
  <2>2. ASSUME NEW id \in Ids, Free(id), Insert(ClientOf[t], id) PROVE DeadAreNoticed'
    <3>1. ClientOf[t] \in Clients /\ timerMap[id] = None /\ UNCHANGED alive
      BY <1>2, <2>2 DEF CreateTimer, Free
    <3>. QED
      BY <2>2, <3>1, InsertNoticed
  <2>. QED
    BY <1>2, <2>1, <2>2 DEF CreateTimer
<1>3. ASSUME NEW c \in Clients,
             DiedDestroy(c) \/ StartClient(c) \/ OnEdmSaRestart(c) \/ \E id \in Ids : ResyncTimer(c, id)
      PROVE  DeadAreNoticed'
  <2>1. /\ UNCHANGED <<timerMap, recipients>>
        /\ alive \cup notices \cup late \subseteq alive' \cup notices' \cup late'
    BY <1>3 DEF DiedDestroy, StartClient, OnEdmSaRestart, ResyncTimer, client, service, history
  <2>. QED
    BY <1>1, <2>1
<1>4. ASSUME DestroyCleanup PROVE DeadAreNoticed'
  <2>1. op.ids \in SUBSET Ids
    BY DEF TypeOK
  <2>. QED
    BY <1>4, <2>1, CleanupNoticed DEF DestroyCleanup, history
<1>5. ASSUME ResyncInsert PROVE DeadAreNoticed'
  <2>1. PICK id \in op.ids : Insert(op.by, id)
    BY <1>5 DEF ResyncInsert
  <2>2. id \in Ids /\ op.by \in Clients /\ op.kind = "insert"
    BY <1>5 DEF ResyncInsert, OpIsHalfDone, TypeOK
  <2>3. timerMap[id] \in {op.by, None}
    <3>1. Owns(op.by, id) /\ timerMap[id] \in Clients \cup {None}
      BY <2>1, <2>2 DEF Owns, TypeOK
    <3>2. timerMap[id] \in Clients => Owns(timerMap[id], id)
      BY DEF Owns
    <3>. QED
      BY <2>2, <3>1, <3>2 DEF OwnedOnce
  <2>. QED
    BY <1>5, <2>1, <2>2, <2>3, InsertNoticed DEF ResyncInsert, client
<1>6. ASSUME NEW id \in Ids, OnTimerTriggered(id) \/ TriggerCleanup(id) \/ TriggerDestroy(id)
      PROVE  DeadAreNoticed'
  <2>1. CASE OnTimerTriggered(id) \/ TriggerDestroy(id)
    BY <1>1, <2>1 DEF OnTimerTriggered, TriggerDestroy, client, history
  <2>2. CASE TriggerCleanup(id)
    BY <2>2, CleanupNoticed DEF TriggerCleanup, client, history
  <2>. QED
    BY <1>6, <2>1, <2>2
<1>7. ASSUME NEW c \in Clients, OnRemoteDied(c) PROVE DeadAreNoticed'
  <2>. DEFINE ids == {id \in Ids : timerMap[id] = c}
  <2>1. /\ \A id \in Ids : timerMap'[id] = IF id \in ids THEN None ELSE timerMap[id]
        /\ recipients' = recipients \ {c} /\ notices' = notices \ {c}
        /\ UNCHANGED <<alive, late>>
    BY <1>7 DEF OnRemoteDied, Erased, client, history
  <2>2. EntriesAreKnown'
    BY <2>1 DEF EntriesAreKnown, DeadAreNoticed
  <2>3. RecipientsHaveEntries'
    BY <2>1 DEF RecipientsHaveEntries, DeadAreNoticed
  <2>. QED
    BY <2>2, <2>3 DEF DeadAreNoticed, EntriesAreKnown, RecipientsHaveEntries
<1>8. ASSUME NEW a \in Admins, OnAdminRemove(a) \/ EnableAdmin(a) PROVE DeadAreNoticed'
  <2>1. CASE OnAdminRemove(a)
    <3>1. EntriesOf(a) \in SUBSET Ids
      BY DEF EntriesOf
    <3>. QED
      BY <2>1, <3>1, CleanupNoticed DEF OnAdminRemove, client
  <2>2. CASE EnableAdmin(a)
    BY <1>1, <2>2 DEF EnableAdmin, client, history
  <2>. QED
    BY <1>8, <2>1, <2>2
<1>9. CASE RemoveDestroy
  BY <1>1, <1>9 DEF RemoveDestroy, client, history
<1>10. CASE Crash
  BY <1>10 DEF Crash, DeadAreNoticed, Empty
<1>11. ASSUME NEW c \in Clients, Die(c) PROVE DeadAreNoticed'
  <2>1. /\ UNCHANGED <<timerMap, recipients, late>> /\ alive' = alive \ {c}
        /\ notices' = notices \cup (recipients \cap {c})
    BY <1>11 DEF Die
  <2>2. EntriesAreKnown'
    <3>1. ASSUME NEW id \in Ids, timerMap[id] # None PROVE timerMap[id] \in alive' \cup notices' \cup late'
      <4>1. timerMap[id] \in recipients /\ timerMap[id] \in alive \cup notices \cup late
        BY <3>1 DEF DeadAreNoticed
      <4>. QED
        BY <2>1, <4>1
    <3>. QED
      BY <2>1, <3>1 DEF EntriesAreKnown
  <2>3. RecipientsHaveEntries'
    BY <2>1 DEF RecipientsHaveEntries, DeadAreNoticed
  <2>. QED
    BY <2>2, <2>3 DEF DeadAreNoticed, EntriesAreKnown, RecipientsHaveEntries
<1>12. ASSUME NEW t \in Threads,
              DestroyTimer(t) \/ Request(t) \/ InsertCallback(t) \/ RemoveCallback(t)
       PROVE  DeadAreNoticed'
  <2>1. UNCHANGED <<timerMap, recipients, alive, notices, late>>
    BY <1>12 DEF DestroyTimer, Request, InsertCallback, RemoveCallback, service, history
  <2>. QED
    BY <1>1, <2>1
<1>13. CASE UNCHANGED vars
  BY <1>1, <1>13 DEF vars, client, service, history
<1>. QED
  BY <1>2, <1>3, <1>4, <1>5, <1>6, <1>7, <1>8, <1>9, <1>10, <1>11, <1>12, <1>13 DEF Next

(* A death notice is asked for exactly while the client has an entry, so that *)
(* the entries of a client that dies are found by OnRemoteDied, but for one   *)
(* that is made after the notice was given.                                   *)
THEOREM DeadClientsAreNoticed == Spec => []DeadAreNoticed
<1>1. Init => DeadAreNoticed
  BY DEF Init, DeadAreNoticed, Empty
<1>. QED
  BY <1>1, NoticedStep, OwnedInvariant, PTL DEF Spec

-----------------------------------------------------------------------------
(* Who is dead holds nothing, and a name has one entry *)

(* CleanupSameNameTimerLocked may stop at the first entry it finds.           *)
OneOfAName == \A id \in Ids : timerMap[id] # None => \A d \in SameName(id) : timerMap[d] = None

DeadHoldNothing ==
    \A c \in Clients \ alive :
        /\ known[c] = {} /\ ~resync[c].due /\ resync[c].items = {}
        /\ \A t \in Threads : ClientOf[t] = c => call[t].at \notin {"created", "destroyed"}

NoticesAreDead == notices \cap alive = {}

LEMMA InitSound == Init => OneOfAName /\ DeadHoldNothing /\ NoticesAreDead
  BY DEF Init, OneOfAName, Empty, SameName, DeadHoldNothing, NoticesAreDead, NoCall

LEMMA ReplacedIsAll ==
    ASSUME OneOfAName, NEW id \in Ids, NEW d \in SameName(id), timerMap[d] # None
    PROVE  Replaced(id) = {d}
<1>. DEFINE found == {e \in SameName(id) : timerMap[e] # None}
<1>1. \A e \in found : e = d
  BY DEF OneOfAName, SameName
<1>2. d \in found
  OBVIOUS
<1>3. found = {d}
  BY <1>1, <1>2
<1>4. Replaced(id) = IF found = {} THEN {} ELSE {CHOOSE e \in found : TRUE}
  BY DEF Replaced
<1>. HIDE DEF found
<1>. QED
  BY <1>3, <1>4

LEMMA NamesShrink ==
    ASSUME OneOfAName, \A d \in Ids : timerMap'[d] \in {timerMap[d], None}
    PROVE  OneOfAName'
  BY DEF OneOfAName, SameName

LEMMA NameInserted ==
    ASSUME TypeOK, OneOfAName, NEW c \in Clients, NEW id \in Ids, Insert(c, id)
    PROVE  OneOfAName'
<1>1. /\ timerMap'[id] = c
      /\ \A d \in Ids \ {id} : timerMap'[d] = timerMap[d] \/ (d \in Replaced(id) /\ timerMap'[d] = None)
      /\ Replaced(id) \subseteq SameName(id) /\ SameName(id) \subseteq Ids \ {id}
  BY EntryInserted
<1>2. \A d \in SameName(id) : timerMap'[d] = None
  <2>1. ASSUME NEW d \in SameName(id) PROVE timerMap'[d] = None
    <3>1. PICK e : e = timerMap'[d]
      OBVIOUS
    <3>2. CASE timerMap[d] = None
      BY <1>1, <3>2
    <3>3. CASE timerMap[d] # None
      <4>1. d \in Replaced(id)
        BY <3>3, ReplacedIsAll
      <4>. QED
        BY <4>1 DEF Insert, Erased, SameName, TypeOK
    <3>. QED
      BY <3>2, <3>3
  <2>. QED
    BY <2>1
<1>3. ASSUME NEW d \in Ids, timerMap'[d] # None, NEW e \in SameName(d) PROVE timerMap'[e] = None
  <2>1. CASE d = id
    BY <1>2, <1>3, <2>1
  <2>2. CASE d # id
    <3>1. timerMap[d] # None /\ d \notin SameName(id)
      BY <1>1, <1>2, <1>3, <2>2
    <3>2. timerMap[e] = None /\ e \in Ids \ {id}
      BY <1>3, <2>2, <3>1 DEF OneOfAName, SameName
    <3>. QED
      BY <1>1, <3>2
  <2>. QED
    BY <2>1, <2>2
<1>. QED
  BY <1>3 DEF OneOfAName, SameName

LEMMA NamesStep ==
    ASSUME OwnedInv, OneOfAName, [Next]_vars
    PROVE  OneOfAName'
<1>. USE DEF OwnedInv, Owned
<1>1. CASE UNCHANGED timerMap
  BY <1>1, NamesShrink
<1>2. ASSUME NEW ids, Cleanup(ids) PROVE OneOfAName'
  BY <1>2, NamesShrink, CleanupOwners
<1>3. ASSUME NEW t \in Threads, CreateTimer(t) PROVE OneOfAName'
  <2>1. ClientOf[t] \in Clients
    BY TimersAssumption
  <2>. QED
    BY <1>1, <1>3, <2>1, NameInserted DEF CreateTimer
<1>4. ASSUME ResyncInsert PROVE OneOfAName'
  BY <1>4, NameInserted DEF ResyncInsert, OpIsHalfDone, TypeOK
<1>5. ASSUME NEW c \in Clients, OnRemoteDied(c) PROVE OneOfAName'
  <2>1. \A d \in Ids : timerMap'[d] \in {timerMap[d], None}
    BY <1>5 DEF TypeOK, OnRemoteDied, Erased
  <2>. QED
    BY <2>1, NamesShrink
<1>6. CASE Crash
  <2>1. \A d \in Ids : timerMap'[d] = None
    BY <1>6 DEF Crash, Empty
  <2>. QED
    BY <2>1, NamesShrink
<1>7. \/ UNCHANGED timerMap
      \/ \E ids : Cleanup(ids)
      \/ (\E t \in Threads : CreateTimer(t)) \/ (\E c \in Clients : OnRemoteDied(c))
      \/ ResyncInsert \/ Crash
  <2>1. ASSUME NEW c \in Clients, NEW id \in Ids, ResyncTimer(c, id) PROVE UNCHANGED timerMap
    BY <2>1 DEF ResyncTimer
  <2>2. ASSUME NEW c \in Clients,
               DiedDestroy(c) \/ StartClient(c) \/ OnEdmSaRestart(c) \/ Die(c)
        PROVE  UNCHANGED timerMap
    BY <2>2 DEF DiedDestroy, StartClient, OnEdmSaRestart, Die, service
  <2>3. ASSUME NEW id \in Ids, OnTimerTriggered(id) \/ TriggerDestroy(id) PROVE UNCHANGED timerMap
    BY <2>3 DEF OnTimerTriggered, TriggerDestroy
  <2>4. ASSUME NEW id \in Ids, TriggerCleanup(id) PROVE \E ids : Cleanup(ids)
    BY <2>4 DEF TriggerCleanup
  <2>5. ASSUME NEW a \in Admins, OnAdminRemove(a) PROVE \E ids : Cleanup(ids)
    BY <2>5 DEF OnAdminRemove
  <2>6. ASSUME NEW a \in Admins, EnableAdmin(a) PROVE UNCHANGED timerMap
    BY <2>6 DEF EnableAdmin
  <2>7. ASSUME DestroyCleanup PROVE \E ids : Cleanup(ids)
    BY <2>7 DEF DestroyCleanup
  <2>8. ASSUME RemoveDestroy \/ UNCHANGED vars PROVE UNCHANGED timerMap
    BY <2>8 DEF RemoveDestroy, vars, service
  <2>9. ASSUME NEW t \in Threads,
               DestroyTimer(t) \/ Request(t) \/ InsertCallback(t) \/ RemoveCallback(t)
        PROVE  UNCHANGED timerMap
    BY <2>9 DEF DestroyTimer, Request, InsertCallback, RemoveCallback, service
  <2>. QED
    BY <2>1, <2>2, <2>3, <2>4, <2>5, <2>6, <2>7, <2>8, <2>9 DEF Next
<1>. QED
  BY <1>1, <1>2, <1>3, <1>4, <1>5, <1>6, <1>7

LEMMA DeadStep ==
    ASSUME OwnedInv, DeadHoldNothing, [Next]_vars
    PROVE  DeadHoldNothing'
<1>. USE DEF OwnedInv, Owned
<1>1. /\ known \in [Clients -> SUBSET Ids] /\ call \in [Threads -> CallType]
      /\ resync \in [Clients -> ResyncType]
  BY DEF TypeOK, CallType, ResyncType
<1>2. ASSUME NEW t \in Threads, NEW at, NEW id, Answer(t, at, id), UNCHANGED <<alive, known, resync>>
      PROVE  DeadHoldNothing'
  <2>1. /\ \A u \in Threads \ {t} : call'[u] = call[u]
        /\ ClientOf[t] \notin alive => call'[t] = NoCall
    BY <1>1, <1>2 DEF Answer
  <2>. QED
    BY <1>2, <2>1 DEF DeadHoldNothing, NoCall
<1>3. ASSUME UNCHANGED client PROVE DeadHoldNothing'
  BY <1>3 DEF DeadHoldNothing, client
<1>4. ASSUME NEW t \in Threads, CreateTimer(t) \/ DestroyTimer(t) PROVE DeadHoldNothing'
  <2>1. UNCHANGED <<alive, known, resync>>
    BY <1>4 DEF CreateTimer, DestroyTimer
  <2>2. \/ UNCHANGED call \/ Answer(t, "none", None)
        \/ \E id \in Ids : Answer(t, "created", id)
    BY <1>4 DEF CreateTimer, DestroyTimer
  <2>. QED
    BY <1>2, <1>3, <2>1, <2>2 DEF client
<1>5. CASE DestroyCleanup
  <2>1. op.by \in Threads
    BY <1>5 DEF DestroyCleanup, OpIsHalfDone
  <2>. QED
    BY <1>2, <1>5, <2>1 DEF DestroyCleanup
<1>6. ASSUME NEW c \in Clients, NEW id \in Ids, ResyncTimer(c, id) PROVE DeadHoldNothing'
  BY <1>1, <1>6 DEF ResyncTimer, DeadHoldNothing, ResyncType
<1>7. ASSUME NEW c \in Clients, OnRemoteDied(c) \/ DiedDestroy(c) PROVE DeadHoldNothing'
  BY <1>3, <1>7 DEF OnRemoteDied, DiedDestroy
<1>8. ASSUME NEW c \in Clients, StartClient(c) \/ OnEdmSaRestart(c) PROVE DeadHoldNothing'
  <2>1. CASE StartClient(c)
    BY <2>1 DEF StartClient, DeadHoldNothing
  <2>2. CASE OnEdmSaRestart(c)
    <3>1. c \in alive /\ UNCHANGED <<alive, known, call>> /\ \A d \in Clients \ {c} : resync'[d] = resync[d]
      BY <1>1, <2>2 DEF OnEdmSaRestart, DeadHoldNothing
    <3>. QED
      BY <3>1 DEF DeadHoldNothing
  <2>. QED
    BY <1>8, <2>1, <2>2
<1>9. ASSUME NEW t \in Threads, Request(t) \/ InsertCallback(t) \/ RemoveCallback(t) PROVE DeadHoldNothing'
  <2>1. ClientOf[t] \in alive
    BY <1>9, TimersAssumption DEF Request, InsertCallback, RemoveCallback, DeadHoldNothing
  <2>2. /\ \A u \in Threads \ {t} : call'[u] = call[u]
        /\ \A d \in Clients \ {ClientOf[t]} : known'[d] = known[d]
        /\ UNCHANGED <<alive, resync>>
    BY <1>1, <1>9 DEF Request, InsertCallback, RemoveCallback
  <2>. QED
    BY <2>1, <2>2 DEF DeadHoldNothing
<1>10. ASSUME NEW c \in Clients, Die(c) PROVE DeadHoldNothing'
  <2>1. \A d \in Clients \ {c} : known'[d] = known[d] /\ resync'[d] = resync[d]
    BY <1>1, <1>10 DEF Die
  <2>2. known'[c] = {} /\ resync'[c] = [due |-> FALSE, items |-> {}] /\ alive' = alive \ {c}
    BY <1>1, <1>10 DEF Die
  <2>3. \A t \in Threads : /\ call'[t] = call[t] \/ call'[t] = NoCall
                           /\ ClientOf[t] = c => call'[t].at \notin {"created", "destroyed"}
    BY <1>10 DEF Die, NoCall
  <2>. QED
    BY <2>1, <2>2, <2>3 DEF DeadHoldNothing, NoCall
<1>11. ASSUME NEW id \in Ids, OnTimerTriggered(id) \/ TriggerCleanup(id) \/ TriggerDestroy(id)
       PROVE  DeadHoldNothing'
  BY <1>3, <1>11 DEF OnTimerTriggered, TriggerCleanup, TriggerDestroy
<1>12. ASSUME NEW a \in Admins, OnAdminRemove(a) \/ EnableAdmin(a) PROVE DeadHoldNothing'
  BY <1>3, <1>12 DEF OnAdminRemove, EnableAdmin
<1>13. CASE ResyncInsert \/ RemoveDestroy \/ UNCHANGED vars
  BY <1>3, <1>13 DEF ResyncInsert, RemoveDestroy, vars
<1>14. CASE Crash
  BY <1>1, <1>14 DEF Crash, DeadHoldNothing, NoCall
<1>. QED
  BY <1>4, <1>5, <1>6, <1>7, <1>8, <1>9, <1>10, <1>11, <1>12, <1>13, <1>14 DEF Next

LEMMA NoticesStep ==
    ASSUME OwnedInv, NoticesAreDead, [Next]_vars
    PROVE  NoticesAreDead'
<1>. USE DEF NoticesAreDead, OwnedInv, Owned
<1>1. ASSUME alive' \subseteq alive, notices' \subseteq notices PROVE NoticesAreDead'
  BY <1>1
<1>2. ASSUME NEW c \in Clients, StartClient(c) PROVE NoticesAreDead'
  BY <1>2 DEF StartClient, Unused, service
<1>3. ASSUME NEW c \in Clients, Die(c) PROVE NoticesAreDead'
  BY <1>3 DEF Die
<1>4. ASSUME NEW t \in Threads, CreateTimer(t) PROVE NoticesAreDead'
  BY <1>1, <1>4 DEF CreateTimer, Insert
<1>5. ASSUME NEW c \in Clients,
             DiedDestroy(c) \/ OnRemoteDied(c) \/ OnEdmSaRestart(c) \/ \E id \in Ids : ResyncTimer(c, id)
      PROVE  NoticesAreDead'
  BY <1>1, <1>5 DEF DiedDestroy, OnRemoteDied, OnEdmSaRestart, ResyncTimer, client, service
<1>6. ASSUME NEW id \in Ids, OnTimerTriggered(id) \/ TriggerCleanup(id) \/ TriggerDestroy(id)
      PROVE  NoticesAreDead'
  BY <1>1, <1>6 DEF OnTimerTriggered, TriggerCleanup, TriggerDestroy, Cleanup, client
<1>7. ASSUME NEW a \in Admins, OnAdminRemove(a) \/ EnableAdmin(a) PROVE NoticesAreDead'
  BY <1>1, <1>7 DEF OnAdminRemove, EnableAdmin, Cleanup, client
<1>8. CASE DestroyCleanup \/ RemoveDestroy \/ Crash \/ UNCHANGED vars
  BY <1>1, <1>8 DEF DestroyCleanup, RemoveDestroy, Crash, Cleanup, vars, client, service
<1>9. CASE ResyncInsert
  BY <1>1, <1>9 DEF ResyncInsert, Insert, client
<1>10. ASSUME NEW t \in Threads,
              DestroyTimer(t) \/ Request(t) \/ InsertCallback(t) \/ RemoveCallback(t)
       PROVE  NoticesAreDead'
  BY <1>1, <1>10 DEF DestroyTimer, Request, InsertCallback, RemoveCallback, service
<1>. QED
  BY <1>2, <1>3, <1>4, <1>5, <1>6, <1>7, <1>8, <1>9, <1>10 DEF Next

-----------------------------------------------------------------------------
(* Nobody destroys what a client holds *)

HeldIsIdle ==
    \A c \in Clients : \A id \in Has(c) : trigger[id] = "idle" /\ \A d \in Clients : id \notin dying[d]

LEMMA HasIsHeld == \A c \in Clients : Has(c) \subseteq Held /\ Has(c)' \subseteq Held'
<1>1. ASSUME NEW k, NEW c \in Clients, NEW id \in k[c] PROVE id \in UNION {k[d] : d \in Clients}
  OBVIOUS
<1>2. ASSUME NEW c \in Clients
      PROVE  Created({c}) \subseteq Created(Clients) /\ Created({c})' \subseteq Created(Clients)'
  BY DEF Created
<1>3. ASSUME NEW c \in Clients, NEW id \in Has(c) PROVE id \in Held
  <2>1. CASE id \in known[c]
    BY <1>1, <2>1 DEF Held
  <2>2. CASE id \in Created({c})
    <3>1. id \in Created(Clients)
      BY <1>2, <2>2
    <3>. QED
      BY <3>1 DEF Held
  <2>. QED
    BY <1>3, <2>1, <2>2 DEF Has
<1>4. ASSUME NEW c \in Clients, NEW id \in Has(c)' PROVE id \in Held'
  <2>1. CASE id \in known'[c]
    BY <1>1, <2>1 DEF Held
  <2>2. CASE id \in Created({c})'
    <3>1. id \in Created(Clients)'
      BY <1>2, <2>2
    <3>. QED
      BY <3>1 DEF Held
  <2>. QED
    BY <1>4, <2>1, <2>2 DEF Has
<1>. QED
  BY <1>3, <1>4

LEMMA HeldIs ==
    ASSUME OwnedInv, NEW c \in Clients, NEW id \in Has(c)
    PROVE  /\ id \in Ids /\ Owns(c, id) /\ id \in Held
           /\ DeadHoldNothing => c \in alive
           /\ \A d \in Clients : Owns(d, id) => d = c
           /\ timerMap[id] \in {c, None}
<1>. USE TimersAssumption DEF OwnedInv, Owned
<1>1. id \in Ids /\ Owns(c, id) /\ (DeadHoldNothing => c \in alive)
  BY DEF Has, Created, Owns, CallsHaveTimers, TypeOK, DeadHoldNothing
<1>2. \A d \in Clients : Owns(d, id) => d = c
  BY <1>1 DEF OwnedOnce
<1>3. timerMap[id] \in {c, None}
  BY <1>1, <1>2 DEF Owns, TypeOK
<1>4. id \in Held
  BY HasIsHeld
<1>. QED
  BY <1>1, <1>2, <1>3, <1>4

(* Nothing gets into the map of a client but what CreateTimer has answered.   *)
LEMMA HeldStays ==
    ASSUME OwnedInv, [Next]_vars, \A t \in Threads : ~CreateTimer(t), NEW c \in Clients
    PROVE  Has(c)' \subseteq Has(c)
<1>. USE DEF OwnedInv, Owned
<1>1. known \in [Clients -> SUBSET Ids] /\ call \in [Threads -> CallType]
  BY DEF TypeOK, CallType
<1>2. ASSUME known'[c] \subseteq Has(c), \A t \in Threads : call'[t].at = "created" => call'[t] = call[t]
      PROVE  Has(c)' \subseteq Has(c)
  BY <1>2 DEF Has, Created
<1>3. ASSUME UNCHANGED client PROVE Has(c)' \subseteq Has(c)
  BY <1>3 DEF Has, Created, client
<1>4. ASSUME NEW t \in Threads, NEW at, NEW id, Answer(t, at, id), at # "created", known' = known
      PROVE  Has(c)' \subseteq Has(c)
  <2>1. /\ \A u \in Threads \ {t} : call'[u] = call[u]
        /\ call'[t].at # "created"
    BY <1>1, <1>4 DEF Answer, NoCall
  <2>. QED
    BY <1>2, <1>4, <2>1 DEF Has
<1>5. ASSUME NEW t \in Threads, DestroyTimer(t) PROVE Has(c)' \subseteq Has(c)
  <2>1. UNCHANGED <<alive, known, resync>> /\ (UNCHANGED call \/ Answer(t, "none", None))
    BY <1>5 DEF DestroyTimer
  <2>. QED
    BY <1>3, <1>4, <2>1 DEF client
<1>6. CASE DestroyCleanup
  <2>1. op.by \in Threads /\ known' = known /\ Answer(op.by, "destroyed", call[op.by].id)
    BY <1>6 DEF DestroyCleanup, OpIsHalfDone
  <2>. QED
    BY <1>4, <2>1
<1>7. ASSUME NEW d \in Clients,
             \/ OnRemoteDied(d) \/ DiedDestroy(d) \/ StartClient(d) \/ OnEdmSaRestart(d)
             \/ \E id \in Ids : ResyncTimer(d, id)
      PROVE  Has(c)' \subseteq Has(c)
  <2>1. UNCHANGED <<known, call>>
    BY <1>7 DEF OnRemoteDied, DiedDestroy, StartClient, OnEdmSaRestart, ResyncTimer, client
  <2>. QED
    BY <2>1 DEF Has, Created
<1>8. ASSUME NEW d \in Clients, Die(d) PROVE Has(c)' \subseteq Has(c)
  <2>1. known'[c] \subseteq known[c]
    BY <1>1, <1>8 DEF Die
  <2>2. \A t \in Threads : call'[t] = call[t] \/ call'[t].at = "none"
    BY <1>8 DEF Die, NoCall
  <2>. QED
    BY <1>2, <2>1, <2>2 DEF Has
<1>9. ASSUME NEW t \in Threads, Request(t) \/ InsertCallback(t) \/ RemoveCallback(t)
      PROVE  Has(c)' \subseteq Has(c)
  <2>1. \A u \in Threads \ {t} : call'[u] = call[u]
    BY <1>1, <1>9 DEF Request, InsertCallback, RemoveCallback
  <2>2. call'[t].at # "created"
    <3>1. CASE Request(t)
      BY <1>1, <3>1 DEF Request, CallType
    <3>2. CASE InsertCallback(t) \/ RemoveCallback(t)
      BY <1>1, <3>2 DEF InsertCallback, RemoveCallback, NoCall
    <3>. QED
      BY <1>9, <3>1, <3>2
  <2>3. known'[c] \subseteq Has(c)
    <3>1. CASE Request(t) \/ RemoveCallback(t)
      BY <1>1, <3>1 DEF Request, RemoveCallback, Has
    <3>2. CASE InsertCallback(t)
      BY <1>1, <3>2 DEF InsertCallback, Has, Created
    <3>. QED
      BY <1>9, <3>1, <3>2
  <2>. QED
    BY <1>2, <2>1, <2>2, <2>3
<1>10. CASE Crash
  <2>1. known' = known /\ \A t \in Threads : call'[t] = call[t] \/ call'[t].at = "none"
    BY <1>10 DEF Crash, NoCall
  <2>. QED
    BY <1>2, <2>1 DEF Has
<1>11. ASSUME NEW id \in Ids, OnTimerTriggered(id) \/ TriggerCleanup(id) \/ TriggerDestroy(id)
       PROVE  Has(c)' \subseteq Has(c)
  BY <1>3, <1>11 DEF OnTimerTriggered, TriggerCleanup, TriggerDestroy
<1>12. ASSUME NEW a \in Admins, OnAdminRemove(a) \/ EnableAdmin(a) PROVE Has(c)' \subseteq Has(c)
  BY <1>3, <1>12 DEF OnAdminRemove, EnableAdmin
<1>13. CASE ResyncInsert \/ RemoveDestroy \/ UNCHANGED vars
  BY <1>3, <1>13 DEF ResyncInsert, RemoveDestroy, vars
<1>. QED
  BY <1>5, <1>6, <1>7, <1>8, <1>9, <1>10, <1>11, <1>12, <1>13 DEF Next

(* What CreateTimer answers is new.                                           *)
LEMMA HeldCreated ==
    ASSUME OwnedInv, NEW t \in Threads, CreateTimer(t)
    PROVE  \/ /\ UNCHANGED <<timerMap, timers, history>>
              /\ \A d \in Clients : Has(d)' \subseteq Has(d)
           \/ \E id \in Ids : /\ Free(id) /\ TimeServiceCreates(id) /\ Insert(ClientOf[t], id)
                              /\ \A d \in Clients : Has(d)' \subseteq Has(d) \cup {id}
                              /\ \A d \in Clients \ {ClientOf[t]} : Has(d)' \subseteq Has(d)
<1>1. call \in [Threads -> CallType] /\ known' = known
  BY DEF OwnedInv, TypeOK, CallType, CreateTimer
<1>2. ASSUME NEW at, NEW id, Answer(t, at, id)
      PROVE  \A u \in Threads : call'[u] = call[u] \/ (u = t /\ call'[u] \in {NoCall, [at |-> at, id |-> id]})
  BY <1>1, <1>2 DEF Answer
<1>3. ASSUME Answer(t, "none", None) PROVE \A d \in Clients : Has(d)' \subseteq Has(d)
  <2>1. \A u \in Threads : call'[u].at = "created" => call'[u] = call[u]
    BY <1>2, <1>3 DEF NoCall
  <2>. QED
    BY <1>1, <2>1 DEF Has, Created
<1>4. ASSUME NEW id \in Ids, Answer(t, "created", id)
      PROVE  /\ \A d \in Clients : Has(d)' \subseteq Has(d) \cup {id}
             /\ \A d \in Clients \ {ClientOf[t]} : Has(d)' \subseteq Has(d)
  <2>1. \A u \in Threads : call'[u].at = "created" => call'[u] = call[u] \/ (u = t /\ call'[u].id = id)
    BY <1>2, <1>4 DEF NoCall
  <2>. QED
    BY <1>1, <2>1 DEF Has, Created
<1>5. CASE Answer(t, "none", None) /\ UNCHANGED <<timerMap, timers, history>>
  BY <1>3, <1>5
<1>6. ASSUME NEW id \in Ids, Free(id), TimeServiceCreates(id), Insert(ClientOf[t], id), Answer(t, "created", id)
      PROVE  \E i \in Ids : /\ Free(i) /\ TimeServiceCreates(i) /\ Insert(ClientOf[t], i)
                            /\ \A d \in Clients : Has(d)' \subseteq Has(d) \cup {i}
                            /\ \A d \in Clients \ {ClientOf[t]} : Has(d)' \subseteq Has(d)
  BY <1>4, <1>6
<1>. QED
  BY <1>5, <1>6 DEF CreateTimer

LEMMA IdleStep ==
    ASSUME OwnedInv, DeadHoldNothing, NoticesAreDead, HeldIsIdle, [Next]_vars
    PROVE  HeldIsIdle'
<1>. USE TimersAssumption
<1>1. ASSUME NEW c \in Clients, NEW id \in Has(c)
      PROVE  /\ id \in Ids /\ trigger[id] = "idle" /\ \A d \in Clients : id \notin dying[d]
             /\ timerMap[id] \in {c, None} /\ c \in alive
  BY <1>1, HeldIs DEF HeldIsIdle
<1>2. ASSUME \A t \in Threads : ~CreateTimer(t),
             \A c \in Clients : \A id \in Has(c) :
                trigger'[id] = "idle" /\ \A d \in Clients : id \notin dying'[d]
      PROVE  HeldIsIdle'
  BY <1>2, HeldStays DEF HeldIsIdle
<1>3. ASSUME NEW t \in Threads, CreateTimer(t) PROVE HeldIsIdle'
  <2>1. UNCHANGED <<trigger, dying>>
    BY <1>3 DEF CreateTimer
  <2>2. CASE \A d \in Clients : Has(d)' \subseteq Has(d)
    BY <2>1, <2>2 DEF HeldIsIdle
  <2>3. ASSUME NEW id \in Ids, Free(id), \A d \in Clients : Has(d)' \subseteq Has(d) \cup {id}
        PROVE  HeldIsIdle'
    <3>1. trigger[id] = "idle" /\ \A d \in Clients : id \notin dying[d]
      BY <2>3 DEF Free
    <3>. QED
      BY <2>1, <2>3, <3>1 DEF HeldIsIdle
  <2>4. \/ \A d \in Clients : Has(d)' \subseteq Has(d)
        \/ \E id \in Ids : Free(id) /\ \A d \in Clients : Has(d)' \subseteq Has(d) \cup {id}
    BY <1>3, HeldCreated
  <2>. QED
    BY <2>2, <2>3, <2>4
<1>4. CASE \E t \in Threads : CreateTimer(t)
  BY <1>3, <1>4
<1>5. CASE \A t \in Threads : ~CreateTimer(t)
  <2>1. CASE UNCHANGED <<trigger, dying>>
    BY <1>2, <1>5, <2>1 DEF HeldIsIdle
  <2>2. ASSUME NEW id \in Ids, OnTimerTriggered(id) \/ TriggerCleanup(id) \/ TriggerDestroy(id)
        PROVE  HeldIsIdle'
    <3>1. /\ \A d \in Ids \ {id} : trigger'[d] = trigger[d]
          /\ dying' = dying
      BY <2>2 DEF OnTimerTriggered, TriggerCleanup, TriggerDestroy, OwnedInv, TypeOK
    <3>2. \A c \in Clients : id \notin Has(c)
      BY <1>1, <2>2 DEF OnTimerTriggered, TriggerCleanup, TriggerDestroy
    <3>. QED
      BY <1>1, <1>2, <1>5, <3>1, <3>2
  <2>3. ASSUME NEW d \in Clients, OnRemoteDied(d) PROVE HeldIsIdle'
    <3>1. /\ trigger' = trigger /\ d \notin alive
          /\ \A c \in Clients : \A id \in dying'[c] : id \in dying[c] \/ timerMap[id] = d
      BY <2>3 DEF OnRemoteDied, NoticesAreDead, OwnedInv, TypeOK
    <3>. QED
      BY <1>1, <1>2, <1>5, <3>1
  <2>4. ASSUME NEW d \in Clients, DiedDestroy(d) PROVE HeldIsIdle'
    <3>1. trigger' = trigger /\ \A c \in Clients : dying'[c] \subseteq dying[c]
      BY <2>4 DEF DiedDestroy, OwnedInv, TypeOK
    <3>. QED
      BY <1>1, <1>2, <1>5, <3>1
  <2>5. CASE Crash
    <3>1. (\A id \in Ids : trigger'[id] = "idle") /\ \A d \in Clients : dying'[d] = {}
      BY <2>5 DEF Crash
    <3>. QED
      BY <1>1, <1>2, <1>5, <3>1
  <2>6. \/ UNCHANGED <<trigger, dying>> \/ Crash
        \/ \E id \in Ids : OnTimerTriggered(id) \/ TriggerCleanup(id) \/ TriggerDestroy(id)
        \/ \E d \in Clients : OnRemoteDied(d) \/ DiedDestroy(d)
    <3>1. ASSUME NEW c \in Clients,
                 StartClient(c) \/ OnEdmSaRestart(c) \/ Die(c) \/ \E id \in Ids : ResyncTimer(c, id)
          PROVE  UNCHANGED <<trigger, dying>>
      BY <3>1 DEF StartClient, OnEdmSaRestart, Die, ResyncTimer, service
    <3>2. ASSUME NEW a \in Admins, OnAdminRemove(a) \/ EnableAdmin(a) PROVE UNCHANGED <<trigger, dying>>
      BY <3>2 DEF OnAdminRemove, EnableAdmin
    <3>3. ASSUME DestroyCleanup \/ ResyncInsert \/ RemoveDestroy \/ UNCHANGED vars
          PROVE  UNCHANGED <<trigger, dying>>
      BY <3>3 DEF DestroyCleanup, ResyncInsert, RemoveDestroy, vars, service
    <3>4. ASSUME NEW t \in Threads,
                 DestroyTimer(t) \/ Request(t) \/ InsertCallback(t) \/ RemoveCallback(t)
          PROVE  UNCHANGED <<trigger, dying>>
      BY <3>4 DEF DestroyTimer, Request, InsertCallback, RemoveCallback, service
    <3>. QED
      BY <1>5, <3>1, <3>2, <3>3, <3>4 DEF Next
  <2>. QED
    BY <2>1, <2>2, <2>3, <2>4, <2>5, <2>6
<1>. QED
  BY <1>4, <1>5

-----------------------------------------------------------------------------
(* Clients keep their timers *)

(* The client has been told that the timer is gone, and will forget it.       *)
ToForget(c, id) ==
    /\ id \in known[c]
    /\ \E t \in Threads : ClientOf[t] = c /\ call[t].at = "destroyed" /\ call[t].id = id

(* Why a client that has a timer can start it, or will be able to: it is      *)
(* there, it will be set up again, or an operation is at it.                  *)
Kept(c, id) ==
    \/ timerMap[id] = c /\ id \in timers
    \/ resync[c].due \/ id \in resync[c].items
    \/ op.kind = "cleanup" /\ id \in op.ids
    \/ op.kind = "insert" /\ id \in op.ids
    \/ op.kind = "insert" /\ op.ids \cap SameName(id) # {} /\ timerMap[id] = c
    \/ ToForget(c, id)

Fine(c, id) ==
    /\ id \in lost \/ Kept(c, id)
    /\ op.kind = "insert" /\ id \in op.ids => id \in timers
    /\ op.kind = "remove" /\ id \in op.ids => id \in lost

KeptInv == \A c \in Clients : \A id \in Has(c) : Fine(c, id)

HeldInv == OneOfAName /\ DeadHoldNothing /\ NoticesAreDead /\ HeldIsIdle

(* While no operation comes or goes, a timer stays fine with its entry.       *)
LEMMA FineStays ==
    ASSUME NEW c, NEW id, Fine(c, id), op' = op,
           id \in lost => id \in lost',
           timerMap[id] = c => timerMap'[id] = c \/ id \in lost',
           id \in timers => id \in timers',
           resync[c].due => resync'[c].due,
           id \in resync[c].items => id \in resync'[c].items,
           ToForget(c, id) => ToForget(c, id)'
    PROVE  Fine(c, id)'
  BY DEF Fine, Kept

(* A client learns of it as long as it lives and the answer is not taken.     *)
LEMMA ForgetsStill ==
    ASSUME NEW c \in Clients, NEW id, known'[c] = known[c],
           \A t \in Threads : call[t].at = "destroyed" => call'[t] = call[t]
    PROVE  ToForget(c, id) => ToForget(c, id)'
  BY DEF ToForget

LEMMA CreateFine ==
    ASSUME OwnedInv, HeldInv, KeptInv, NEW t \in Threads, CreateTimer(t)
    PROVE  KeptInv'
<1>. USE TimersAssumption
<1>. DEFINE c == ClientOf[t]
<1>1. op = NoOp /\ op' = op /\ resync' = resync /\ known' = known /\ call[t].at = "create" /\ c \in Clients
  BY DEF CreateTimer
<1>. HIDE DEF c
<1>2. \A u \in Threads \ {t} : call'[u] = call[u]
  BY DEF CreateTimer, Answer, OwnedInv, TypeOK
<1>4. \A d \in Clients : \A id : ToForget(d, id) => ToForget(d, id)'
  BY <1>1, <1>2, ForgetsStill
<1>5. CASE UNCHANGED <<timerMap, timers, history>> /\ \A d \in Clients : Has(d)' \subseteq Has(d)
  <2>1. ASSUME NEW d \in Clients, NEW id \in Has(d)' PROVE Fine(d, id)'
    <3>1. id \in Has(d)
      BY <1>5, <2>1
    <3>2. Fine(d, id)
      BY <3>1 DEF KeptInv
    <3>. QED
      BY <1>1, <1>4, <1>5, <3>2, FineStays DEF history
  <2>. QED
    BY <2>1 DEF KeptInv
<1>6. ASSUME NEW n \in Ids, Free(n), TimeServiceCreates(n), Insert(c, n),
             \A d \in Clients : Has(d)' \subseteq Has(d) \cup {n},
             \A d \in Clients \ {c} : Has(d)' \subseteq Has(d)
      PROVE  KeptInv'
  <2>1. /\ timerMap'[n] = c
        /\ \A d \in Ids \ {n} : timerMap'[d] = timerMap[d] \/ (d \in Replaced(n) /\ timerMap'[d] = None)
        /\ Replaced(n) \subseteq SameName(n) /\ SameName(n) \subseteq Ids \ {n}
    BY <1>6, EntryInserted DEF OwnedInv
  <2>2. timers' = (timers \ SameName(n)) \cup {n} /\ lost' = (lost \ {n}) \cup (Replaced(n) \cap Held)
    BY <1>6 DEF TimeServiceCreates, Insert
  <2>3. \A d \in Clients : ~Owns(d, n)
    BY <1>1, <1>6 DEF Free, Owns, Has, Created, NoOp
  <2>4. Fine(c, n)'
    BY <1>1, <2>1, <2>2 DEF Fine, Kept, NoOp
  <2>5. ASSUME NEW d \in Clients, NEW id \in Has(d) PROVE Fine(d, id)'
    <3>1. id \in Ids /\ id # n /\ id \in Held /\ Owns(d, id)
      BY <2>3, <2>5, HeldIs
    <3>2. Fine(d, id)
      BY <2>5 DEF KeptInv
    <3>3. CASE id \in Replaced(n)
      BY <1>1, <2>2, <3>1, <3>3 DEF Fine, NoOp
    <3>4. CASE id \notin Replaced(n)
      <4>1. timerMap'[id] = timerMap[id]
        BY <2>1, <3>1, <3>4
      <4>2. id \in SameName(n) => timerMap[id] = None
        BY <3>4, ReplacedIsAll DEF HeldInv
      <4>3. timerMap[id] = d => id \in Ids \ SameName(n)
        BY <3>1, <4>2
      <4>. QED
        BY <1>1, <1>4, <2>2, <3>1, <3>2, <4>1, <4>3 DEF Fine, Kept, NoOp
    <3>. QED
      BY <3>3, <3>4
  <2>6. ASSUME NEW d \in Clients, NEW id \in Has(d)' PROVE Fine(d, id)'
    <3>1. id \in Has(d) \/ (d = c /\ id = n)
      BY <1>6, <2>6
    <3>. QED
      BY <2>4, <2>5, <3>1
  <2>. QED
    BY <2>6 DEF KeptInv
<1>. QED
  BY <1>5, <1>6, HeldCreated DEF c

(* The other operations of administrators, each of which leaves alone what it *)
(* is not at.                                                                 *)
LEMMA DestroyFine ==
    ASSUME OwnedInv, HeldInv, KeptInv, NEW t \in Threads, DestroyTimer(t)
    PROVE  \A d \in Clients : \A id \in Has(d) : Fine(d, id)'
<1>1. op = NoOp /\ UNCHANGED <<known, resync, timerMap, lost>> /\ call[t].at = "destroy"
  BY DEF DestroyTimer, history
<1>2. \A u \in Threads : call[u].at = "destroyed" => call'[u] = call[u]
  BY DEF DestroyTimer, Answer, OwnedInv, TypeOK
<1>3. ASSUME NEW d \in Clients, NEW id \in Has(d) PROVE Fine(d, id)'
  <2>1. Fine(d, id) /\ (ToForget(d, id) => ToForget(d, id)')
    BY <1>1, <1>2, <1>3, ForgetsStill DEF KeptInv
  <2>2. CASE /\ timers' = timers \ {call[t].id}
             /\ op' = [kind |-> "cleanup", by |-> t, ids |-> {call[t].id}]
    BY <1>1, <2>1, <2>2 DEF Fine, Kept, NoOp
  <2>3. CASE UNCHANGED <<timers, op>>
    BY <1>1, <2>1, <2>3, FineStays
  <2>. QED
    BY <2>2, <2>3 DEF DestroyTimer
<1>. QED
  BY <1>3

(* Whoever has the timer and is not told by the answer has lost it.           *)
LEMMA DestroyCleanupFine ==
    ASSUME OwnedInv, HeldInv, KeptInv, DestroyCleanup
    PROVE  \A d \in Clients : \A id \in Has(d) : Fine(d, id)'
<1>. USE TimersAssumption
<1>1. PICK i, t, c : i = call[op.by].id /\ t = op.by /\ c = ClientOf[op.by]
  OBVIOUS
<1>2. /\ op.kind = "cleanup" /\ t \in Threads /\ c \in Clients /\ op.ids = {i} /\ call[t].at = "destroy"
      /\ op' = NoOp /\ UNCHANGED <<known, resync, timers>>
      /\ timerMap' = [d \in Ids |-> IF d \in op.ids THEN None ELSE timerMap[d]]
  BY <1>1, EntryErased DEF DestroyCleanup, OwnedInv, Owned, OpIsHalfDone
<1>3. /\ \A u \in Threads : call[u].at = "destroyed" => call'[u] = call[u]
      /\ c \in alive => call'[t].at = "destroyed" /\ call'[t].id = i
  BY <1>1, <1>2 DEF DestroyCleanup, Answer, OwnedInv, TypeOK
<1>4. lost' = lost \cup ({i} \cap HeldElsewhere(c))
  BY <1>1, <1>2 DEF DestroyCleanup
<1>5. ASSUME NEW d \in Clients, NEW id \in Has(d) PROVE Fine(d, id)'
  <2>1. /\ Fine(d, id) /\ id \in Ids /\ d \in alive
        /\ ToForget(d, id) => ToForget(d, id)'
    BY <1>2, <1>3, <1>5, HeldIs, ForgetsStill DEF KeptInv, HeldInv
  <2>2. CASE id = i
    <3>1. CASE id \in HeldElsewhere(c)
      BY <1>2, <1>4, <2>2, <3>1 DEF Fine, NoOp
    <3>2. CASE id \notin HeldElsewhere(c)
      <4>1. d = c /\ id \in known[d]
        <5>1. id \notin Created(Clients) /\ \A e \in Clients \ {c} : id \notin known[e]
          <6>0. id \notin UNION {known[b] : b \in Clients \ {c}} /\ id \notin Created(Clients)
            BY <3>2 DEF HeldElsewhere
          <6>1. ASSUME NEW e \in Clients \ {c}, id \in known[e]
                PROVE  id \in UNION {known[b] : b \in Clients \ {c}}
            BY <6>1
          <6>. QED
            BY <6>0, <6>1
        <5>2. id \notin Created({d})
          BY <5>1 DEF Created
        <5>. QED
          BY <1>5, <5>1, <5>2 DEF Has
      <4>2. ToForget(d, id)'
        BY <1>1, <1>2, <1>3, <2>1, <2>2, <4>1 DEF ToForget
      <4>. QED
        BY <1>2, <4>2 DEF Fine, Kept, NoOp
    <3>. QED
      BY <3>1, <3>2
  <2>3. CASE id # i
    BY <1>2, <1>4, <2>1, <2>3 DEF Fine, Kept, NoOp
  <2>. QED
    BY <2>2, <2>3
<1>. QED
  BY <1>5

LEMMA ResyncFine ==
    ASSUME OwnedInv, HeldInv, KeptInv, NEW c \in Clients, NEW i \in Ids, ResyncTimer(c, i)
    PROVE  \A d \in Clients : \A id \in Has(d) : Fine(d, id)'
<1>1. /\ op = NoOp /\ UNCHANGED <<timerMap>> /\ lost \subseteq lost'
      /\ \A d \in Clients : \A id : ToForget(d, id) => ToForget(d, id)'
  BY DEF ResyncTimer, history, ToForget
<1>2. \A d \in Clients : /\ resync'[d].due = resync[d].due
                         /\ \A id \in resync[d].items : id # i => id \in resync'[d].items
  BY DEF ResyncTimer, OwnedInv, TypeOK
<1>3. ASSUME NEW d \in Clients, NEW id \in Has(d) PROVE Fine(d, id)'
  <2>1. Fine(d, id) /\ id \in Ids /\ id \in Held
    BY <1>3, HeldIs DEF KeptInv
  <2>2. CASE TimeServiceCreates(i) /\ op' = [kind |-> "insert", by |-> c, ids |-> {i}]
    <3>1. timers' = (timers \ SameName(i)) \cup {i}
      BY <2>2 DEF TimeServiceCreates
    <3>2. id \in SameName(i) => i \in SameName(id)
      BY DEF SameName
    <3>3. CASE id = i
      BY <2>2, <3>1, <3>3 DEF Fine, Kept
    <3>4. CASE id # i
      BY <1>1, <1>2, <2>1, <2>2, <3>1, <3>2, <3>4 DEF Fine, Kept, NoOp
    <3>. QED
      BY <3>3, <3>4
  <2>3. CASE /\ op' = op /\ timers \ {i} \subseteq timers' /\ lost' = lost \cup ({i} \cap Held)
    <3>1. CASE id = i
      BY <1>1, <2>1, <2>3, <3>1 DEF Fine, NoOp
    <3>2. CASE id # i
      BY <1>1, <1>2, <2>1, <2>3, <3>2 DEF Fine, Kept, NoOp
    <3>. QED
      BY <3>1, <3>2
  <2>. QED
    BY <2>2, <2>3 DEF ResyncTimer
<1>. QED
  BY <1>3

LEMMA ResyncInsertFine ==
    ASSUME OwnedInv, HeldInv, KeptInv, ResyncInsert
    PROVE  \A d \in Clients : \A id \in Has(d) : Fine(d, id)'
<1>. USE TimersAssumption
<1>1. PICK n \in op.ids : Insert(op.by, n)
  BY DEF ResyncInsert
<1>2. /\ op.kind = "insert" /\ op.by \in Clients /\ n \in Ids /\ op.ids = {n} /\ SameName(n) \cap timers = {}
      /\ op' = NoOp /\ UNCHANGED <<resync, timers>>
      /\ \A d \in Clients : \A id : ToForget(d, id) => ToForget(d, id)'
  BY <1>1 DEF ResyncInsert, OwnedInv, Owned, OpIsHalfDone, client, ToForget
<1>3. /\ timerMap'[n] = op.by
      /\ \A d \in Ids \ {n} : timerMap'[d] = timerMap[d] \/ (d \in Replaced(n) /\ timerMap'[d] = None)
  BY <1>1, <1>2, EntryInserted DEF OwnedInv
<1>4. lost' = (lost \ {n}) \cup (Replaced(n) \cap Held)
  BY <1>1 DEF Insert
<1>5. ASSUME NEW d \in Clients, NEW id \in Has(d) PROVE Fine(d, id)'
  <2>1. Fine(d, id) /\ id \in Ids /\ id \in Held /\ \A e \in Clients : Owns(e, id) => e = d
    BY <1>5, HeldIs DEF KeptInv
  <2>2. CASE id = n
    <3>1. op.by = d
      BY <1>2, <2>1, <2>2 DEF Owns
    <3>2. id \in timers
      BY <1>2, <2>1, <2>2 DEF Fine
    <3>. QED
      BY <1>2, <1>3, <2>2, <3>1, <3>2 DEF Fine, Kept, NoOp
  <2>3. CASE id \in Replaced(n)
    BY <1>2, <1>4, <2>1, <2>3 DEF Fine, NoOp
  <2>4. CASE id # n /\ id \notin Replaced(n)
    <3>1. timerMap'[id] = timerMap[id]
      BY <1>3, <2>1, <2>4
    <3>2. id \in SameName(n) => timerMap[id] = None
      BY <1>2, <2>4, ReplacedIsAll DEF HeldInv
    <3>3. op.ids \cap SameName(id) # {} => id \in SameName(n)
      BY <1>2, <2>1 DEF SameName
    <3>4. ~(op.ids \cap SameName(id) # {} /\ timerMap[id] = d)
      BY <3>2, <3>3
    <3>. QED
      BY <1>2, <1>4, <2>1, <2>4, <3>1, <3>4 DEF Fine, Kept, NoOp
  <2>. QED
    BY <2>2, <2>3, <2>4
<1>. QED
  BY <1>5

LEMMA AdminFine ==
    ASSUME OwnedInv, HeldInv, KeptInv, NEW a \in Admins, OnAdminRemove(a) \/ EnableAdmin(a)
    PROVE  \A d \in Clients : \A id \in Has(d) : Fine(d, id)'
<1>1. ASSUME NEW d \in Clients, NEW id \in Has(d) PROVE Fine(d, id)'
  <2>1. Fine(d, id) /\ id \in Ids /\ id \in Held
    BY <1>1, HeldIs DEF KeptInv
  <2>2. CASE OnAdminRemove(a)
    <3>1. /\ op = NoOp /\ UNCHANGED <<resync, timers>> /\ (ToForget(d, id) => ToForget(d, id)')
          /\ op' = [kind |-> "remove", by |-> None, ids |-> EntriesOf(a)]
          /\ lost' = lost \cup (EntriesOf(a) \cap Held)
          /\ timerMap' = [e \in Ids |-> IF e \in EntriesOf(a) THEN None ELSE timerMap[e]]
      BY <2>2, EntryErased DEF OnAdminRemove, OwnedInv, client, ToForget
    <3>2. CASE id \in EntriesOf(a)
      BY <2>1, <3>1, <3>2 DEF Fine
    <3>3. CASE id \notin EntriesOf(a)
      BY <2>1, <3>1, <3>3 DEF Fine, Kept, NoOp
    <3>. QED
      BY <3>2, <3>3
  <2>3. CASE EnableAdmin(a)
    BY <2>1, <2>3, FineStays DEF EnableAdmin, client, history, ToForget
  <2>. QED
    BY <2>2, <2>3
<1>. QED
  BY <1>1

LEMMA RemoveDestroyFine ==
    ASSUME OwnedInv, KeptInv, RemoveDestroy
    PROVE  \A d \in Clients : \A id \in Has(d) : Fine(d, id)'
<1>1. ASSUME NEW d \in Clients, NEW id \in Has(d) PROVE Fine(d, id)'
  <2>1. Fine(d, id)
    BY <1>1 DEF KeptInv
  <2>2. /\ op.kind = "remove" /\ op' = NoOp /\ timers' = timers \ op.ids
        /\ UNCHANGED <<resync, timerMap, lost>> /\ (ToForget(d, id) => ToForget(d, id)')
    BY DEF RemoveDestroy, client, history, ToForget
  <2>. QED
    BY <2>1, <2>2 DEF Fine, Kept, NoOp
<1>. QED
  BY <1>1

(* A restart owes every client its timers.                                    *)
LEMMA CrashFine ==
    ASSUME OwnedInv, HeldInv, KeptInv, Crash
    PROVE  \A d \in Clients : \A id \in Has(d) : Fine(d, id)'
<1>1. ASSUME NEW d \in Clients, NEW id \in Has(d) PROVE Fine(d, id)'
  <2>1. d \in alive
    BY <1>1, HeldIs DEF HeldInv
  <2>2. resync'[d].due = TRUE /\ op' = NoOp
    BY <2>1 DEF Crash
  <2>. QED
    BY <2>2 DEF Fine, Kept, NoOp
<1>. QED
  BY <1>1

(* Triggers and notices of death take away what nobody holds.                 *)
LEMMA TriggerFine ==
    ASSUME OwnedInv, HeldInv, KeptInv,
           \/ \E i \in Ids : OnTimerTriggered(i) \/ TriggerCleanup(i) \/ TriggerDestroy(i)
           \/ \E c \in Clients : OnRemoteDied(c) \/ DiedDestroy(c)
    PROVE  \A d \in Clients : \A id \in Has(d) : Fine(d, id)'
<1>1. ASSUME NEW d \in Clients, NEW id \in Has(d) PROVE Fine(d, id)'
  <2>1. /\ Fine(d, id) /\ id \in Ids /\ d \in alive /\ timerMap[id] \in {d, None}
        /\ trigger[id] = "idle" /\ \A e \in Clients : id \notin dying[e]
    BY <1>1, HeldIs DEF KeptInv, HeldInv, HeldIsIdle
  <2>2. UNCHANGED <<resync, op, lost>> /\ (ToForget(d, id) => ToForget(d, id)')
    BY DEF OnTimerTriggered, TriggerCleanup, TriggerDestroy, OnRemoteDied, DiedDestroy, client, history,
       ToForget
  <2>3. id \in timers => id \in timers'
    BY <2>1 DEF OnTimerTriggered, TriggerCleanup, TriggerDestroy, OnRemoteDied, DiedDestroy
  <2>4. timerMap[id] = d => timerMap'[id] = d
    <3>1. ASSUME NEW i \in Ids, TriggerCleanup(i) PROVE timerMap[id] = d => timerMap'[id] = d
      <4>1. timerMap' = [e \in Ids |-> IF e \in {i} THEN None ELSE timerMap[e]] /\ i # id
        BY <2>1, <3>1, EntryErased DEF TriggerCleanup, OwnedInv
      <4>. QED
        BY <2>1, <4>1
    <3>2. ASSUME NEW c \in Clients, OnRemoteDied(c) PROVE timerMap[id] = d => timerMap'[id] = d
      <4>1. c # d
        BY <2>1, <3>2 DEF OnRemoteDied, HeldInv, NoticesAreDead
      <4>. QED
        BY <2>1, <3>2, <4>1 DEF OnRemoteDied, Erased
    <3>3. ASSUME UNCHANGED timerMap PROVE timerMap[id] = d => timerMap'[id] = d
      BY <3>3
    <3>. QED
      BY <3>1, <3>2, <3>3 DEF OnTimerTriggered, TriggerDestroy, DiedDestroy
  <2>. QED
    BY <2>1, <2>2, <2>3, <2>4, FineStays
<1>. QED
  BY <1>1

(* What clients do.                                                           *)
LEMMA ClientFine ==
    ASSUME OwnedInv, HeldInv, KeptInv, NEW c \in Clients, StartClient(c) \/ OnEdmSaRestart(c) \/ Die(c)
    PROVE  \A d \in Clients : \A id \in Has(d) : id \in Has(d)' => Fine(d, id)'
<1>. USE TimersAssumption
<1>1. ASSUME NEW d \in Clients, NEW id \in Has(d), id \in Has(d)' PROVE Fine(d, id)'
  <2>1. Fine(d, id) /\ id \in Ids
    BY <1>1, HeldIs DEF KeptInv
  <2>2. UNCHANGED <<timerMap, timers, op>>
    BY DEF StartClient, OnEdmSaRestart, Die, service
  <2>3. /\ known \in [Clients -> SUBSET Ids] /\ resync \in [Clients -> ResyncType]
    BY DEF OwnedInv, TypeOK, ResyncType
  <2>4. CASE StartClient(c)
    BY <2>1, <2>2, <2>4, FineStays DEF StartClient, ToForget
  <2>5. CASE OnEdmSaRestart(c)
    <3>1. /\ UNCHANGED <<known, call>> /\ resync'[c] = [due |-> FALSE, items |-> known[c]]
          /\ \A e \in Clients \ {c} : resync'[e] = resync[e]
          /\ lost' = lost \cup Created({c})
      BY <2>3, <2>5 DEF OnEdmSaRestart
    <3>2. ToForget(d, id) => ToForget(d, id)'
      BY <3>1 DEF ToForget
    <3>3. CASE d # c
      BY <2>1, <2>2, <3>1, <3>2, <3>3, FineStays
    <3>4. CASE d = c
      <4>1. id \in lost' \/ id \in resync'[d].items
        BY <1>1, <3>1, <3>4 DEF Has
      <4>. QED
        BY <2>1, <2>2, <3>1, <4>1 DEF Fine, Kept
    <3>. QED
      BY <3>3, <3>4
  <2>6. CASE Die(c)
    <3>1. /\ \A e \in Clients \ {c} : known'[e] = known[e] /\ resync'[e] = resync[e]
          /\ known'[c] = {} /\ lost' = lost \cap Held'
          /\ \A t \in Threads : call'[t] = IF ClientOf[t] # c \/ call[t].at \in {"create", "destroy"}
                                           THEN call[t] ELSE NoCall
      BY <2>3, <2>6 DEF Die
    <3>2. d # c
      BY <1>1, <3>1 DEF Has, Created, NoCall
    <3>3. id \in lost => id \in lost'
      BY <1>1, <3>1, HasIsHeld
    <3>4. ToForget(d, id) => ToForget(d, id)'
      BY <3>1, <3>2 DEF ToForget
    <3>. QED
      BY <2>1, <2>2, <3>1, <3>2, <3>3, <3>4, FineStays
  <2>. QED
    BY <2>4, <2>5, <2>6
<1>. QED
  BY <1>1

LEMMA CallbackFine ==
    ASSUME OwnedInv, HeldInv, KeptInv, NEW t \in Threads,
           Request(t) \/ InsertCallback(t) \/ RemoveCallback(t)
    PROVE  \A d \in Clients : \A id \in Has(d) : id \in Has(d)' => Fine(d, id)'
<1>. USE TimersAssumption
<1>1. ASSUME NEW d \in Clients, NEW id \in Has(d), id \in Has(d)' PROVE Fine(d, id)'
  <2>1. Fine(d, id) /\ id \in Ids
    BY <1>1, HeldIs DEF KeptInv
  <2>2. UNCHANGED <<timerMap, timers, op, resync>>
    BY DEF Request, InsertCallback, RemoveCallback, service
  <2>3. /\ known \in [Clients -> SUBSET Ids] /\ call \in [Threads -> CallType] /\ ClientOf[t] \in Clients
        /\ \A u \in Threads \ {t} : call'[u] = call[u]
    BY DEF Request, InsertCallback, RemoveCallback, OwnedInv, TypeOK, CallType
  <2>4. CASE Request(t)
    <3>1. call[t] = NoCall /\ UNCHANGED <<known, lost>>
      BY <2>4 DEF Request, history
    <3>2. ToForget(d, id) => ToForget(d, id)'
      BY <2>3, <3>1, ForgetsStill DEF NoCall
    <3>. QED
      BY <2>1, <2>2, <3>1, <3>2, FineStays
  <2>5. CASE InsertCallback(t) \/ RemoveCallback(t)
    <3>1. call'[t] = NoCall /\ lost' = lost \cap Held'
      BY <2>3, <2>5 DEF InsertCallback, RemoveCallback
    <3>2. id \in lost => id \in lost'
      BY <1>1, <3>1, HasIsHeld
    <3>3. \A u \in Threads : call'[u].at = "created" => u # t /\ call'[u] = call[u]
      BY <2>3, <3>1 DEF NoCall
    <3>4. id \in known[d] => id \in known'[d]
      <4>1. ASSUME id \in known[d], id \in Created({d})' PROVE FALSE
        <5>1. PICK u \in Threads : call'[u].at = "created" /\ id = call'[u].id
          BY <4>1 DEF Created
        <5>2. call[u].at = "created" /\ id = call[u].id
          BY <3>3, <5>1
        <5>. QED
          BY <4>1, <5>2 DEF OwnedInv, Owned, CreatedOnce
      <4>. QED
        BY <1>1, <4>1 DEF Has
    <3>5. ToForget(d, id) => ToForget(d, id)'
      <4>1. ASSUME NEW u \in Threads, ClientOf[u] = d, call[u].at = "destroyed", call[u].id = id,
                   id \in known[d]
            PROVE  u # t
        <5>1. CASE InsertCallback(t)
          BY <4>1, <5>1 DEF InsertCallback
        <5>2. CASE RemoveCallback(t)
          <6>1. known'[ClientOf[t]] = known[ClientOf[t]] \ {call[t].id}
            BY <2>3, <5>2 DEF RemoveCallback
          <6>. QED
            BY <3>4, <4>1, <6>1
        <5>. QED
          BY <2>5, <5>1, <5>2
      <4>. QED
        BY <2>3, <3>4, <4>1 DEF ToForget
    <3>. QED
      BY <2>1, <2>2, <3>2, <3>5, FineStays
  <2>. QED
    BY <2>4, <2>5
<1>. QED
  BY <1>1

LEMMA KeptStep ==
    ASSUME OwnedInv, HeldInv, KeptInv, [Next]_vars
    PROVE  KeptInv'
<1>1. CASE \E t \in Threads : CreateTimer(t)
  BY <1>1, CreateFine
<1>2. CASE \A t \in Threads : ~CreateTimer(t)
  <2>1. \A d \in Clients : Has(d)' \subseteq Has(d)
    BY <1>2, HeldStays
  <2>2. \A d \in Clients : \A id \in Has(d) : id \in Has(d)' => Fine(d, id)'
    <3>1. CASE UNCHANGED vars
      BY <3>1, FineStays DEF vars, client, service, history, KeptInv, ToForget
    <3>2. CASE Next
      BY <1>2, <3>2, DestroyFine, DestroyCleanupFine, ResyncFine, ResyncInsertFine, AdminFine,
         RemoveDestroyFine, CrashFine, TriggerFine, ClientFine, CallbackFine DEF Next
    <3>. QED
      BY <3>1, <3>2
  <2>. QED
    BY <2>1, <2>2 DEF KeptInv
<1>. QED
  BY <1>1, <1>2

(* A client that has a timer, or was given one that it has not yet put into   *)
(* its map, has an entry and the time service has the timer, or the client is *)
(* to send it again, or the operation that holds adminLock_ accounts for it.  *)
(* Nobody else owns it, and no cleanup of a dead client is at it; if another  *)
(* client had it destroyed, it is counted as lost.                            *)
THEOREM KeptInvariant == Spec => [](HeldInv /\ KeptInv)
<1>1. Init => HeldInv /\ KeptInv
  <2>1. Init => HeldIsIdle /\ KeptInv
    BY DEF Init, HeldIsIdle, KeptInv, Has, Created, NoCall
  <2>. QED
    BY <2>1, InitSound DEF HeldInv
<1>2. OwnedInv /\ HeldInv /\ KeptInv /\ [Next]_vars => HeldInv' /\ KeptInv'
  BY NamesStep, DeadStep, NoticesStep, IdleStep, KeptStep DEF HeldInv
<1>. QED
  BY <1>1, <1>2, OwnedInvariant, PTL DEF Spec

(* What a client has in its map it can start, also after this service was     *)
(* restarted, unless its timer was replaced by one of the same name,          *)
(* destroyed by another process of the administrator or before the client was *)
(* given it, its administrator removed, or it could not be set up again.      *)
THEOREM ClientsCanStart == Spec => []ClientsKeepTimers
<1>1. TypeOK /\ KeptInv => ClientsKeepTimers
  <2>1. ASSUME TypeOK, KeptInv, NEW c \in Clients, NEW id \in known[c] \ lost
        PROVE  \/ timerMap[id] = c /\ id \in timers
               \/ resync[c].due \/ id \in resync[c].items
               \/ op.ids \cap ({id} \cup SameName(id)) # {}
               \/ \E t \in Threads : ClientOf[t] = c /\ call[t] = [at |-> "destroyed", id |-> id]
    <3>1. Kept(c, id)
      BY <2>1 DEF KeptInv, Has, Fine
    <3>2. \A t \in Threads : call[t] = [at |-> call[t].at, id |-> call[t].id]
      BY <2>1 DEF TypeOK
    <3>. QED
      BY <3>1, <3>2 DEF Kept, ToForget
  <2>2. TypeOK => alive \subseteq Clients
    BY DEF TypeOK
  <2>. QED
    BY <2>1, <2>2 DEF ClientsKeepTimers
<1>. QED
  BY <1>1, TimersTyped, KeptInvariant, PTL
=============================================================================
