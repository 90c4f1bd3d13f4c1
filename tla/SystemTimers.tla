---------------------------- MODULE SystemTimers ----------------------------
(* The exact timers of administrators, which live in three places: the map    *)
(* of an administrator's process (EdmClientTimerCallback), that of this       *)
(* service (SystemTimerManager), and the time service, which is external.     *)
(*                                                                            *)
(* What happens under mutex_ is one step, and so is one call to the time      *)
(* service.  All operations of administrators hold adminLock_ throughout;     *)
(* triggers and notices of death come in between.  A client stands for the    *)
(* callback object of one process, which has several threads, an id for a     *)
(* timer with one name.                                                       *)
EXTENDS FiniteSets, Integers

CONSTANTS
    Clients,
    Threads,        \* bound: requests that are on their way at once
    ClientOf,       \* [Threads -> Clients]
    AdminOf,        \* [Clients -> names of administrators]
    Ids,
    NameOf,         \* [Ids -> names of timers]
    None,
    MaxTimers,      \* TIMER_MAX_COUNT_PER_ADMIN
    Env             \* what may happen: the service ("crash") or a client ("die") dies,
                    \* the time service may "refuse", administrators are removed ("remove")

ASSUME TimersAssumption ==
    /\ None \notin Clients \cup Threads \cup Ids
    /\ ClientOf \in [Threads -> Clients]
    /\ MaxTimers \in Nat
    /\ Env \subseteq {"crash", "die", "refuse", "remove"}

VARIABLES
    alive,          \* clients that run
    known,          \* known[c]: callbackMap_ of the client
    call,           \* call[t]: the request of a thread, or the answer on its way
    resync,         \* resync[c]: OnAddSystemAbility is due; items still to be sent
    enabled,        \* administrators
    timerMap,       \* timerMap[id]: whose entry it is, or None
    recipients,     \* recipientMap_
    notices,        \* clients whose death is being announced
    dying,          \* dying[c]: timers OnRemoteDied is about to destroy
    trigger,        \* trigger[id]: where OnTimerTriggered is
    op,             \* what holds adminLock_ between two steps
    timers,         \* timers in the time service that call this process, started or not
    late,           \* history: clients that got an entry after their death was announced
    lost            \* history: timers that a client has but somebody else took away, or
                    \* that were not restored

client == <<alive, known, call, resync>>
service == <<enabled, timerMap, recipients, notices, dying, trigger, op>>
history == <<late, lost>>
vars == <<client, service, timers, history>>

Admins == {AdminOf[c] : c \in Clients}
NoOp == [kind |-> "none", by |-> None, ids |-> {}]
NoCall == [at |-> "none", id |-> None]
Empty == [id \in Ids |-> None]

TypeOK ==
    /\ alive \subseteq Clients
    /\ known \in [Clients -> SUBSET Ids]
    /\ call \in [Threads -> [at : {"none", "create", "created", "destroy", "destroyed"},
                             id : Ids \cup {None}]]
    /\ resync \in [Clients -> [due : BOOLEAN, items : SUBSET Ids]]
    /\ enabled \subseteq Admins
    /\ timerMap \in [Ids -> Clients \cup {None}]
    /\ recipients \subseteq Clients
    /\ notices \subseteq Clients
    /\ dying \in [Clients -> SUBSET Ids]
    /\ trigger \in [Ids -> {"idle", "dead", "destroy"}]
    /\ op \in [kind : {"none", "cleanup", "insert", "remove"},
               by : Threads \cup Clients \cup {None}, ids : SUBSET Ids]
    /\ timers \subseteq Ids
    /\ late \subseteq Clients
    /\ lost \subseteq Ids

Init ==
    /\ alive = {}
    /\ known = [c \in Clients |-> {}]
    /\ call = [t \in Threads |-> NoCall]
    /\ resync = [c \in Clients |-> [due |-> FALSE, items |-> {}]]
    /\ enabled = {}
    /\ timerMap = Empty
    /\ recipients = {}
    /\ notices = {}
    /\ dying = [c \in Clients |-> {}]
    /\ trigger = [id \in Ids |-> "idle"]
    /\ op = NoOp
    /\ timers = {}
    /\ late = {}
    /\ lost = {}

Fault(kind) == kind \in Env
SameName(id) == {d \in Ids \ {id} : NameOf[d] = NameOf[id]}

(* Timers a client has in its map, or has been given.                         *)
Created(C) == {call[t].id : t \in {t \in Threads : call[t].at = "created" /\ ClientOf[t] \in C}}
Held == Created(Clients) \cup UNION {known[c] : c \in Clients}

EntriesOf(a) == {id \in Ids : timerMap[id] # None /\ AdminOf[timerMap[id]] = a}

-----------------------------------------------------------------------------
(* SystemTimerManager *)

(* The time service keeps one timer of each name of this service's user id. *)
TimeServiceCreates(id) == timers' = (timers \ SameName(id)) \cup {id}

(* CleanupTimerLocked of some entries: the recipients of clients that have    *)
(* none left are released, perhaps too late to stop a notice.                 *)
Erased(ids) == [d \in Ids |-> IF d \in ids THEN None ELSE timerMap[d]]

(* mutant: a recipient is released although its client has other entries *)
ReleasedAll(ids) == {timerMap[d] : d \in ids} \ {None}

Released(ids) ==
    {timerMap[d] : d \in ids} \ ({Erased(ids)[d] : d \in Ids} \cup {None})

Cleanup(ids) ==
    /\ timerMap' = Erased(ids)
    /\ recipients' = recipients \ Released(ids)
    /\ notices' \in {notices, notices \ Released(ids)}

(* CleanupSameNameTimerLocked stops at the first entry it finds. *)
Replaced(id) ==
    LET found == {d \in SameName(id) : timerMap[d] # None}
    IN  IF found = {} THEN {} ELSE {CHOOSE d \in found : TRUE}

(* CleanupSameNameTimerLocked and InsertTimerEntryLocked. *)
Insert(c, id) ==
    LET old == Replaced(id) IN
    /\ timerMap' = [Erased(old) EXCEPT ![id] = c]
    /\ recipients' = (recipients \ Released(old)) \cup {c}
    /\ notices' \in {notices, notices \ Released(old)}
    /\ late' = IF c \in alive \cup notices' THEN late ELSE late \cup {c}
    /\ lost' = (lost \ {id}) \cup (old \cap Held)

(* An id that nobody has or asks for stands for a new one. *)
Free(id) ==
    /\ id \notin timers /\ timerMap[id] = None /\ trigger[id] = "idle"
    /\ id \notin op.ids
    /\ \A c \in Clients : id \notin known[c] \cup dying[c] \cup resync[c].items
    /\ \A t \in Threads : call[t].id # id

Answer(t, at, id) ==
    call' = [call EXCEPT ![t] = IF ClientOf[t] \in alive THEN [at |-> at, id |-> id] ELSE NoCall]

(* CreateTimer keeps mutex_ throughout. *)
CreateTimer(t) ==
    LET c == ClientOf[t] IN
    /\ call[t].at = "create"
    /\ op = NoOp
    /\ \/ /\ \/ AdminOf[c] \notin enabled
             \/ Cardinality(EntriesOf(AdminOf[c])) >= MaxTimers
             \/ Fault("refuse")
          /\ Answer(t, "none", None)
          /\ UNCHANGED <<timerMap, recipients, notices, timers, history>>
       \/ /\ AdminOf[c] \in enabled
          /\ Cardinality(EntriesOf(AdminOf[c])) < MaxTimers
          /\ \E id \in Ids :
                /\ Free(id)
                /\ TimeServiceCreates(id)
                /\ Insert(c, id)
                /\ Answer(t, "created", id)
    /\ UNCHANGED <<alive, known, resync, enabled, dying, trigger, op>>

(* DestroyTimer destroys first and forgets then: any timer of the             *)
(* administrator, whichever of its processes made it.                         *)
DestroyTimer(t) ==
    LET a == AdminOf[ClientOf[t]]
        id == call[t].id
    IN
    /\ call[t].at = "destroy"
    /\ op = NoOp
    /\ IF a \in enabled /\ id \in EntriesOf(a)
       THEN /\ timers' = timers \ {id}
            /\ op' = [kind |-> "cleanup", by |-> t, ids |-> {id}]
            /\ UNCHANGED call
       ELSE /\ Answer(t, "none", None)
            /\ UNCHANGED <<timers, op>>
    /\ UNCHANGED <<alive, known, resync, enabled, timerMap, recipients, notices, dying, trigger, history>>

(* Who will not learn from the answer that the timer is gone: another client, *)
(* or one that has not yet been given it.                                     *)
HeldElsewhere(c) == Created(Clients) \cup UNION {known[d] : d \in Clients \ {c}}

DestroyCleanup ==
    /\ op.kind = "cleanup"
    /\ Cleanup(op.ids)
    /\ Answer(op.by, "destroyed", call[op.by].id)
    /\ op' = NoOp
    /\ lost' = lost \cup (op.ids \cap HeldElsewhere(ClientOf[op.by]))
    /\ UNCHANGED <<alive, known, resync, enabled, dying, trigger, timers, late>>

(* ResyncTimer sets a timer up again under its old id, whether or not the     *)
(* time service still has it ...                                              *)
ResyncTimer(c, id) ==
    /\ op = NoOp
    /\ id \in resync[c].items
    /\ resync' = [resync EXCEPT ![c].items = @ \ {id}]
    /\ \/ /\ AdminOf[c] \in enabled
          /\ TimeServiceCreates(id)
          /\ op' = [kind |-> "insert", by |-> c, ids |-> {id}]
          /\ UNCHANGED history
       \/ /\ \/ AdminOf[c] \notin enabled /\ UNCHANGED timers
             \/ AdminOf[c] \in enabled /\ Fault("refuse") /\ timers' = timers \ {id}
          /\ lost' = lost \cup ({id} \cap Held)
          /\ UNCHANGED <<op, late>>
    /\ UNCHANGED <<alive, known, call, enabled, timerMap, recipients, notices, dying, trigger>>

(* ... and makes its entry; it starts the timer if it was started. *)
ResyncInsert ==
    /\ op.kind = "insert"
    /\ \E id \in op.ids : Insert(op.by, id)
    /\ op' = NoOp
    /\ UNCHANGED <<client, enabled, dying, trigger, timers>>

(* The time service calls OnTimerTriggered, which looks for the entry and     *)
(* whether its client is dead.                                                *)
OnTimerTriggered(id) ==
    /\ id \in timers
    /\ trigger[id] = "idle"
    /\ timerMap[id] \notin alive \cup {None}
    /\ trigger' = [trigger EXCEPT ![id] = "dead"]
    /\ UNCHANGED <<client, enabled, timerMap, recipients, notices, dying, op, timers, history>>

(* It cleans up after a dead one, in two steps. *)
TriggerCleanup(id) ==
    /\ trigger[id] = "dead"
    /\ Cleanup({id})
    /\ trigger' = [trigger EXCEPT ![id] = "destroy"]
    /\ UNCHANGED <<client, enabled, dying, op, timers, history>>

(* mutant: the entry of a dead client is forgotten, its timer kept *)
TriggerKeep(id) ==
    /\ trigger[id] = "destroy"
    /\ trigger' = [trigger EXCEPT ![id] = "idle"]
    /\ UNCHANGED <<client, enabled, timerMap, recipients, notices, dying, op, timers, history>>

TriggerDestroy(id) ==
    /\ trigger[id] = "destroy"
    /\ timers' = timers \ {id}
    /\ trigger' = [trigger EXCEPT ![id] = "idle"]
    /\ UNCHANGED <<client, enabled, timerMap, recipients, notices, dying, op, history>>

(* mutant: the timers of all processes of the administrator are taken away *)
OnRemoteDiedOfAdmin(c) ==
    LET ids == EntriesOf(AdminOf[c]) IN
    /\ c \in notices
    /\ dying[c] = {}
    /\ timerMap' = Erased(ids)
    /\ recipients' = recipients \ {c}
    /\ notices' = notices \ {c}
    /\ dying' = [dying EXCEPT ![c] = ids]
    /\ UNCHANGED <<client, enabled, trigger, op, timers, history>>

(* OnRemoteDied forgets first and destroys then. *)
OnRemoteDied(c) ==
    LET ids == {id \in Ids : timerMap[id] = c} IN
    /\ c \in notices
    /\ dying[c] = {}
    /\ timerMap' = Erased(ids)
    /\ recipients' = recipients \ {c}
    /\ notices' = notices \ {c}
    /\ dying' = [dying EXCEPT ![c] = ids]
    /\ UNCHANGED <<client, enabled, trigger, op, timers, history>>

DiedDestroy(c) ==
    /\ dying[c] # {}
    /\ timers' = timers \ dying[c]
    /\ dying' = [dying EXCEPT ![c] = {}]
    /\ UNCHANGED <<client, enabled, timerMap, recipients, notices, trigger, op, history>>

(* Removing an administrator begins with OnAdminRemove, and may fail later. *)
OnAdminRemove(a) ==
    /\ op = NoOp
    /\ a \in enabled
    /\ Fault("remove")
    /\ Cleanup(EntriesOf(a))
    /\ lost' = lost \cup (EntriesOf(a) \cap Held)
    /\ op' = [kind |-> "remove", by |-> None, ids |-> EntriesOf(a)]
    /\ enabled' \in {enabled, enabled \ {a}}
    /\ UNCHANGED <<client, dying, trigger, timers, late>>

RemoveDestroy ==
    /\ op.kind = "remove"
    /\ timers' = timers \ op.ids
    /\ op' = NoOp
    /\ UNCHANGED <<client, enabled, timerMap, recipients, notices, dying, trigger, history>>

EnableAdmin(a) ==
    /\ op = NoOp
    /\ a \notin enabled
    /\ enabled' = enabled \cup {a}
    /\ UNCHANGED <<client, timerMap, recipients, notices, dying, trigger, op, timers, history>>

(* The process of this service dies and is started again: requests fail and   *)
(* clients are told.  If the time service keeps a timer, that calls nobody.    *)
Crash ==
    /\ Fault("crash")
    /\ call' = [t \in Threads |-> IF call[t].at \in {"create", "destroy"} THEN NoCall ELSE call[t]]
    /\ resync' = [c \in Clients |-> [due |-> c \in alive,
                                     items |-> IF c \in alive THEN resync[c].items ELSE {}]]
    /\ timerMap' = Empty
    /\ recipients' = {}
    /\ notices' = {}
    /\ dying' = [c \in Clients |-> {}]
    /\ trigger' = [id \in Ids |-> "idle"]
    /\ op' = NoOp
    /\ timers' = {}
    /\ late' = {}
    /\ UNCHANGED <<alive, known, enabled, lost>>

-----------------------------------------------------------------------------
(* SystemManagerProxy and EdmClientTimerCallback *)

Unused(c) ==
    /\ c \notin alive \cup recipients \cup notices
    /\ resync[c].items = {} /\ dying[c] = {} /\ op.by # c
    /\ \A t \in Threads : ClientOf[t] = c => call[t] = NoCall
    /\ \A id \in Ids : timerMap[id] # c

StartClient(c) ==
    /\ Unused(c)
    /\ alive' = alive \cup {c}
    /\ late' = late \ {c}
    /\ UNCHANGED <<known, call, resync, service, timers, lost>>

(* A client asks for a new timer, or to destroy any that there is: also one   *)
(* of another process, or one that was destroyed before.                      *)
Request(t) ==
    /\ ClientOf[t] \in alive
    /\ call[t] = NoCall
    /\ \/ call' = [call EXCEPT ![t].at = "create"]
       \/ \E id \in Ids :
             ~Free(id) /\ call' = [call EXCEPT ![t] = [at |-> "destroy", id |-> id]]
    /\ UNCHANGED <<alive, known, resync, service, timers, history>>

(* A new timer takes the place of an older one of that name. *)
InsertCallback(t) ==
    LET id == call[t].id IN
    /\ call[t].at = "created"
    /\ known' = [known EXCEPT ![ClientOf[t]] = (@ \ SameName(id)) \cup {id}]
    /\ call' = [call EXCEPT ![t] = NoCall]
    /\ lost' = lost \cap Held'
    /\ UNCHANGED <<alive, resync, service, timers, late>>

RemoveCallback(t) ==
    /\ call[t].at = "destroyed"
    /\ known' = [known EXCEPT ![ClientOf[t]] = @ \ {call[t].id}]
    /\ call' = [call EXCEPT ![t] = NoCall]
    /\ lost' = lost \cap Held'
    /\ UNCHANGED <<alive, resync, service, timers, late>>

(* GetAllResyncItems misses a timer whose creation was answered before the    *)
(* restart and is not yet in the map.                                         *)
OnEdmSaRestart(c) ==
    /\ resync[c].due
    /\ resync[c].items = {}
    /\ resync' = [resync EXCEPT ![c] = [due |-> FALSE, items |-> known[c]]]
    /\ lost' = lost \cup Created({c})
    /\ UNCHANGED <<alive, known, call, service, timers, late>>

(* Requests that are on their way are still executed, and so is an item of    *)
(* OnEdmSaRestart that ResyncTimer has begun with.                            *)
Die(c) ==
    /\ Fault("die")
    /\ c \in alive
    /\ alive' = alive \ {c}
    /\ known' = [known EXCEPT ![c] = {}]
    /\ call' = [t \in Threads |->
                  IF ClientOf[t] # c \/ call[t].at \in {"create", "destroy"} THEN call[t] ELSE NoCall]
    /\ resync' = [resync EXCEPT ![c] = [due |-> FALSE, items |-> {}]]
    /\ notices' = notices \cup (recipients \cap {c})
    /\ lost' = lost \cap Held'
    /\ UNCHANGED <<enabled, timerMap, recipients, dying, trigger, op, timers, late>>

Next ==
    \/ \E c \in Clients :
          \/ (\E id \in Ids : ResyncTimer(c, id))
          \/ OnRemoteDied(c) \/ DiedDestroy(c)
          \/ StartClient(c) \/ OnEdmSaRestart(c) \/ Die(c)
    \/ \E t \in Threads :
          \/ CreateTimer(t) \/ DestroyTimer(t)
          \/ Request(t) \/ InsertCallback(t) \/ RemoveCallback(t)
    \/ \E id \in Ids :
          OnTimerTriggered(id) \/ TriggerCleanup(id) \/ TriggerDestroy(id)
    \/ \E a \in Admins : OnAdminRemove(a) \/ EnableAdmin(a)
    \/ DestroyCleanup \/ ResyncInsert \/ RemoveDestroy \/ Crash

Spec == Init /\ [][Next]_vars

-----------------------------------------------------------------------------

(* Somebody is about to destroy the timer, or to make its entry. *)
Underway(id) ==
    id \in op.ids \/ trigger[id] = "destroy" \/ \E c \in Clients : id \in dying[c]

(* No timer goes off that was set up by this process and has no entry, so     *)
(* that nobody could stop it, however triggers and notices of death meet      *)
(* requests.                                                                  *)
NoStrayTimers ==
    \A id \in Ids : id \in timers => timerMap[id] # None \/ Underway(id)

(* A dead client has no entries, unless its death is about to be announced or *)
(* one was made, for a request still on its way, after that; a recipient is   *)
(* registered exactly for who has an entry, also when several timers share it.*)
DeadAreNoticed ==
    /\ \A id \in Ids : timerMap[id] # None => timerMap[id] \in alive \cup notices \cup late
    /\ recipients = {timerMap[id] : id \in Ids} \ {None}

(* What a client has in its map it can start, also after this service was     *)
(* restarted, unless its timer was replaced by one of the same name,          *)
(* destroyed by another process of the administrator or before the client was *)
(* given it, its administrator removed, or it could not be set up again.  The *)
(* client is not told of any of these: its map is left with what is lost.     *)
ClientsKeepTimers ==
    \A c \in alive : \A id \in known[c] \ lost :
        \/ timerMap[id] = c /\ id \in timers
        \/ resync[c].due \/ id \in resync[c].items
        \/ op.ids \cap ({id} \cup SameName(id)) # {}
        \/ \E t \in Threads : ClientOf[t] = c /\ call[t] = [at |-> "destroyed", id |-> id]
=============================================================================
