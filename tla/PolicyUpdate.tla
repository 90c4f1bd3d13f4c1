---------------------------- MODULE PolicyUpdate ----------------------------
(* How PluginManager changes a policy: UpdateDevicePolicy on behalf of an     *)
(* administrator, RemoveAdminItem while an administrator is disabled, and     *)
(* DispatchForAdmins when an application is uninstalled.  All three read the  *)
(* store, let the plugin act on another system service, and write the store   *)
(* back; they hold different locks while they do it.                          *)
(*                                                                            *)
(* One user.  The store is what PolicyStore promises: each call of            *)
(* PolicyManager is one step (it holds PolicyManager::mutex_ throughout).  A  *)
(* value is a finite set: a list for the array plugins, {} or {On} for the    *)
(* boolean ones.  Only plugins that save their policy are modelled, and only  *)
(* callers without MANAGE_EDM_POLICY, whose administrator is checked.         *)
EXTENDS FiniteSets, Naturals

CONSTANTS
    Threads,        \* binder and event threads of the service
    NoThread,
    Admins,         \* administrators of the user
    Policies,       \* policies, one per plugin
    BoolPolicies,   \* those of a BasicBoolPlugin; the others are arrays
    Values,         \* elements of an array value: application names
    On,             \* the element of a true boolean value
    Groups,         \* stripes: the conflict groups and NONE
    GroupOf,        \* [Policies -> Groups], the ConflictGroupRegistry
    Conflicts,      \* [Policies -> SUBSET Policies]: what CheckConflictPolicy looks at
    MaxListSize,    \* maxListSize_ of the array plugins
    MaxCalls,       \* bound: calls and events in a behaviour
    Actors,         \* which of "set", "disable", "event" happen
    Env             \* which services fail: "external", "parameter", "write"

ASSUME UpdateAssumption ==
    /\ NoThread \notin Threads
    /\ Policies # {}
    /\ BoolPolicies \subseteq Policies
    /\ On \notin Values
    /\ GroupOf \in [Policies -> Groups]
    /\ Conflicts \in [Policies -> SUBSET Policies]
    /\ MaxListSize \in Nat /\ MaxCalls \in Nat
    /\ Actors \subseteq {"set", "disable", "event"}
    /\ Env \subseteq {"external", "parameter", "write"}

VARIABLES
    active,         \* administrators AdminManager knows
    own,            \* own[p][a]: the value administrator a set
    combined,       \* combined[p]: the stored merge
    enforced,       \* enforced[p]: what the other system service applies
    subscribed,     \* policies whose plugin is subscribed to its event
    adminLock,      \* exclusive holder of adminLock_
    mutexLock,      \* holder of mutexLock_
    stripes,        \* holder of each of policyStripes_
    job,            \* what each thread is doing, with its local variables
    calls,          \* calls begun so far
    stale,          \* history: threads whose policy was written since they read its merge
    raced,          \* history: policies whose last writer was stale
    orphaned        \* history: administrators that saved a policy while or after being disabled

store == <<own, combined>>
locks == <<adminLock, mutexLock, stripes>>
history == <<stale, raced, orphaned>>
vars == <<active, store, enforced, subscribed, locks, job, calls, history>>

Value == SUBSET (Values \cup {On})
Thread == Threads \cup {NoThread}
Idle == [pc |-> "idle"]

(* Local variables: of UpdateDevicePolicy, of DisableAdmin and the           *)
(* RemoveAdminItem it is in, and of DispatchForAdmins.                       *)
SetJob == [pc: {"find", "enter", "merge", "execute", "save", "announce"},
           admin: Admins, policy: Policies, op: {"set", "remove"}, data: Value,
           held: Value, merged: Value]
DisableJob == [pc: {"items", "unenforce", "lookup", "drop", "recheck", "unsubscribe"},
               admin: Admins, values: [Policies -> Value], todo: SUBSET Policies,
               policy: Policies, merged: Value, alone: BOOLEAN]
EventJob == [pc: {"take", "each", "rewrite", "cancel"},
             policy: Policies, app: Values, values: [Admins -> Value],
             todo: SUBSET Admins, admin: Admins, merged: Value]

TypeOK ==
    /\ active \subseteq Admins
    /\ own \in [Policies -> [Admins -> Value]]
    /\ combined \in [Policies -> Value]
    /\ enforced \in [Policies -> Value]
    /\ subscribed \subseteq Policies
    /\ adminLock \in Thread /\ mutexLock \in Thread
    /\ stripes \in [Groups -> Thread]
    /\ \A t \in Threads : job[t] \in {Idle} \cup SetJob \cup DisableJob \cup EventJob
    /\ calls \in 0..MaxCalls
    /\ stale \subseteq Threads
    /\ raced \subseteq Policies
    /\ orphaned \subseteq Admins

Init ==
    /\ active = Admins
    /\ own = [p \in Policies |-> [a \in Admins |-> {}]]
    /\ combined = [p \in Policies |-> {}]
    /\ enforced = [p \in Policies |-> {}]
    /\ subscribed = {}
    /\ adminLock = NoThread /\ mutexLock = NoThread
    /\ stripes = [g \in Groups |-> NoThread]
    /\ job = [t \in Threads |-> Idle]
    /\ calls = 0
    /\ stale = {} /\ raced = {} /\ orphaned = {}

-----------------------------------------------------------------------------
(* What the store answers *)

Merge(p) == UNION {own[p][a] : a \in Admins}

(* mutant: the administrator's own value is merged too *)
OthersAndOwn(p, a) == Merge(p)

(* GetOthersMergePolicyData: the union over the other administrators. *)
Others(p, a) == UNION {own[p][b] : b \in Admins \ {a}}

(* GetAdminByPolicyName finds nobody. *)
Unset(p) == \A a \in Admins : own[p][a] = {}

-----------------------------------------------------------------------------
(* What the plugins do: from the administrator's value, the merge of the     *)
(* others and what is enforced to the values to store.                       *)

Done(v, m, e) == [ok |-> TRUE, own |-> v, merged |-> m, enforced |-> e]
Failed(e) == [ok |-> FALSE, own |-> {}, merged |-> {}, enforced |-> e]

(* Elements the other service may refuse. *)
Refused(s) == IF "external" \in Env THEN SUBSET s ELSE {{}}

(* CheckConflictPolicy: the merge of a policy that excludes this one is not empty. *)
Conflicting(p) == \E q \in Conflicts[p] : combined[q] # {}

(* BasicBoolPlugin::OnSetPolicy.  The service may refuse; setting the system *)
(* parameter may fail after the service accepted.                            *)
SetBool(p, d, others) ==
    IF others # {} THEN {Done(d, others, enforced[p])}
    ELSE IF d # {} /\ Conflicting(p) THEN {Failed(enforced[p])}
    ELSE {Done(d, d, d)}
            \cup (IF "external" \in Env THEN {Failed(enforced[p])} ELSE {})
            \cup (IF "parameter" \in Env THEN {Failed(d)} ELSE {})

(* mutant: the limit is that of one administrator's list, not of the merge *)
AddBeyondLimit(p, d, held, others) ==
    IF Cardinality(held \cup d) > MaxListSize THEN {Failed(enforced[p])}
    ELSE {Done(held \cup d, others \cup held \cup d, enforced[p] \cup d)}

(* BasicArrayStringPlugin::OnBasicSetPolicy. *)
AddElements(p, d, held, others) ==
    LET fresh == (d \ held) \ others IN
    IF Cardinality(d) > MaxListSize \/ Cardinality(others \cup held \cup d) > MaxListSize
    THEN {Failed(enforced[p])}
    ELSE {Done((held \cup d) \ f, (others \cup held \cup d) \ f, enforced[p] \cup (fresh \ f))
            : f \in Refused(fresh)}
         \cup (IF "external" \in Env /\ fresh # {} THEN {Failed(enforced[p])} ELSE {})

(* mutant: elements other administrators still want are taken away too *)
RemoveForAll(p, d, held, others) ==
    {Done(held \ d, others \cup (held \ d), enforced[p] \ d)}

(* BasicArrayStringPlugin::OnBasicRemovePolicy. *)
RemoveElements(p, d, held, others) ==
    LET gone == (d \cap held) \ others IN
    IF Cardinality(d) > MaxListSize THEN {Failed(enforced[p])}
    ELSE {Done(held \ ((d \cap held) \ f),
               others \cup (held \ ((d \cap held) \ f)),
               enforced[p] \ (gone \ f)) : f \in Refused(gone)}
         \cup (IF "external" \in Env /\ gone # {} THEN {Failed(enforced[p])} ELSE {})

Outcomes(j) ==
    IF j.policy \in BoolPolicies THEN SetBool(j.policy, j.data, j.merged)
    ELSE IF j.op = "set" THEN AddElements(j.policy, j.data, j.held, j.merged)
    ELSE RemoveElements(j.policy, j.data, j.held, j.merged)

(* OnAdminRemove: what stays enforced once the administrator's value goes. *)
AfterRemoval(p, v, others) ==
    IF p \in BoolPolicies
    THEN IF others = {} /\ v # {}
         THEN {{}} \cup (IF "external" \in Env THEN {enforced[p]} ELSE {})
         ELSE {enforced[p]}
    ELSE {enforced[p] \ ((v \ others) \ f) : f \in Refused(v \ others)}

(* What a call may ask for.  An empty list changes nothing and is left out. *)
Requests(p) ==
    IF p \in BoolPolicies THEN {[op |-> "set", data |-> d] : d \in {{}, {On}}}
    ELSE [op: {"set", "remove"}, data: SUBSET Values \ {{}}]

-----------------------------------------------------------------------------
(* Locks *)

Goto(t, pc) == job' = [job EXCEPT ![t].pc = pc]
Finish(t) == job' = [job EXCEPT ![t] = Idle]
Budget(actor) == actor \in Actors /\ calls < MaxCalls /\ calls' = calls + 1

StripeOf(p) == GroupOf[p]

(* mutant: the stripe is not waited for *)
StripeFreeAlways(p) == TRUE

StripeFree(p) == stripes[StripeOf(p)] = NoThread
Lock(t, p) == stripes' = [stripes EXCEPT ![StripeOf(p)] = t]

(* mutant: the stripe is kept *)
UnlockNothing(t) == UNCHANGED stripes

Unlock(t) == stripes' = [g \in Groups |-> IF stripes[g] = t THEN NoThread ELSE stripes[g]]

(* SetPolicy: the combined value, then the administrator's, either of which  *)
(* may fail to be written.  saved says whether the call succeeds: its result *)
(* is that of the administrator's half.                                      *)
SetPolicy(p, a, v, m, saved) ==
    /\ combined' = [combined EXCEPT ![p] = m] \/ ("write" \in Env /\ UNCHANGED combined)
    /\ IF saved THEN own' = [own EXCEPT ![p][a] = v]
                ELSE "write" \in Env /\ UNCHANGED own

-----------------------------------------------------------------------------
(* UpdateDevicePolicy *)

(* The administrator is checked under the shared adminLock_, which is        *)
(* released before UpdateDevicePolicy is called.                             *)
BeginSet(t, a, p, r) ==
    /\ job[t] = Idle /\ Budget("set")
    /\ adminLock = NoThread
    /\ a \in active
    /\ job' = [job EXCEPT ![t] = [pc |-> "find", admin |-> a, policy |-> p, op |-> r.op,
                                  data |-> r.data, held |-> {}, merged |-> {}]]
    /\ UNCHANGED <<active, store, enforced, subscribed, locks, history>>

(* Phase 1: look the plugin up under mutexLock_. *)
Find(t) ==
    /\ job[t].pc = "find"
    /\ mutexLock = NoThread
    /\ Goto(t, "enter")
    /\ UNCHANGED <<active, store, enforced, subscribed, locks, calls, history>>

(* Phase 2: take the stripe of the conflict group and read the own value. *)
Enter(t) ==
    /\ job[t].pc = "enter"
    /\ LET p == job[t].policy IN
       /\ StripeFree(p)
       /\ Lock(t, p)
       /\ job' = [job EXCEPT ![t].pc = "merge", ![t].held = own[p][job[t].admin]]
    /\ UNCHANGED <<active, store, enforced, subscribed, adminLock, mutexLock, calls, history>>

ReadOthers(t) ==
    /\ job[t].pc = "merge"
    /\ job' = [job EXCEPT ![t].pc = "execute",
                          ![t].merged = Others(job[t].policy, job[t].admin)]
    /\ UNCHANGED <<active, store, enforced, subscribed, locks, calls, history>>

(* OnSetExecute: a refusal ends the call, and so does a value that did not   *)
(* change (isChanged).                                                       *)
Execute(t) ==
    /\ job[t].pc = "execute"
    /\ \E o \in Outcomes(job[t]) :
          /\ enforced' = [enforced EXCEPT ![job[t].policy] = o.enforced]
          /\ IF o.ok /\ o.own # job[t].held
             THEN /\ job' = [job EXCEPT ![t].pc = "save", ![t].held = o.own,
                                        ![t].merged = o.merged]
                  /\ UNCHANGED <<stripes, stale>>
             ELSE Finish(t) /\ Unlock(t) /\ stale' = stale \ {t}
    /\ UNCHANGED <<active, store, subscribed, adminLock, mutexLock, calls, raced, orphaned>>

(* Thread t writes p: every other thread that has read the merge of p and    *)
(* has not written it yet is stale from now on.                              *)
Readers(p) ==
    {t \in Threads : /\ job[t].pc \in {"execute", "save", "unenforce", "lookup", "drop", "rewrite"}
                     /\ job[t].policy = p}
Wrote(t, p) ==
    /\ stale' = (stale \cup Readers(p)) \ {t}
    /\ raced' = IF t \in stale THEN raced \cup {p} ELSE raced \ {p}

BeingDisabled(a) == \E t \in Threads : adminLock = t /\ job[t].admin = a

(* Phase 3: store the values; the result of SetPolicy is ignored. *)
Save(t) ==
    /\ job[t].pc = "save"
    /\ LET p == job[t].policy  a == job[t].admin IN
       /\ \E saved \in BOOLEAN : SetPolicy(p, a, job[t].held, job[t].merged, saved)
       /\ Wrote(t, p)
       /\ orphaned' = IF a \notin active \/ BeingDisabled(a) THEN orphaned \cup {a} ELSE orphaned
    /\ Goto(t, "announce")
    /\ UNCHANGED <<active, enforced, subscribed, locks, calls>>

(* mutant: the administrator's value decides, not the merge *)
AnnounceOwn(t) ==
    /\ job[t].pc = "announce"
    /\ subscribed' = IF job[t].held = {} THEN subscribed \ {job[t].policy}
                     ELSE subscribed \cup {job[t].policy}
    /\ Unlock(t)
    /\ Finish(t)
    /\ UNCHANGED <<active, store, enforced, adminLock, mutexLock, calls, history>>

(* Subscribe the plugin to its event, or unsubscribe it when the merge is    *)
(* empty; then release the stripe.                                           *)
Announce(t) ==
    /\ job[t].pc = "announce"
    /\ subscribed' = IF job[t].merged = {} THEN subscribed \ {job[t].policy}
                     ELSE subscribed \cup {job[t].policy}
    /\ Unlock(t)
    /\ Finish(t)
    /\ UNCHANGED <<active, store, enforced, adminLock, mutexLock, calls, history>>

-----------------------------------------------------------------------------
(* DisableAdmin and RemoveAdminItem *)

(* DoDisableAdmin holds adminLock_ exclusively and reads the policies of the *)
(* administrator once (GetAllPolicyByAdmin).                                 *)
BeginDisable(t, a) ==
    /\ job[t] = Idle /\ Budget("disable")
    /\ adminLock = NoThread
    /\ a \in active
    /\ adminLock' = t
    /\ job' = [job EXCEPT ![t] =
                 [pc |-> "items", admin |-> a, values |-> [p \in Policies |-> own[p][a]],
                  todo |-> {p \in Policies : own[p][a] # {}},
                  policy |-> CHOOSE p \in Policies : TRUE, merged |-> {}, alone |-> FALSE]]
    /\ UNCHANGED <<active, store, enforced, subscribed, mutexLock, stripes, history>>

(* RemoveAdminItem takes mutexLock_, not the stripe, and reads the merge of  *)
(* the others.                                                               *)
TakeItem(t, p) ==
    /\ job[t].pc = "items" /\ p \in job[t].todo
    /\ mutexLock = NoThread
    /\ mutexLock' = t
    /\ job' = [job EXCEPT ![t].pc = "unenforce", ![t].policy = p,
                          ![t].merged = Others(p, job[t].admin)]
    /\ UNCHANGED <<active, store, enforced, subscribed, adminLock, stripes, calls, history>>

(* OnAdminRemoveExecute; its failure is only logged. *)
Unenforce(t) ==
    /\ job[t].pc = "unenforce"
    /\ LET p == job[t].policy IN
       \E e \in AfterRemoval(p, job[t].values[p], job[t].merged) :
          enforced' = [enforced EXCEPT ![p] = e]
    /\ Goto(t, "lookup")
    /\ UNCHANGED <<active, store, subscribed, locks, calls, history>>

(* mutant: only the other administrators count *)
LookupOthers(t) ==
    /\ job[t].pc = "lookup"
    /\ job' = [job EXCEPT ![t].pc = "drop",
                          ![t].alone = (Others(job[t].policy, job[t].admin) = {})]
    /\ UNCHANGED <<active, store, enforced, subscribed, locks, calls, history>>

(* GetAdminByPolicyName decides what is written. *)
Lookup(t) ==
    /\ job[t].pc = "lookup"
    /\ job' = [job EXCEPT ![t].pc = "drop", ![t].alone = Unset(job[t].policy)]
    /\ UNCHANGED <<active, store, enforced, subscribed, locks, calls, history>>

(* mutant: the administrator's own entry is forgotten *)
DropMergeOnly(t) ==
    /\ job[t].pc = "drop"
    /\ combined' = [combined EXCEPT ![job[t].policy] = job[t].merged]
    /\ Wrote(t, job[t].policy)
    /\ Goto(t, "recheck")
    /\ UNCHANGED <<active, own, enforced, subscribed, locks, calls, orphaned>>

(* The administrator's value goes and the merge of the others, read before,  *)
(* is stored; with nobody left only the combined value is cleared.  A write  *)
(* that fails aborts DisableAdmin, which leaves the administrator enabled.   *)
Drop(t) ==
    /\ job[t].pc = "drop"
    /\ LET p == job[t].policy  a == job[t].admin IN
       /\ \E saved \in BOOLEAN :
             /\ IF job[t].alone
                THEN /\ IF saved THEN combined' = [combined EXCEPT ![p] = {}]
                                 ELSE "write" \in Env /\ UNCHANGED combined
                     /\ UNCHANGED own
                ELSE SetPolicy(p, a, {}, job[t].merged, saved)
             /\ IF saved THEN Goto(t, "recheck") /\ UNCHANGED <<adminLock, mutexLock>>
                         ELSE Finish(t) /\ adminLock' = NoThread /\ mutexLock' = NoThread
       /\ Wrote(t, p)
    /\ UNCHANGED <<active, enforced, subscribed, stripes, calls, orphaned>>

(* The plugin is unsubscribed if the combined value reads empty afterwards. *)
Recheck(t) ==
    /\ job[t].pc = "recheck"
    /\ IF combined[job[t].policy] = {}
       THEN Goto(t, "unsubscribe") /\ UNCHANGED mutexLock
       ELSE /\ job' = [job EXCEPT ![t].pc = "items", ![t].todo = @ \ {job[t].policy}]
            /\ mutexLock' = NoThread
    /\ UNCHANGED <<active, store, enforced, subscribed, adminLock, stripes, calls, history>>

Unsubscribe(t) ==
    /\ job[t].pc = "unsubscribe"
    /\ subscribed' = subscribed \ {job[t].policy}
    /\ job' = [job EXCEPT ![t].pc = "items", ![t].todo = @ \ {job[t].policy}]
    /\ mutexLock' = NoThread
    /\ UNCHANGED <<active, store, enforced, adminLock, stripes, calls, history>>

EndDisable(t) ==
    /\ job[t].pc = "items" /\ job[t].todo = {}
    /\ active' = active \ {job[t].admin}
    /\ adminLock' = NoThread
    /\ Finish(t)
    /\ UNCHANGED <<store, enforced, subscribed, mutexLock, stripes, calls, history>>

(* EnableAdmin of a disabled administrator: one step under adminLock_. *)
Enable(a) ==
    /\ Budget("disable")
    /\ adminLock = NoThread
    /\ a \notin active
    /\ active' = active \cup {a}
    /\ UNCHANGED <<store, enforced, subscribed, locks, job, history>>

-----------------------------------------------------------------------------
(* DispatchPluginEvent of a removed application, as the plugins that keep    *)
(* lists of applications handle it (OnPluginEvent of ManageKeepAliveApps).   *)

(* The application disappears from the other service by itself; the router   *)
(* copied its entries before it calls the plugin manager.                    *)
BeginEvent(t, p, x) ==
    /\ job[t] = Idle /\ Budget("event")
    /\ p \in subscribed \ BoolPolicies
    /\ enforced' = [enforced EXCEPT ![p] = @ \ {x}]
    /\ job' = [job EXCEPT ![t] =
                 [pc |-> "take", policy |-> p, app |-> x, values |-> [a \in Admins |-> {}],
                  todo |-> {}, admin |-> CHOOSE a \in Admins : TRUE, merged |-> {}]]
    /\ UNCHANGED <<active, store, subscribed, locks, history>>

(* DispatchForAdmins: the values of all administrators are read once. *)
TakeEvent(t) ==
    /\ job[t].pc = "take"
    /\ mutexLock = NoThread
    /\ mutexLock' = t
    /\ LET v == own[job[t].policy] IN
       job' = [job EXCEPT ![t].pc = "each", ![t].values = v,
                          ![t].todo = {a \in Admins : v[a] # {}}]
    /\ UNCHANGED <<active, store, enforced, subscribed, adminLock, stripes, calls, history>>

EventMerge(t, a) ==
    /\ job[t].pc = "each" /\ a \in job[t].todo
    /\ job' = [job EXCEPT ![t].pc = "rewrite", ![t].admin = a,
                          ![t].merged = Others(job[t].policy, a)]
    /\ UNCHANGED <<active, store, enforced, subscribed, locks, calls, history>>

(* What the handler leaves in mergePolicyData: it returns early, and leaves  *)
(* the merge of the others, when the application is not in the value.        *)
HandledMerge(j) ==
    IF j.app \in j.values[j.admin] THEN j.merged \cup (j.values[j.admin] \ {j.app}) ELSE j.merged

Rewrite(t) ==
    /\ job[t].pc = "rewrite"
    /\ LET p == job[t].policy  a == job[t].admin  m == HandledMerge(job[t]) IN
       /\ \E saved \in BOOLEAN :
             SetPolicy(p, a, job[t].values[a] \ {job[t].app}, m, saved)
       /\ job' = [job EXCEPT ![t].pc = IF m = {} THEN "cancel" ELSE "each",
                             ![t].todo = @ \ {a}]
       /\ Wrote(t, p)
    /\ UNCHANGED <<active, enforced, subscribed, locks, calls, orphaned>>

Cancel(t) ==
    /\ job[t].pc = "cancel"
    /\ subscribed' = subscribed \ {job[t].policy}
    /\ Goto(t, "each")
    /\ UNCHANGED <<active, store, enforced, locks, calls, history>>

(* mutant: the lock is kept *)
EndEventLocked(t) ==
    /\ job[t].pc = "each" /\ job[t].todo = {}
    /\ Finish(t)
    /\ UNCHANGED <<active, store, enforced, subscribed, locks, calls, history>>

EndEvent(t) ==
    /\ job[t].pc = "each" /\ job[t].todo = {}
    /\ mutexLock' = NoThread
    /\ Finish(t)
    /\ UNCHANGED <<active, store, enforced, subscribed, adminLock, stripes, calls, history>>

-----------------------------------------------------------------------------
SetStep(t) == Find(t) \/ Enter(t) \/ ReadOthers(t) \/ Execute(t) \/ Save(t) \/ Announce(t)
DisableStep(t) ==
    \/ \E p \in Policies : TakeItem(t, p)
    \/ Unenforce(t) \/ Lookup(t) \/ Drop(t) \/ Recheck(t) \/ Unsubscribe(t) \/ EndDisable(t)
EventStep(t) ==
    \/ TakeEvent(t) \/ Rewrite(t) \/ Cancel(t) \/ EndEvent(t)
    \/ \E a \in Admins : EventMerge(t, a)
Step(t) == SetStep(t) \/ DisableStep(t) \/ EventStep(t)

Begin(t) ==
    \/ \E a \in Admins, p \in Policies : \E r \in Requests(p) : BeginSet(t, a, p, r)
    \/ \E a \in Admins : BeginDisable(t, a)
    \/ \E p \in Policies, x \in Values : BeginEvent(t, p, x)

Next == (\E t \in Threads : Begin(t) \/ Step(t)) \/ (\E a \in Admins : Enable(a))

Spec == Init /\ [][Next]_vars

(* The scheduler runs every thread that can run.  The locks need not be fair *)
(* because a behaviour makes at most MaxCalls calls.                         *)
FairSpec == Spec /\ \A t \in Threads : WF_vars(Step(t))

-----------------------------------------------------------------------------
(* Properties *)

Quiet(p) == stripes[StripeOf(p)] = NoThread

(* While nobody updates its group, the stored merge of a policy is the union *)
(* of what its administrators set: read-merge-write of UpdateDevicePolicy    *)
(* never works on values another update changed meanwhile.                   *)
MergeIsUnion == \A p \in Policies : Quiet(p) => combined[p] = Merge(p)

(* What the other service applies of a list is the stored merge, also when   *)
(* it refused some of the elements it was asked for; a boolean can stay      *)
(* enforced without being stored when its system parameter fails to be set.  *)
EnforcedIsMerge ==
    \A p \in Policies \ BoolPolicies : Quiet(p) => enforced[p] = combined[p]

(* A plugin listens to its event exactly as long as its policy is set; after *)
(* a restart RestorePluginSubscriptions relies on the same equivalence.      *)
SubscribedWhenSet == \A p \in Policies : Quiet(p) => (p \in subscribed <=> combined[p] # {})

(* Policies that exclude each other are never both in force: the check of    *)
(* one (CheckConflictPolicy) and the writing of the other share a stripe.    *)
ConflictsExcluded ==
    \A p \in Policies : \A q \in Conflicts[p] : combined[p] = {} \/ combined[q] = {}

(* A call that adds elements loses none of those its administrator already   *)
(* has, one that removes elements brings none back, whatever other threads   *)
(* do for the same administrator.                                            *)
NoLostUpdate ==
    [][\A t \in Threads :
          job[t].pc = "save" /\ job'[t].pc = "announce" /\ job[t].policy \notin BoolPolicies =>
             LET p == job[t].policy  a == job[t].admin IN
             IF job[t].op = "set" THEN own[p][a] \subseteq own'[p][a]
                                  ELSE own'[p][a] \subseteq own[p][a]]_vars

(* As long as administrators only set policies and writes succeed, nobody can *)
(* tell that a call reads, lets the plugin act and writes in steps of its     *)
(* own: values and merges change as if each call took effect at once, lists   *)
(* stay within their limit, and no boolean is set against one it excludes.    *)
Shared == INSTANCE SharedPolicies WITH wanted <- own, merged <- combined
UpdatesAreAtomic == Shared!SharedSpec

(* Thread u has the lock that t needs next; an idle thread needs adminLock_  *)
(* to begin.                                                                 *)
WaitsFor(t, u) ==
    \/ job[t].pc = "idle" /\ adminLock = u
    \/ job[t].pc \in {"find", "take"} /\ mutexLock = u
    \/ job[t].pc = "items" /\ job[t].todo # {} /\ mutexLock = u
    \/ job[t].pc = "enter" /\ stripes[StripeOf(job[t].policy)] = u

(* Sets, removals and events take adminLock_, mutexLock_ and the stripes in  *)
(* different orders and give them back on every path, also when a write      *)
(* fails: who is waited for is at work, and waits at most for one that waits *)
(* for nobody.                                                               *)
WaitsEnd ==
    \A t, u \in Threads : WaitsFor(t, u) =>
       /\ job[u] # Idle
       /\ \A v \in Threads : WaitsFor(u, v) => \A w \in Threads : ~WaitsFor(v, w)

(* RemoveAdminItem holds no stripe, so the merge can go wrong, but only when *)
(* its read and its write enclose another write of the policy or the         *)
(* reverse; the next undisturbed write puts it right.                        *)
MergeUnlessRaced == \A p \in Policies \ raced : combined[p] = Merge(p)

(* A disabled administrator has policies left only if one of its own calls,  *)
(* checked before, was still saving when it was disabled.                    *)
OrphansWereOvertaken ==
    \A a \in Admins \ active, p \in Policies : own[p][a] # {} => a \in orphaned

(* No call waits forever: adminLock_, mutexLock_ and the stripes are never   *)
(* waited for in a cycle and always released, on every path.                 *)
EveryCallReturns == \A t \in Threads : job[t] # Idle ~> job[t] = Idle
=============================================================================
