---------------------------- MODULE AdminRegistry ----------------------------
(* Administrators: AdminManager's map in memory, the table admin_policies,    *)
(* and the operations of EnterpriseDeviceMgrAbility that enable, authorize,   *)
(* delegate, replace and remove them under adminLock_.                        *)
(*                                                                            *)
(* A removal walks over administrators and users and can fail or be cut off   *)
(* by the death of the process after each of them, so it is a job of several  *)
(* steps; every other operation is one step, or two when it writes            *)
(* persist.edm.edm_enable after the table.  Two calls look administrators up  *)
(* before they take the lock, and the calls that set policies give it back    *)
(* before they store them.                                                    *)
(*                                                                            *)
(* Permissions of the caller are not modelled: a caller may have any.  An     *)
(* application has one administrator ability.  Where the code takes the first *)
(* super administrator of the list, the model takes any.                      *)
EXTENDS FiniteSets, Naturals

CONSTANTS
    Users,      \* accounts
    Default,    \* DEFAULT_USER_ID
    Names,      \* bundle names
    NoName,     \* no parent
    MaxCount,   \* MAX_SDA_AND_DA_COUNT
    Holders,    \* bound: the bundles that set policies
    Calls,      \* operations that happen, see Operations
    Env         \* "write": a write may fail, "replace": one of a replacement's may,
                \* "crash": the process may die, "overtaken": a call may wait for
                \* adminLock_ between its checks and its effect

Operations == {"enable", "device", "authorize", "delegate", "delegateAny", "disable",
               "replace", "keep", "mode", "package", "user", "policy"}

ASSUME RegistryAssumption ==
    /\ Default \in Users
    /\ NoName \notin Names
    /\ MaxCount \in Nat
    /\ Holders \subseteq Names
    /\ Calls \subseteq Operations
    /\ Env \subseteq {"write", "replace", "crash", "overtaken"}

VARIABLES
    up,         \* the service runs
    admins,     \* AdminContainer::admins_
    rows,       \* table admin_policies
    policies,   \* <<n, u>>: administrator n has policies stored for user u
    saving,     \* the same of calls that found their administrator and have to store
    late,       \* history: stored as the administrator was going or gone
    edm,        \* persist.edm.edm_enable
    job,        \* the operation that holds adminLock_ for several steps
    checked,    \* the calls that made their checks and wait for adminLock_
    removeMenu  \* isNeedRemoveSettigsMenu_

vars == <<up, admins, rows, policies, saving, late, edm, job, checked, removeMenu>>
stored == <<policies, saving, late>>
registry == <<admins, rows>>

Types == {"ENT", "NORMAL", "BYOD", "SUB", "VIRTUAL"}
Modes == {"default", "multi"}
Admin == [user: Users, name: Names, type: Types, parent: Names \cup {NoName},
          debug: BOOLEAN, mode: Modes]

NewAdmin(u, n, t, p, d) ==
    [user |-> u, name |-> n, type |-> t, parent |-> p, debug |-> d, mode |-> "default"]

Pairs == Names \X Users

(* A job: what it is for, the pairs still to be removed, the administrator    *)
(* that goes last, debug administrators whose turn comes later, the           *)
(* administrator to be set afterwards, and whether a removal failed.          *)
NoJob == [goal |-> "none"]
Job == [goal: {"disable", "package", "user", "delegate", "boot", "replace", "announce"},
        todo: SUBSET Pairs, last: Names \cup {NoName}, queue: SUBSET Names,
        new: Names \cup {NoName}, failed: BOOLEAN]
NewJob(goal, todo, last) ==
    [goal |-> goal, todo |-> todo, last |-> last, queue |-> {}, new |-> NoName, failed |-> FALSE]
Announce == NewJob("announce", {}, NoName)

Call == [op: {"replace", "keep", "disableDevice"}, old: Names, new: Names]

TypeOK ==
    /\ up \in BOOLEAN
    /\ admins \subseteq Admin
    /\ rows \subseteq Admin
    /\ policies \subseteq Pairs
    /\ saving \subseteq Pairs /\ late \subseteq Pairs
    /\ edm \in BOOLEAN
    /\ job \in {NoJob} \cup Job
    /\ checked \subseteq Call
    /\ removeMenu \in BOOLEAN

Init ==
    /\ up = TRUE
    /\ admins = {} /\ rows = {}
    /\ policies = {} /\ saving = {} /\ late = {}
    /\ edm = FALSE
    /\ job = NoJob
    /\ checked = {}
    /\ removeMenu = FALSE

-----------------------------------------------------------------------------
(* What AdminManager answers *)

(* IsAllowedAcrossAccountSetPolicy *)
Across(a) == a.type # "BYOD"

At(s, n, u) == {a \in s : a.user = u /\ a.name = n}

(* GetAdminByPkgName: for another user than the default one, an administrator *)
(* of the default user that may act across accounts comes first.              *)
Lookup(n, u) ==
    LET across == {a \in At(admins, n, Default) : Across(a)} IN
    IF u # Default /\ across # {} THEN across ELSE At(admins, n, u)

Supers == {a \in admins : a.user = Default /\ a.type = "ENT"}

(* GetSuperDeviceAdminAndDeviceAdminCount counts these. *)
Counted == {a \in admins : a.user = Default /\ a.type \in {"ENT", "NORMAL"}}

(* mutant: device administrators are not counted *)
FullOfSupers == Cardinality(Supers) >= MaxCount

Full == Cardinality(Counted) >= MaxCount

(* mutant: only the default user's administrators are looked at *)
OfDebugAtDefault(d) == {a \in admins : a.debug = d /\ a.user = Default}

(* IsExistTargetAdmin *)
OfDebug(d) == {a \in admins : a.debug = d}

OfficialSupers == {a \in admins : a.user = Default /\ a.type = "ENT" /\ ~a.debug}

(* mutant: debug super administrators are looked for instead *)
SuperExistAsDebug == \E a \in Supers : a.debug

(* IsSuperAdminExist *)
IsSuperAdminExist == OfficialSupers # {}

(* GetSubSuperAdminsByParentName *)
Subs(p) == {a.name : a \in {b \in admins : /\ b.user = Default
                                           /\ b.type \in {"SUB", "VIRTUAL"}
                                           /\ b.parent = p}}

-----------------------------------------------------------------------------
(* SetAdminValue.  A write that fails changes nothing and is left out. *)

UpdateAdmin(s, u, e) ==
    {IF a.user = u /\ a.name = e.name THEN [a EXCEPT !.mode = e.mode] ELSE a : a \in s}

(* mutant: an administrator that is there is inserted again *)
StoreAgain(u, e) ==
    /\ admins' = admins \cup {e}
    /\ rows' = rows \cup {e}

(* An administrator that is found is updated, if user u has it; the table     *)
(* keeps its running mode when the new one is the default.                    *)
Store(u, e) ==
    IF Lookup(e.name, u) = {}
    THEN admins' = admins \cup {e} /\ rows' = rows \cup {e}
    ELSE /\ admins' = UpdateAdmin(admins, u, e)
         /\ rows' = IF e.mode = "default" THEN rows ELSE UpdateAdmin(rows, u, e)

(* adminLock_ is free.  Without "overtaken" a call that made its checks comes *)
(* next.                                                                      *)
Free(op) ==
    /\ op \in Calls
    /\ up /\ job = NoJob
    /\ checked = {} \/ "overtaken" \in Env

-----------------------------------------------------------------------------
(* Enabling *)

(* VerifyEnableAdminCondition *)
MayEnable(n, t, u, d) ==
    /\ t = "ENT" => u = Default
    /\ OfDebug(~d) = {}
    /\ \A a \in Lookup(n, u) : a.type = t

(* EnableAdminWithPermission: super and device administrators are stored for  *)
(* the default user; the parameter is set once the table is written.          *)
EnableAdmin(n, t, u, d) ==
    /\ Free("enable")
    /\ ~Full
    /\ MayEnable(n, t, u, d)
    /\ ~d /\ t = "ENT" /\ IsSuperAdminExist => Lookup(n, u) # {}
    /\ LET v == IF t = "BYOD" THEN u ELSE Default IN Store(v, NewAdmin(v, n, t, NoName, d))
    /\ job' = Announce
    /\ UNCHANGED <<up, stored, edm, checked, removeMenu>>

(* EnableDeviceAdmin by super administrator c. *)
EnableDeviceAdmin(c, n) ==
    /\ Free("device")
    /\ ~Full
    /\ At(admins, n, Default) = {}
    /\ \E s \in At(Supers, c, Default) : Store(Default, NewAdmin(Default, n, "NORMAL", NoName, s.debug))
    /\ job' = Announce
    /\ UNCHANGED <<up, stored, edm, checked, removeMenu>>

(* AuthorizeAdmin: c makes n a sub super administrator; user is the current one. *)
AuthorizeAdmin(c, n, user) ==
    /\ Free("authorize")
    /\ \A a \in Lookup(n, user) : a.type = "SUB"
    /\ \E s \in Lookup(c, user) :
          s.type = "ENT" /\ Store(Default, NewAdmin(Default, n, "SUB", c, s.debug))
    /\ UNCHANGED <<up, stored, edm, job, checked, removeMenu>>

(* SetDelegatedPolicies of super administrator c, with policies. *)
Delegate(c, n, user) ==
    /\ Free("delegate")
    /\ c # n
    /\ \E s \in Lookup(c, user) :
          s.type = "ENT" /\ Store(user, NewAdmin(user, n, "VIRTUAL", c, s.debug))
    /\ UNCHANGED <<up, stored, edm, job, checked, removeMenu>>

(* SetDelegatedPolicies of a system application: the parameter is set first,  *)
(* and stays set if the administrator cannot be stored.                       *)
DelegateAny(n, u) ==
    /\ Free("delegateAny")
    /\ Lookup(n, u) = {}
    /\ edm' = TRUE
    /\ Store(u, NewAdmin(u, n, "VIRTUAL", NoName, FALSE)) \/ ("write" \in Env /\ UNCHANGED registry)
    /\ UNCHANGED <<up, stored, job, checked, removeMenu>>

(* SetAdminRunningMode looks the administrator up for the current user and    *)
(* stores it for the default one.                                             *)
SetAdminRunningMode(n, user, mode) ==
    /\ Free("mode")
    /\ \E a \in Lookup(n, user) : Store(Default, [a EXCEPT !.mode = mode, !.user = Default])
    /\ UNCHANGED <<up, stored, edm, job, checked, removeMenu>>

(* HandleDevicePolicy for administrator n and user u: what is checked under   *)
(* the shared adminLock_, unless the caller may do without an administrator.  *)
HandleDevicePolicy(n, u) ==
    /\ Free("policy")
    /\ \E user \in Users : \E a \in Lookup(n, user) : Across(a) \/ u = user
    /\ saving' = saving \cup {<<n, u>>}
    /\ UNCHANGED <<up, registry, policies, late, edm, job, checked, removeMenu>>

(* Administrator a may have policies as p says.                               *)
Supports(a, p) == a.name = p[1] /\ (Across(a) \/ a.user = p[2])

(* p has an administrator that no removal under way is going to take, or only *)
(* after the policies.                                                        *)
Stays(s, p) ==
    \E a \in s :
        /\ Supports(a, p)
        /\ job = NoJob \/ p \in job.todo \/ <<a.name, a.user>> \notin job.todo

(* The rest of HandleDevicePolicy, without adminLock_: policies are set or    *)
(* cleared, whatever became of the administrator.  Several calls may set them *)
(* for the same administrator and user.                                       *)
UpdateDevicePolicy(p) ==
    /\ up /\ p \in saving
    /\ saving' \in {saving, saving \ {p}}
    /\ policies' \in {policies \cup {p}, policies \ {p}}
    /\ late' = IF p \in policies' /\ ~Stays(admins, p) THEN late \cup {p} ELSE late \ {p}
    /\ UNCHANGED <<up, registry, edm, job, checked, removeMenu>>

-----------------------------------------------------------------------------
(* Removing *)

(* mutant: only the users that have administrators *)
PolicyUsersWithAdmins == {{a.user : a \in admins}}

(* GetPolicyUserIds: the users with stored policies, and any others whose     *)
(* policies were looked at.                                                   *)
PolicyUsers == {s \in SUBSET Users : \A p \in policies : p[2] \in s}

(* RemoveSuperAdminAndAdminPolicy *)
SuperJob(goal, n, users) == NewJob(goal, (Subs(n) \cup {n}) \X (users \cup {Default}), n)

(* RemoveSubSuperAdminAndAdminPolicy *)
SubJob(goal, n, users) == NewJob(goal, {n} \X (users \cup {Default}), n)

(* How DoDisableAdmin removes administrator a. *)
RemovalOf(goal, a, u, users) ==
    IF a.type = "ENT" THEN SuperJob(goal, a.name, users)
    ELSE IF Across(a) THEN SubJob(goal, a.name, users)
    ELSE NewJob(goal, {<<a.name, u>>}, a.name)

(* DisableAdmin, and DisableSuperAdmin, which only differs in its checks. *)
DisableAdmin(n, u) ==
    /\ Free("disable")
    /\ \E a \in Lookup(n, u), users \in PolicyUsers : job' = RemovalOf("disable", a, u, users)
    /\ UNCHANGED <<up, registry, stored, edm, checked, removeMenu>>

(* SetDelegatedPolicies without policies: whatever administrator n is. *)
DisableVirtualAdmin(c, n, user) ==
    /\ Free("delegate")
    /\ c # n
    /\ \E s \in Lookup(c, user) : s.type = "ENT"
    /\ \E users \in PolicyUsers : job' = SubJob("delegate", n, users)
    /\ UNCHANGED <<up, registry, stored, edm, checked, removeMenu>>

(* OnCommonEventPackageRemoved: an administrator of the default user that     *)
(* acts across accounts stays when the application goes for another user.     *)
PackageRemoved(n, u) ==
    /\ Free("package")
    /\ \E a \in Lookup(n, u), users \in PolicyUsers :
          /\ Across(a) => u = Default
          /\ job' = RemovalOf("package", a, u, users)
    /\ UNCHANGED <<up, registry, stored, edm, checked, removeMenu>>

(* OnCommonEventUserRemoved; the default user cannot be removed. *)
UserRemoved(u) ==
    /\ Free("user")
    /\ u # Default
    /\ LET own == {a \in admins : a.user = u}
           across == {a \in admins : a.user = Default /\ Across(a)}
       IN job' = NewJob("user", {<<a.name, u>> : a \in own \cup across}, NoName)
    /\ UNCHANGED <<up, registry, stored, edm, checked, removeMenu>>

(* mutant: any order *)
DueInAnyOrder(p) == p \in job.todo

(* The removals that can be next: those of the last administrator wait for    *)
(* the others, which may mix, and the default user comes after the others.    *)
Due(p) ==
    /\ p \in job.todo
    /\ \A q \in job.todo : /\ p[1] = job.last => q[1] = job.last
                           /\ p[1] = q[1] /\ p[2] = Default => q[2] = Default

(* mutant: the administrator goes from memory only *)
DeleteAdminInMemory(n, u) ==
    /\ admins' = admins \ At(admins, n, u)
    /\ UNCHANGED rows

(* DeleteAdmin: without an administrator of the user in memory the table is   *)
(* left alone.                                                                *)
DeleteAdmin(n, u) ==
    IF \E a \in admins : a.user = u
    THEN admins' = admins \ At(admins, n, u) /\ rows' = rows \ At(rows, n, u)
    ELSE UNCHANGED registry

(* RemoveAdminAndAdminPolicy of one pair: its policies, then its row.  Either *)
(* may fail, which ends the job, but not that of a removed user.              *)
Remove(p) ==
    /\ up /\ job # NoJob
    /\ Due(p)
    /\ \/ /\ policies' = policies \ {p}
          /\ DeleteAdmin(p[1], p[2])
          /\ job' = [job EXCEPT !.todo = @ \ {p}]
       \/ /\ "write" \in Env
          /\ p \in policies \/ \E a \in admins : a.user = p[2]
          /\ policies' \in {policies, policies \ {p}}
          /\ UNCHANGED registry
          /\ job' = IF job.goal = "user" THEN [job EXCEPT !.todo = @ \ {p}]
                    ELSE [job EXCEPT !.todo = {}, !.failed = TRUE]
    /\ late' = late \cap policies'
    /\ UNCHANGED <<up, saving, edm, checked, removeMenu>>

Done(goal) == up /\ job # NoJob /\ job.goal = goal /\ job.todo = {}

(* mutant: only the default user's administrators are looked at *)
NobodyAtDefault == \A a \in admins : a.user # Default

(* IsAdminExist says no. *)
Nobody == admins = {}

(* The end of DoDisableAdmin and of OnCommonEventPackageRemoved, which does   *)
(* not look at the result of the removal.                                     *)
EndDisable ==
    /\ \/ Done("disable") /\ edm' = (edm /\ (job.failed \/ ~Nobody))
       \/ Done("package") /\ edm' = (edm /\ ~Nobody)
    /\ job' = NoJob
    /\ UNCHANGED <<up, registry, stored, checked, removeMenu>>

EndRemoval ==
    /\ Done("user") \/ Done("delegate")
    /\ job' = NoJob
    /\ UNCHANGED <<up, registry, stored, edm, checked, removeMenu>>

(* AfterEnableAdmin *)
EndEnable ==
    /\ Done("announce")
    /\ edm' = TRUE
    /\ job' = NoJob
    /\ UNCHANGED <<up, registry, stored, checked, removeMenu>>

-----------------------------------------------------------------------------
(* Calls that check before they take adminLock_ *)

MayCheck ==
    /\ up /\ checked = {}
    /\ job = NoJob \/ ("overtaken" \in Env /\ job.goal # "boot")

(* CheckReplaceAdmins and the first half of ReplaceSuperAdmin. *)
CheckReplace(op, old, new) ==
    /\ MayCheck /\ op \in Calls
    /\ \E s \in At(Supers, old, Default) : s.mode # "multi"
    /\ MayEnable(new, "ENT", Default, FALSE)
    /\ checked' = {[op |-> op, old |-> old, new |-> new]}
    /\ UNCHANGED <<up, registry, stored, edm, job, removeMenu>>

(* DisableDeviceAdmin: the lookup and CheckDisableDeviceAdmin. *)
CheckDisableDeviceAdmin(c, n) ==
    /\ MayCheck /\ "device" \in Calls
    /\ At(Supers, c, Default) # {}
    /\ \E a \in At(admins, n, Default) : a.type = "NORMAL"
    /\ checked' = {[op |-> "disableDevice", old |-> n, new |-> n]}
    /\ UNCHANGED <<up, registry, stored, edm, job, removeMenu>>

(* The second half of DisableDeviceAdmin, with the administrator looked up    *)
(* before.                                                                    *)
DisableDeviceAdmin(c) ==
    /\ up /\ job = NoJob
    /\ c \in checked /\ c.op = "disableDevice"
    /\ \E users \in PolicyUsers : job' = SubJob("disable", c.old, users)
    /\ checked' = {}
    /\ UNCHANGED <<up, registry, stored, edm, removeMenu>>

(* ReplaceSuperAdmin without keepPolicy disables the old administrator first. *)
ReplaceSuperAdmin(c) ==
    /\ up /\ job = NoJob
    /\ c \in checked /\ c.op = "replace"
    /\ \E users \in PolicyUsers :
          job' = [SuperJob("replace", c.old, users) EXCEPT !.new = c.new]
    /\ checked' = {}
    /\ UNCHANGED <<up, registry, stored, edm, removeMenu>>

(* The old administrator is gone, which may have reset the parameter, or the  *)
(* call has failed; the new one is set.                                       *)
EndReplace ==
    /\ Done("replace")
    /\ edm' = (edm /\ (job.failed \/ ~Nobody))
    /\ \/ /\ ~job.failed
          /\ Store(Default, NewAdmin(Default, job.new, "ENT", NoName, FALSE))
          /\ job' = Announce
       \/ /\ job.failed \/ "write" \in Env
          /\ job' = NoJob
          /\ UNCHANGED registry
    /\ UNCHANGED <<up, stored, checked, removeMenu>>

(* ReplaceSuperAdminByPackageName in the table: the parent of some            *)
(* subordinates, of whatever user, and with all of them the row of the        *)
(* administrator.                                                             *)
Reparent(s, old, new, names) ==
    {IF a.parent = old /\ a.name \in names THEN [a EXCEPT !.parent = new] ELSE a : a \in s}
ReplaceRow(s, old, new) ==
    {IF a \in At(s, old, Default) THEN NewAdmin(Default, new, "ENT", NoName, FALSE) ELSE a : a \in s}

(* In memory: the name of the administrator, then the parent of the default   *)
(* user's subordinates.                                                       *)
Rename(s, old, new) ==
    {IF a \in At(s, old, Default) THEN [a EXCEPT !.name = new] ELSE a : a \in s}
UpdateParentAdminName(s, old, new) ==
    {IF a.user = Default /\ a.type \in {"SUB", "VIRTUAL"} /\ a.parent = old
     THEN [a EXCEPT !.parent = new] ELSE a : a \in s}

(* ReplaceAllPolicy of the default user. *)
Renamed(s, old, new) ==
    {IF p = <<old, Default>> THEN <<new, Default>> ELSE p : p \in s}

(* ReplaceSuperAdmin with keepPolicy.  HandleKeepPolicy may fail after it     *)
(* wrote the parent of some subordinates, or after all of it, which it then   *)
(* undoes; its result is not looked at.                                       *)
KeepPolicy(c) ==
    /\ up /\ job = NoJob
    /\ c \in checked /\ c.op = "keep"
    /\ LET all == Subs(c.old) IN
       \/ /\ rows' = ReplaceRow(Reparent(rows, c.old, c.new, all), c.old, c.new)
          /\ admins' = UpdateParentAdminName(Rename(admins, c.old, c.new), c.old, c.new)
          /\ policies' = Renamed(policies, c.old, c.new)
          /\ late' = Renamed(late, c.old, c.new)
       \/ /\ "replace" \in Env
          /\ \E some \in SUBSET all : rows' = Reparent(rows, c.old, c.new, some)
          /\ UNCHANGED <<admins, policies, late>>
    /\ job' = Announce
    /\ checked' = {}
    /\ UNCHANGED <<up, saving, edm, removeMenu>>

-----------------------------------------------------------------------------
(* The process *)

Crash ==
    /\ "crash" \in Env /\ up
    /\ up' = FALSE
    /\ admins' = {}
    /\ job' = NoJob
    /\ checked' = {}
    /\ removeMenu' = FALSE
    /\ saving' = {}
    /\ UNCHANGED <<rows, policies, late, edm>>

(* OnStart: InitAllAdmins, and RemoveAllDebugAdmin unless the device is in    *)
(* developer mode.  The query is taken to succeed: one that fails leaves      *)
(* admins empty, beside a table that is not.                                  *)
Start ==
    /\ ~up
    /\ up' = TRUE
    /\ admins' = rows
    /\ LET debug == {a.name : a \in {b \in rows : b.user = Default /\ b.debug}} IN
       \E queue \in {{}, debug} :
          job' = [NewJob("boot", {}, NoName) EXCEPT !.queue = queue]
    /\ UNCHANGED <<rows, stored, edm, checked, removeMenu>>

(* The next debug administrator, whatever became of the one before. *)
BootNext ==
    /\ Done("boot")
    /\ IF job.queue = {} THEN job' = NoJob /\ UNCHANGED removeMenu
       ELSE /\ \E n \in job.queue : \E users \in PolicyUsers :
                  job' = [SuperJob("boot", n, users) EXCEPT !.queue = job.queue \ {n}]
            /\ removeMenu' = TRUE
    /\ UNCHANGED <<up, registry, stored, edm, checked>>

(* OnDistributedKvDataServiceStart: what RemoveAllDebugAdmin could not do as  *)
(* long as the settings were not there.                                       *)
OnDistributedKvDataServiceStart ==
    /\ up /\ job = NoJob
    /\ removeMenu /\ Nobody
    /\ edm' = FALSE
    /\ UNCHANGED <<up, registry, stored, job, checked, removeMenu>>

-----------------------------------------------------------------------------
Enabling ==
    \/ \E n \in Names, u \in Users, d \in BOOLEAN :
          \E t \in {"ENT", "NORMAL", "BYOD"} : EnableAdmin(n, t, u, d)
    \/ \E c, n \in Names : EnableDeviceAdmin(c, n)
    \/ \E c, n \in Names, u \in Users : AuthorizeAdmin(c, n, u)
    \/ \E c, n \in Names, u \in Users : Delegate(c, n, u)
    \/ \E n \in Names, u \in Users : DelegateAny(n, u)
    \/ EndEnable
Using ==
    \/ \E n \in Holders, u \in Users : HandleDevicePolicy(n, u)
    \/ \E p \in saving : UpdateDevicePolicy(p)
    \/ \E n \in Names, u \in Users, m \in Modes : SetAdminRunningMode(n, u, m)
Removing ==
    \/ \E n \in Names, u \in Users : DisableAdmin(n, u)
    \/ \E c, n \in Names, u \in Users : DisableVirtualAdmin(c, n, u)
    \/ \E n \in Names, u \in Users : PackageRemoved(n, u)
    \/ \E u \in Users : UserRemoved(u)
    \/ \E p \in Pairs : Remove(p)
    \/ EndDisable \/ EndRemoval
Replacing ==
    \/ \E op \in {"replace", "keep"} : \E old, new \in Names : CheckReplace(op, old, new)
    \/ \E c, n \in Names : CheckDisableDeviceAdmin(c, n)
    \/ \E c \in checked : DisableDeviceAdmin(c) \/ ReplaceSuperAdmin(c) \/ KeepPolicy(c)
    \/ EndReplace
Restarting == Crash \/ Start \/ BootNext \/ OnDistributedKvDataServiceStart

Next == Enabling \/ Using \/ Removing \/ Replacing \/ Restarting

Spec == Init /\ [][Next]_vars

-----------------------------------------------------------------------------
(* Properties *)

(* A package is an administrator of a user at most once, in memory and in the *)
(* table, which has no key of its own on the two.                             *)
Once(s) == \A a, b \in s : a.user = b.user /\ a.name = b.name => a = b
OncePerUser == Once(admins) /\ Once(rows)

(* EnableAdmin and ReplaceSuperAdmin keep at most one super administrator     *)
(* that is not a debug one.                                                   *)
OneOfficialSuper == \A a, b \in OfficialSupers : a = b

(* MAX_SDA_AND_DA_COUNT bounds super and device administrators together.      *)
CountBounded == Cardinality(Counted) <= MaxCount

(* Debug administrators never coexist with official ones; delegation to a     *)
(* virtual administrator does not ask.                                        *)
DebugNotMixed ==
    \A a, b \in admins : a.type # "VIRTUAL" /\ b.type # "VIRTUAL" => a.debug = b.debug

(* A sub super administrator never outlives the super administrator that      *)
(* authorized it, in the table either: whatever a removal was cut off at, a   *)
(* restart finds the parent of each.  A replacement that keeps policies and   *)
(* fails half-way ("replace") does leave subordinates without a parent.       *)
SubsHaveParent ==
    \A s \in {admins, rows} : \A a \in s :
        a.type = "SUB" => \E b \in s : b.user = Default /\ b.type = "ENT" /\ b.name = a.parent

(* What a restart would load is what is in memory, the running mode aside.    *)
Plain(s) == {<<a.user, a.name, a.type, a.parent, a.debug>> : a \in s}
MemoryIsStored == up => Plain(admins) = Plain(rows)

(* When no operation is under way, stored policies belong to an administrator *)
(* that is still there: removals reach every user with policies, those stored *)
(* while they were under way too.  Only what a call stored that was overtaken *)
(* by the removal of its administrator, and came too late for it, is left     *)
(* behind (docs/knowledge/architecture/concurrency-lock-model.md:100).        *)
PoliciesHaveAdmin ==
    up /\ job = NoJob => \A p \in policies \ late : \E a \in admins : Supports(a, p)

(* persist.edm.edm_enable, on which the service is started, is set as long as *)
(* there are administrators.                                                  *)
EnabledWhileAdmins == up /\ job = NoJob /\ admins # {} => edm

(* The inductive invariant behind OncePerUser and OneOfficialSuper, where no  *)
(* call is overtaken: memory and table agree on who is what, a dead process   *)
(* holds nothing, a call that made its checks still finds what it checked,    *)
(* and a replacement has the old super administrator still to remove.         *)
Official(a) == a.user = Default /\ a.type = "ENT" /\ ~a.debug
OfficialsShareName(s) == \A a, b \in s : Official(a) /\ Official(b) => a.name = b.name
SupersAtDefault(s) == \A a \in s : a.type = "ENT" => a.user = Default
Like(a, b) == a.user = b.user /\ a.name = b.name /\ a.type = b.type /\ a.debug = b.debug
Covers(s, t) == \A a \in s : \E b \in t : Like(a, b)
TableAgrees == up => Covers(admins, rows) /\ Covers(rows, admins)
DownIsEmpty == ~up => admins = {} /\ job = NoJob /\ checked = {}
CheckedIsFirst == checked # {} => job = NoJob
CheckedIsOfficial ==
    \A c \in checked : c.op \in {"replace", "keep"} =>
        /\ \E a \in admins : Official(a) /\ a.name = c.old
        /\ At(admins, c.new, Default) # {} => c.new = c.old
ReplacedIsPending ==
    job.goal = "replace" =>
        /\ job.new \in Names
        /\ job.failed \/ \A a \in admins : Official(a) => <<a.name, Default>> \in job.todo

RegistryInv ==
    /\ TypeOK
    /\ OncePerUser
    /\ OfficialsShareName(admins) /\ OfficialsShareName(rows)
    /\ SupersAtDefault(admins) /\ SupersAtDefault(rows)
    /\ TableAgrees
    /\ DownIsEmpty
    /\ CheckedIsFirst
    /\ CheckedIsOfficial
    /\ ReplacedIsPending
=============================================================================
