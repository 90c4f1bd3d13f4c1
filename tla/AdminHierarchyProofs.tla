------------------------ MODULE AdminHierarchyProofs ------------------------
(* Theorems about AdminRegistry beyond who is an administrator once: the      *)
(* table is what memory is, subordinates have their super administrator,      *)
(* policies their administrator, debug administrators are not mixed with      *)
(* others, the limit is kept and the service stays enabled.  Each is for any  *)
(* users, packages and limit, and says which operations it leaves out.        *)
EXTENDS AdminRegistryProofs, FiniteSetTheorems, FunctionTheorems

NotOvertaken == "overtaken" \notin Env

(* Super, device and sub super administrators are the default user's.         *)
Placed(s) == \A a \in s : a.type \in {"ENT", "NORMAL", "SUB"} => a.user = Default
NoDebug == \A a \in admins : ~a.debug

(* What a call has checked is asked for, and still so.                        *)
StillSo(c) ==
    /\ c.op \in {"replace", "keep"} => NoDebug
    /\ c.op = "keep" => "keep" \in Calls
    /\ c.op = "disableDevice" => \A a \in At(admins, c.old, Default) : a.type = "NORMAL"
PlacedInv ==
    /\ RegistryInv
    /\ Placed(admins) /\ Placed(rows)
    /\ \A c \in checked : StillSo(c)

-----------------------------------------------------------------------------
(* What a step is, as far as the properties can tell *)

(* The parameter is set, or will be, or there is no need for it.              *)
StaysEnabled ==
    \/ admins' = {} \/ job' = Announce \/ edm' = TRUE
    \/ edm' = edm /\ admins # {} /\ job.goal # "announce"

(* Administrator e is set for its user.                                       *)
Sets(e) ==
    /\ up /\ up' = up /\ checked' = {} /\ UNCHANGED stored
    /\ job' \in {NoJob, Announce}
    /\ e \in Admin /\ Store(e.user, e)

(* What is known of an administrator that was not there before.               *)
Authorized(e) ==
    e.type = "SUB" =>
       /\ e.user = Default
       /\ \E s \in admins : s.user = Default /\ s.type = "ENT" /\ s.name = e.parent
OfSameKind(e) ==
    \/ e.type = "VIRTUAL"
    \/ \E s \in admins : s.type # "VIRTUAL" /\ s.debug = e.debug
    \/ \A a \in admins : a.debug = e.debug
    \/ job.goal = "replace" /\ ~e.debug
AtItsPlace(e) ==
    \/ e.user = Default
    \/ e.type = "BYOD"
    \/ e.type = "VIRTUAL" /\ Calls \cap {"delegate", "delegateAny"} # {}
ReplaceDone == job \in Job /\ job.goal = "replace" /\ ~job.failed /\ job.todo = {}
HasRoom(e) == e.type \in {"ENT", "NORMAL"} => ~Full \/ ReplaceDone
Welcome(e) == Authorized(e) /\ OfSameKind(e) /\ AtItsPlace(e) /\ HasRoom(e)

SetsSomebody ==
    \E e : Sets(e) /\ StaysEnabled /\ (Lookup(e.name, e.user) = {} => Welcome(e))

(* A removal begins: of a super administrator, of somebody who is none, of a  *)
(* BYOD administrator, or of all a user has.                                  *)
OfSuper(j) ==
    \E n \in Names, users \in PolicyUsers :
       j.todo = (Subs(n) \cup {n}) \X (users \cup {Default}) /\ j.last = n
OfOther(j) ==
    \E n \in Names, users \in PolicyUsers :
       /\ j.todo = {n} \X (users \cup {Default})
       /\ "delegate" \in Calls \/ \A a \in At(admins, n, Default) : a.type # "ENT"
OfOwn(j) ==
    \E n \in Names, u \in Users :
       j.todo = {<<n, u>>} /\ \A a \in At(admins, n, u) : a.type = "BYOD"
OfUser(j) == j.goal = "user" /\ \A q \in j.todo : q[2] # Default
Removal(j) ==
    \/ j.goal # "user" /\ (OfSuper(j) \/ OfOther(j) \/ OfOwn(j))
    \/ OfUser(j)
Begins ==
    /\ up /\ up' = up /\ checked' = {} /\ UNCHANGED <<registry, stored>>
    /\ job' \in Job /\ Removal(job') /\ StaysEnabled
    /\ job'.goal = "replace" =>
          /\ \E c \in checked : c.op = "replace"
          /\ \E a \in admins : Official(a) /\ <<a.name, Default>> \in job'.todo

(* A pair is removed, or its removal fails.                                   *)
Deletes(p) ==
    /\ admins' = admins \ At(admins, p[1], p[2])
    /\ rows' = rows \ At(rows, p[1], p[2])
    /\ policies' = policies \ {p} /\ late' = late \cap policies'
    /\ job'.todo = job.todo \ {p} /\ job'.failed = job.failed
Fails(p) ==
    /\ UNCHANGED registry /\ policies' \subseteq policies /\ late' = late \cap policies'
    /\ \/ job.goal = "user" /\ job'.todo = job.todo \ {p}
       \/ job'.todo = {} /\ job'.failed
Removes(p) ==
    /\ up /\ up' = up /\ UNCHANGED edm /\ checked = {} /\ checked' = {}
    /\ job \in Job /\ job' \in Job
    /\ job'.goal = job.goal /\ job'.last = job.last
    /\ Due(p) /\ (Deletes(p) \/ Fails(p))

(* Administrators are only looked at.                                         *)
Rests ==
    /\ up /\ up' = up /\ UNCHANGED <<registry, stored, checked>>
    /\ job' = NoJob /\ StaysEnabled
Checks ==
    /\ up /\ UNCHANGED <<up, registry, stored, edm, job>>
    /\ \E c \in Call : checked' = {c} /\ StillSo(c)
(* Policies are checked or stored; those of an administrator that is going or *)
(* gone do not count.                                                         *)
Uses ==
    /\ up /\ UNCHANGED <<up, registry, edm, job, checked>>
    /\ \/ UNCHANGED <<policies, late>>
       \/ \E p \in Pairs : /\ policies' \ late' \subseteq (policies \ late) \cup {p}
                           /\ p \in policies' \ late' => Stays(admins, p)

Steps ==
    \/ SetsSomebody
    \/ Begins
    \/ \E p \in Pairs : Removes(p)
    \/ Rests \/ Checks \/ Uses
    \/ \E c \in checked : KeepPolicy(c)
    \/ Crash \/ Start
    \/ UNCHANGED vars

-----------------------------------------------------------------------------
(* Each action is one of them. *)

LEMMA SetsNew ==
    ASSUME PlacedInv, NEW u \in Users, NEW e \in Admin, e.user = u, Store(u, e),
           up, up' = up, checked' = {}, UNCHANGED stored, job' \in {NoJob, Announce},
           StaysEnabled, Lookup(e.name, u) = {} => Welcome(e)
    PROVE  SetsSomebody
  BY DEF SetsSomebody, Sets

LEMMA EnableAdminSets ==
    ASSUME PlacedInv, NotOvertaken, NEW n \in Names, NEW t \in {"ENT", "NORMAL", "BYOD"},
           NEW u \in Users, NEW d \in BOOLEAN, EnableAdmin(n, t, u, d)
    PROVE  SetsSomebody
<1>. DEFINE v == IF t = "BYOD" THEN u ELSE Default
            e == NewAdmin(v, n, t, NoName, d)
<1>1. up /\ checked = {} /\ Sound(admins, rows)
  BY FreeFacts DEF EnableAdmin, PlacedInv, NotOvertaken
<1>2. /\ Store(v, e) /\ job' = Announce /\ up' = up /\ stored' = stored /\ checked' = {}
      /\ ~Full /\ OfDebug(~d) = {}
  BY <1>1 DEF EnableAdmin, MayEnable
<1>3. v \in Users /\ (v # Default => t = "BYOD")
  BY RegistryAssumption
<1>4. e \in Admin /\ e.user = v /\ e.name = n /\ e.type = t /\ e.debug = d
  BY <1>3, NewAdminType DEF Types
<1>5. \A a \in admins : a.debug = d
  BY <1>1, <1>2 DEF OfDebug, Sound, Admin
<1>. HIDE DEF e, v
<1>6. Welcome(e)
  BY <1>2, <1>3, <1>4, <1>5 DEF Welcome, Authorized, OfSameKind, AtItsPlace, HasRoom
<1>. QED
  BY <1>1, <1>2, <1>3, <1>4, <1>6, SetsNew DEF StaysEnabled

LEMMA EnableDeviceAdminSets ==
    ASSUME PlacedInv, NotOvertaken, NEW c \in Names, NEW n \in Names, EnableDeviceAdmin(c, n)
    PROVE  SetsSomebody
<1>1. up /\ checked = {} /\ Sound(admins, rows)
  BY FreeFacts DEF EnableDeviceAdmin, PlacedInv, NotOvertaken
<1>2. PICK s \in admins : /\ s.type = "ENT"
                          /\ Store(Default, NewAdmin(Default, n, "NORMAL", NoName, s.debug))
  BY DEF EnableDeviceAdmin, Supers, At
<1>3. s.debug \in BOOLEAN
  BY <1>1 DEF Sound, Admin
<1>. DEFINE e == NewAdmin(Default, n, "NORMAL", NoName, s.debug)
<1>4. e \in Admin /\ e.user = Default /\ e.type = "NORMAL" /\ e.debug = s.debug
  BY <1>3, NewAdminType, RegistryAssumption DEF Types
<1>. HIDE DEF e
<1>5. Welcome(e)
  BY <1>2, <1>4 DEF EnableDeviceAdmin, Welcome, Authorized, OfSameKind, AtItsPlace, HasRoom
<1>6. Store(Default, e)
  BY <1>2 DEF e
<1>. QED
  BY <1>1, <1>4, <1>5, <1>6, SetsNew, RegistryAssumption DEF EnableDeviceAdmin, StaysEnabled

LEMMA AuthorizeAdminSets ==
    ASSUME PlacedInv, NotOvertaken, NEW c \in Names, NEW n \in Names, NEW user \in Users,
           AuthorizeAdmin(c, n, user)
    PROVE  SetsSomebody
<1>1. up /\ job = NoJob /\ checked = {} /\ Sound(admins, rows)
  BY FreeFacts DEF AuthorizeAdmin, PlacedInv, NotOvertaken
<1>2. PICK s \in Lookup(c, user) : /\ s.type = "ENT"
                                   /\ Store(Default, NewAdmin(Default, n, "SUB", c, s.debug))
  BY DEF AuthorizeAdmin
<1>3. s \in admins /\ s.debug \in BOOLEAN /\ s.name = c /\ s.user = Default
  BY <1>1, <1>2, LookupFacts DEF Sound, Admin, SupersAtDefault
<1>. DEFINE e == NewAdmin(Default, n, "SUB", c, s.debug)
<1>4. e \in Admin /\ e.user = Default /\ e.type = "SUB" /\ e.debug = s.debug /\ e.parent = c
  BY <1>3, NewAdminType, RegistryAssumption DEF Types, NewAdmin
<1>. HIDE DEF e
<1>5. Welcome(e)
  BY <1>2, <1>3, <1>4 DEF Welcome, Authorized, OfSameKind, AtItsPlace, HasRoom
<1>6. Store(Default, e)
  BY <1>2 DEF e
<1>7. StaysEnabled
  BY <1>1, <1>3 DEF AuthorizeAdmin, StaysEnabled, NoJob
<1>. QED
  BY <1>1, <1>4, <1>5, <1>6, <1>7, SetsNew, RegistryAssumption DEF AuthorizeAdmin

LEMMA DelegateSets ==
    ASSUME PlacedInv, NotOvertaken, NEW c \in Names, NEW n \in Names, NEW user \in Users,
           Delegate(c, n, user)
    PROVE  SetsSomebody
<1>1. up /\ job = NoJob /\ checked = {} /\ Sound(admins, rows) /\ "delegate" \in Calls
  BY FreeFacts DEF Delegate, PlacedInv, NotOvertaken, Free
<1>2. PICK s \in Lookup(c, user) : Store(user, NewAdmin(user, n, "VIRTUAL", c, s.debug))
  BY DEF Delegate
<1>3. s \in admins /\ s.debug \in BOOLEAN
  BY <1>1, LookupFacts DEF Sound, Admin
<1>. DEFINE e == NewAdmin(user, n, "VIRTUAL", c, s.debug)
<1>4. e \in Admin /\ e.user = user /\ e.type = "VIRTUAL"
  BY <1>3, NewAdminType DEF Types
<1>. HIDE DEF e
<1>5. Welcome(e)
  BY <1>1, <1>4 DEF Welcome, Authorized, OfSameKind, AtItsPlace, HasRoom
<1>6. Store(user, e)
  BY <1>2 DEF e
<1>7. StaysEnabled
  BY <1>1, <1>3 DEF Delegate, StaysEnabled, NoJob
<1>. QED
  BY <1>1, <1>4, <1>5, <1>6, <1>7, SetsNew DEF Delegate

LEMMA DelegateAnySets ==
    ASSUME PlacedInv, NotOvertaken, NEW n \in Names, NEW u \in Users, DelegateAny(n, u)
    PROVE  SetsSomebody \/ Rests
<1>. DEFINE e == NewAdmin(u, n, "VIRTUAL", NoName, FALSE)
<1>1. /\ up /\ up' = up /\ job = NoJob /\ job' = job /\ checked = {} /\ checked' = checked
      /\ "delegateAny" \in Calls /\ stored' = stored /\ StaysEnabled
  BY FreeFacts DEF DelegateAny, PlacedInv, NotOvertaken, Free, StaysEnabled
<1>2. e \in Admin /\ e.user = u /\ e.type = "VIRTUAL"
  BY DEF NewAdmin, Admin, Types, Modes
<1>3. Store(u, e) \/ UNCHANGED registry
  BY DEF DelegateAny
<1>. HIDE DEF e
<1>4. Welcome(e)
  BY <1>1, <1>2 DEF Welcome, Authorized, OfSameKind, AtItsPlace, HasRoom
<1>5. CASE Store(u, e)
  BY <1>1, <1>2, <1>4, <1>5, SetsNew
<1>6. CASE UNCHANGED registry
  BY <1>1, <1>6 DEF Rests
<1>. QED
  BY <1>3, <1>5, <1>6

(* Whoever is found for another user and not for the default one is neither a *)
(* super nor a device nor a sub super administrator.                          *)
LEMMA SetAdminRunningModeSets ==
    ASSUME PlacedInv, NotOvertaken, NEW n \in Names, NEW user \in Users, NEW mode \in Modes,
           SetAdminRunningMode(n, user, mode)
    PROVE  SetsSomebody
<1>1. up /\ job = NoJob /\ checked = {} /\ Sound(admins, rows)
  BY FreeFacts DEF SetAdminRunningMode, PlacedInv, NotOvertaken
<1>2. PICK a \in Lookup(n, user) : Store(Default, [a EXCEPT !.mode = mode, !.user = Default])
  BY DEF SetAdminRunningMode
<1>3. a \in admins /\ a \in Admin /\ a.name = n
  BY <1>1, LookupFacts DEF Sound
<1>. DEFINE e == [a EXCEPT !.mode = mode, !.user = Default]
<1>4. e \in Admin /\ e.user = Default /\ e.name = n /\ e.type = a.type /\ e.debug = a.debug
  BY <1>3, RegistryAssumption DEF Admin
<1>. HIDE DEF e
<1>5. Lookup(n, Default) = {} => a.user # Default
  BY <1>3 DEF Lookup, At
<1>6. Lookup(n, Default) = {} => e.type \notin {"ENT", "NORMAL", "SUB"}
  BY <1>3, <1>4, <1>5 DEF PlacedInv, Placed
<1>7. Lookup(n, Default) = {} => Welcome(e)
  BY <1>3, <1>4, <1>6 DEF Welcome, Authorized, OfSameKind, AtItsPlace, HasRoom
<1>8. Store(Default, e)
  BY <1>2 DEF e
<1>9. StaysEnabled
  BY <1>1, <1>3 DEF SetAdminRunningMode, StaysEnabled, NoJob
<1>. QED
  BY <1>1, <1>4, <1>7, <1>8, <1>9, SetsNew, RegistryAssumption DEF SetAdminRunningMode

(* The kinds of jobs.                                                         *)
LEMMA SuperRemoval ==
    ASSUME admins \subseteq Admin, NEW n \in Names, NEW users \in PolicyUsers,
           NEW goal \in {"disable", "package", "boot", "replace"}
    PROVE  /\ SuperJob(goal, n, users) \in Job
           /\ SuperJob(goal, n, users).goal = goal
           /\ SuperJob(goal, n, users).todo = (Subs(n) \cup {n}) \X (users \cup {Default})
           /\ OfSuper(SuperJob(goal, n, users))
<1>1. users \in SUBSET Users
  BY DEF PolicyUsers
<1>2. SuperJob(goal, n, users) \in Job
  BY <1>1, JobTypes, RegistryAssumption
<1>3. /\ SuperJob(goal, n, users).goal = goal /\ SuperJob(goal, n, users).last = n
      /\ SuperJob(goal, n, users).todo = (Subs(n) \cup {n}) \X (users \cup {Default})
  BY DEF SuperJob, NewJob
<1>. QED
  BY <1>2, <1>3 DEF OfSuper

LEMMA OtherRemoval ==
    ASSUME admins \subseteq Admin, NEW n \in Names, NEW users \in PolicyUsers,
           NEW goal \in {"disable", "package", "delegate"},
           "delegate" \in Calls \/ \A a \in At(admins, n, Default) : a.type # "ENT"
    PROVE  /\ SubJob(goal, n, users) \in Job /\ SubJob(goal, n, users).goal = goal
           /\ OfOther(SubJob(goal, n, users))
<1>1. users \in SUBSET Users
  BY DEF PolicyUsers
<1>2. SubJob(goal, n, users) \in Job
  BY <1>1, JobTypes, RegistryAssumption
<1>3. /\ SubJob(goal, n, users).goal = goal
      /\ SubJob(goal, n, users).todo = {n} \X (users \cup {Default})
  BY DEF SubJob, NewJob
<1>. QED
  BY <1>2, <1>3 DEF OfOther

(* DoDisableAdmin tells by the type of the administrator it found.            *)
LEMMA RemovalIs ==
    ASSUME PlacedInv, NEW n \in Names, NEW u \in Users, NEW a \in Lookup(n, u),
           NEW users \in PolicyUsers, NEW goal \in {"disable", "package"}
    PROVE  /\ RemovalOf(goal, a, u, users) \in Job
           /\ RemovalOf(goal, a, u, users).goal = goal
           /\ Removal(RemovalOf(goal, a, u, users))
<1>. DEFINE j == RemovalOf(goal, a, u, users)
<1>1. admins \subseteq Admin /\ a \in admins /\ a.name = n /\ Once(admins)
  BY LookupFacts DEF PlacedInv, RegistryInv, TypeOK, OncePerUser
<1>2. CASE a.type = "ENT"
  <2>1. j = SuperJob(goal, n, users)
    BY <1>1, <1>2 DEF RemovalOf
  <2>. QED
    BY <1>1, <2>1, SuperRemoval DEF Removal
<1>3. CASE a.type # "ENT" /\ Across(a)
  <2>1. j = SubJob(goal, n, users)
    BY <1>1, <1>3 DEF RemovalOf
  <2>2. \A b \in At(admins, n, Default) : b.type # "ENT"
    <3>1. CASE a.user = Default
      BY <1>1, <1>3, <3>1 DEF At, Once
    <3>2. CASE a.user # Default
      BY <3>2 DEF Lookup, At, Across
    <3>. QED
      BY <3>1, <3>2
  <2>. QED
    BY <1>1, <2>1, <2>2, OtherRemoval DEF Removal
<1>4. CASE a.type # "ENT" /\ ~Across(a)
  <2>1. j = NewJob(goal, {<<n, u>>}, n)
    BY <1>1, <1>4 DEF RemovalOf
  <2>2. a.user = u
    BY <1>4 DEF Lookup, At
  <2>3. \A b \in At(admins, n, u) : b.type = "BYOD"
    BY <1>1, <1>4, <2>2 DEF At, Once, Across
  <2>4. j \in Job
    BY <1>1, <2>1, JobTypes DEF Pairs
  <2>5. j.goal = goal /\ j.todo = {<<n, u>>}
    BY <2>1 DEF NewJob
  <2>. QED
    BY <2>3, <2>4, <2>5 DEF Removal, OfOwn
<1>. QED
  BY <1>2, <1>3, <1>4

LEMMA BeginsRemoval ==
    ASSUME PlacedInv, up, up' = up, checked' = {}, UNCHANGED <<registry, stored, edm>>,
           job = NoJob \/ job.goal = "boot",
           job' \in Job, job'.goal # "replace", Removal(job')
    PROVE  Begins
<1>1. StaysEnabled
  BY DEF StaysEnabled, NoJob, registry
<1>. QED
  BY <1>1 DEF Begins

LEMMA DisableBegins ==
    ASSUME PlacedInv, NotOvertaken, NEW n \in Names, NEW u \in Users,
           DisableAdmin(n, u) \/ PackageRemoved(n, u)
    PROVE  Begins
<1>1. up /\ job = NoJob /\ checked = {}
  BY FreeFacts DEF DisableAdmin, PackageRemoved, PlacedInv, NotOvertaken
<1>2. PICK goal \in {"disable", "package"}, a \in Lookup(n, u), users \in PolicyUsers :
         job' = RemovalOf(goal, a, u, users)
  BY DEF DisableAdmin, PackageRemoved
<1>3. /\ RemovalOf(goal, a, u, users) \in Job
      /\ RemovalOf(goal, a, u, users).goal = goal
      /\ Removal(RemovalOf(goal, a, u, users))
  BY RemovalIs
<1>4. up' = up /\ checked' = {} /\ UNCHANGED <<registry, stored, edm>>
  BY <1>1 DEF DisableAdmin, PackageRemoved
<1>5. job' \in Job /\ Removal(job') /\ job'.goal = goal
  BY <1>2, <1>3
<1>. QED
  BY <1>1, <1>4, <1>5, BeginsRemoval

LEMMA DisableVirtualBegins ==
    ASSUME PlacedInv, NotOvertaken, NEW c \in Names, NEW n \in Names, NEW u \in Users,
           DisableVirtualAdmin(c, n, u)
    PROVE  Begins
<1>1. up /\ job = NoJob /\ checked = {} /\ "delegate" \in Calls /\ admins \subseteq Admin
  BY FreeFacts DEF DisableVirtualAdmin, PlacedInv, NotOvertaken, Free, Sound
<1>2. PICK users \in PolicyUsers : job' = SubJob("delegate", n, users)
  BY DEF DisableVirtualAdmin
<1>3. job' \in Job /\ job'.goal = "delegate" /\ OfOther(job')
  BY <1>1, <1>2, OtherRemoval
<1>4. Removal(job')
  BY <1>3 DEF Removal
<1>. QED
  BY <1>1, <1>3, <1>4, BeginsRemoval DEF DisableVirtualAdmin

LEMMA UserRemovedBegins ==
    ASSUME PlacedInv, NotOvertaken, NEW u \in Users, UserRemoved(u)
    PROVE  Begins
<1>1. up /\ job = NoJob /\ checked = {} /\ u # Default /\ admins \subseteq Admin
  BY FreeFacts DEF UserRemoved, PlacedInv, NotOvertaken, Sound
<1>2. PICK own \in SUBSET admins : job' = NewJob("user", {<<a.name, u>> : a \in own}, NoName)
  BY DEF UserRemoved
<1>3. {<<a.name, u>> : a \in own} \in SUBSET Pairs
  BY <1>1 DEF Pairs, Admin
<1>4. job' \in Job /\ job'.goal = "user" /\ job'.todo = {<<a.name, u>> : a \in own}
  BY <1>2, <1>3 DEF NewJob, Job
<1>5. Removal(job')
  BY <1>1, <1>4 DEF Removal, OfUser
<1>. QED
  BY <1>1, <1>4, <1>5, BeginsRemoval DEF UserRemoved

LEMMA DisableDeviceBegins ==
    ASSUME PlacedInv, NEW c \in checked, DisableDeviceAdmin(c)
    PROVE  Begins
<1>1. /\ up /\ job = NoJob /\ admins \subseteq Admin /\ c.old \in Names
      /\ c.op = "disableDevice"
  BY DEF DisableDeviceAdmin, PlacedInv, RegistryInv, TypeOK, Call
<1>2. PICK users \in PolicyUsers : job' = SubJob("disable", c.old, users)
  BY DEF DisableDeviceAdmin
<1>3. \A a \in At(admins, c.old, Default) : a.type # "ENT"
  BY <1>1 DEF PlacedInv, StillSo
<1>4. job' \in Job /\ job'.goal = "disable" /\ OfOther(job')
  BY <1>1, <1>2, <1>3, OtherRemoval
<1>5. Removal(job')
  BY <1>4 DEF Removal
<1>. QED
  BY <1>1, <1>4, <1>5, BeginsRemoval DEF DisableDeviceAdmin

(* What is removed is what CheckReplaceAdmins found.                          *)
LEMMA ReplaceBegins ==
    ASSUME PlacedInv, NEW c \in checked, ReplaceSuperAdmin(c)
    PROVE  Begins
<1>1. /\ up /\ job = NoJob /\ admins \subseteq Admin /\ c.old \in Names /\ c.new \in Names
      /\ c.op = "replace"
  BY DEF ReplaceSuperAdmin, PlacedInv, RegistryInv, TypeOK, Call
<1>2. PICK users \in PolicyUsers :
         job' = [SuperJob("replace", c.old, users) EXCEPT !.new = c.new]
  BY DEF ReplaceSuperAdmin
<1>. DEFINE j == SuperJob("replace", c.old, users)
<1>3. /\ j \in Job /\ j.goal = "replace" /\ OfSuper(j)
      /\ j.todo = (Subs(c.old) \cup {c.old}) \X (users \cup {Default})
  BY <1>1, SuperRemoval
<1>. HIDE DEF j
<1>4. job' \in Job /\ job'.goal = j.goal /\ job'.todo = j.todo /\ job'.last = j.last
  BY <1>1, <1>2, <1>3 DEF j, Job
<1>5. Removal(job')
  BY <1>3, <1>4 DEF Removal, OfSuper
<1>6. \E a \in admins : Official(a) /\ <<a.name, Default>> \in job'.todo
  <2>1. PICK a \in admins : Official(a) /\ a.name = c.old
    BY <1>1 DEF PlacedInv, RegistryInv, CheckedIsOfficial
  <2>. QED
    BY <1>3, <1>4, <2>1
<1>7. StaysEnabled
  BY <1>1 DEF ReplaceSuperAdmin, StaysEnabled, NoJob, registry
<1>. QED
  BY <1>1, <1>4, <1>5, <1>6, <1>7 DEF Begins, ReplaceSuperAdmin

LEMMA BootBegins ==
    ASSUME PlacedInv, BootNext
    PROVE  Begins \/ Rests
<1>1. /\ up /\ up' = up /\ job # NoJob /\ job.goal = "boot" /\ job \in Job
      /\ UNCHANGED <<registry, stored, edm, checked>> /\ admins \subseteq Admin
  BY DEF BootNext, Done, PlacedInv, RegistryInv, TypeOK
<1>2. checked = {}
  BY <1>1 DEF PlacedInv, RegistryInv, CheckedIsFirst
<1>3. CASE job.queue = {}
  BY <1>1, <1>3 DEF BootNext, Rests, StaysEnabled, registry
<1>4. CASE job.queue # {}
  <2>1. PICK n \in job.queue, users \in PolicyUsers :
           job' = [SuperJob("boot", n, users) EXCEPT !.queue = job.queue \ {n}]
    BY <1>4 DEF BootNext
  <2>2. n \in Names /\ job.queue \in SUBSET Names
    BY <1>1 DEF Job
  <2>. DEFINE j == SuperJob("boot", n, users)
  <2>3. j \in Job /\ j.goal = "boot" /\ OfSuper(j)
    BY <1>1, <2>2, SuperRemoval
  <2>. HIDE DEF j
  <2>4. job' \in Job /\ job'.goal = j.goal /\ job'.todo = j.todo /\ job'.last = j.last
    BY <2>1, <2>2, <2>3 DEF j, Job
  <2>5. Removal(job')
    BY <2>3, <2>4 DEF Removal, OfSuper
  <2>. QED
    BY <1>1, <1>2, <2>3, <2>4, <2>5, BeginsRemoval
<1>. QED
  BY <1>3, <1>4

(* The table never has more of a user than memory, so a removal that leaves   *)
(* the table alone leaves nothing behind.                                     *)
LEMMA RemoveRemoves ==
    ASSUME PlacedInv, NEW p \in Pairs, Remove(p)
    PROVE  Removes(p)
<1>1. /\ up /\ up' = up /\ job \in Job /\ checked = {} /\ checked' = {} /\ UNCHANGED edm
      /\ Due(p)
  BY DEF Remove, PlacedInv, RegistryInv, TypeOK, CheckedIsFirst
<1>2. Sound(admins, rows)
  BY <1>1, RunningIsSound DEF PlacedInv
<1>3. CASE /\ policies' = policies \ {p} /\ late' = late \cap policies' /\ DeleteAdmin(p[1], p[2])
           /\ job' = [job EXCEPT !.todo = job.todo \ {p}]
  <2>1. admins' = admins \ At(admins, p[1], p[2]) /\ rows' = rows \ At(rows, p[1], p[2])
    <3>1. CASE \E a \in admins : a.user = p[2]
      BY <1>3, <3>1 DEF DeleteAdmin
    <3>2. CASE ~ \E a \in admins : a.user = p[2]
      <4>1. At(admins, p[1], p[2]) = {} /\ At(rows, p[1], p[2]) = {}
        BY <1>2, <3>2 DEF At, Sound, Covers, Like
      <4>. QED
        BY <1>3, <3>2, <4>1 DEF DeleteAdmin, registry
    <3>. QED
      BY <3>1, <3>2
  <2>2. /\ job' \in Job /\ job'.goal = job.goal /\ job'.last = job.last
        /\ job'.todo = job.todo \ {p} /\ job'.failed = job.failed
    BY <1>1, <1>3 DEF Job
  <2>. QED
    BY <1>1, <1>3, <2>1, <2>2 DEF Removes, Deletes
<1>4. CASE /\ policies' \in {policies, policies \ {p}} /\ late' = late \cap policies'
           /\ UNCHANGED registry
           /\ job' = IF job.goal = "user" THEN [job EXCEPT !.todo = job.todo \ {p}]
                     ELSE [job EXCEPT !.todo = {}, !.failed = TRUE]
  <2>1. /\ job' \in Job /\ job'.goal = job.goal /\ job'.last = job.last
        /\ \/ job.goal = "user" /\ job'.todo = job.todo \ {p}
           \/ job'.todo = {} /\ job'.failed
    BY <1>1, <1>4 DEF Job
  <2>. QED
    BY <1>1, <1>4, <2>1 DEF Removes, Fails
<1>. QED
  BY <1>3, <1>4 DEF Remove

LEMMA EndRests ==
    ASSUME PlacedInv, EndDisable \/ EndRemoval \/ EndEnable \/ OnDistributedKvDataServiceStart
    PROVE  Rests
<1>1. /\ up /\ up' = up /\ UNCHANGED <<registry, stored, checked>> /\ job' = NoJob
  BY DEF EndDisable, EndRemoval, EndEnable, OnDistributedKvDataServiceStart, Done
<1>2. edm \in BOOLEAN
  BY DEF PlacedInv, RegistryInv, TypeOK
<1>3. StaysEnabled
  BY <1>1, <1>2 DEF EndDisable, EndRemoval, EndEnable, OnDistributedKvDataServiceStart, Done,
     Nobody, StaysEnabled, registry
<1>. QED
  BY <1>1, <1>3 DEF Rests

LEMMA EndReplaceSets ==
    ASSUME PlacedInv, EndReplace
    PROVE  SetsSomebody \/ Rests
<1>1. /\ up /\ up' = up /\ job # NoJob /\ job \in Job /\ job.goal = "replace" /\ job.todo = {}
      /\ stored' = stored /\ checked' = checked /\ edm \in BOOLEAN
  BY DEF EndReplace, Done, PlacedInv, RegistryInv, TypeOK
<1>2. checked = {} /\ job.new \in Names
  BY <1>1 DEF PlacedInv, RegistryInv, CheckedIsFirst, ReplacedIsPending
<1>3. CASE job' = NoJob /\ UNCHANGED registry
  BY <1>1, <1>3 DEF EndReplace, Rests, StaysEnabled, Nobody, registry
<1>4. CASE /\ ~job.failed /\ job' = Announce
           /\ Store(Default, NewAdmin(Default, job.new, "ENT", NoName, FALSE))
  <2>. DEFINE e == NewAdmin(Default, job.new, "ENT", NoName, FALSE)
  <2>1. e \in Admin /\ e.user = Default /\ e.type = "ENT" /\ e.debug = FALSE
    BY <1>2, RegistryAssumption DEF NewAdmin, Admin, Types, Modes
  <2>. HIDE DEF e
  <2>2. Welcome(e)
    BY <1>1, <1>4, <2>1 DEF Welcome, Authorized, OfSameKind, AtItsPlace, HasRoom, ReplaceDone
  <2>3. Store(Default, e)
    BY <1>4 DEF e
  <2>. QED
    BY <1>1, <1>2, <1>4, <2>1, <2>2, <2>3, SetsNew, RegistryAssumption DEF StaysEnabled
<1>. QED
  BY <1>3, <1>4 DEF EndReplace

LEMMA CheckChecks ==
    ASSUME PlacedInv, NotOvertaken, NEW op \in {"replace", "keep"}, NEW c \in Names,
           NEW n \in Names, CheckReplace(op, c, n) \/ CheckDisableDeviceAdmin(c, n)
    PROVE  Checks
<1>1. up /\ job = NoJob /\ Sound(admins, rows)
  BY MayCheckFacts DEF CheckReplace, CheckDisableDeviceAdmin, PlacedInv, NotOvertaken
<1>2. CASE CheckReplace(op, c, n)
  <2>. DEFINE d == [op |-> op, old |-> c, new |-> n]
  <2>1. d \in Call /\ d.op = op
    BY DEF Call
  <2>2. NoDebug
    BY <1>1, <1>2 DEF CheckReplace, MayEnable, OfDebug, Sound, Admin, NoDebug
  <2>3. checked' = {d} /\ UNCHANGED <<up, registry, stored, edm, job>> /\ op \in Calls
    BY <1>2 DEF CheckReplace
  <2>. HIDE DEF d
  <2>4. StillSo(d)
    BY <2>1, <2>2, <2>3 DEF StillSo
  <2>. QED
    BY <1>1, <2>1, <2>2, <2>3, <2>4 DEF Checks
<1>3. CASE CheckDisableDeviceAdmin(c, n)
  <2>. DEFINE d == [op |-> "disableDevice", old |-> n, new |-> n]
  <2>1. d \in Call /\ d.op = "disableDevice" /\ d.old = n
    BY DEF Call
  <2>2. \A a \in At(admins, n, Default) : a.type = "NORMAL"
    BY <1>1, <1>3 DEF CheckDisableDeviceAdmin, At, Sound, Once
  <2>3. checked' = {d} /\ UNCHANGED <<up, registry, stored, edm, job>>
    BY <1>3 DEF CheckDisableDeviceAdmin
  <2>. HIDE DEF d
  <2>4. StillSo(d)
    BY <2>1, <2>2 DEF StillSo
  <2>. QED
    BY <1>1, <2>1, <2>3, <2>4 DEF Checks
<1>. QED
  BY <1>2, <1>3

LEMMA PolicyUses ==
    ASSUME PlacedInv,
           \/ \E n \in Holders, u \in Users : HandleDevicePolicy(n, u)
           \/ \E p \in saving : UpdateDevicePolicy(p)
    PROVE  Uses
<1>1. ASSUME NEW n \in Holders, NEW u \in Users, HandleDevicePolicy(n, u) PROVE Uses
  BY <1>1 DEF HandleDevicePolicy, Free, Uses
<1>2. ASSUME NEW p \in saving, UpdateDevicePolicy(p) PROVE Uses
  <2>1. p \in Pairs
    BY DEF PlacedInv, RegistryInv, TypeOK
  <2>2. policies' \ late' \subseteq (policies \ late) \cup {p}
    BY <1>2 DEF UpdateDevicePolicy
  <2>3. p \in policies' \ late' => Stays(admins, p)
    BY <1>2 DEF UpdateDevicePolicy
  <2>. QED
    BY <1>2, <2>1, <2>2, <2>3 DEF UpdateDevicePolicy, Uses
<1>. QED
  BY <1>1, <1>2

LEMMA StepKinds == ASSUME PlacedInv, NotOvertaken, [Next]_vars PROVE Steps
<1>1. CASE Enabling
  BY <1>1, EnableAdminSets, EnableDeviceAdminSets, AuthorizeAdminSets, DelegateSets,
     DelegateAnySets, EndRests DEF Enabling, Steps
<1>2. CASE Using
  BY <1>2, PolicyUses, SetAdminRunningModeSets DEF Using, Steps
<1>3. CASE Removing
  BY <1>3, DisableBegins, DisableVirtualBegins, UserRemovedBegins, RemoveRemoves, EndRests
     DEF Removing, Steps
<1>4. CASE Replacing
  BY <1>4, CheckChecks, DisableDeviceBegins, ReplaceBegins, EndReplaceSets DEF Replacing, Steps
<1>5. CASE Restarting
  BY <1>5, BootBegins, EndRests DEF Restarting, Steps
<1>6. CASE UNCHANGED vars
  BY <1>6 DEF Steps
<1>. QED
  BY <1>1, <1>2, <1>3, <1>4, <1>5, <1>6 DEF Next

-----------------------------------------------------------------------------
(* What becomes of the administrators *)

(* The same administrators but for their running modes.                       *)
Same(a, b) == Like(a, b) /\ a.parent = b.parent
Copies(s, t) == \A a \in s : \E b \in t : Same(a, b)
Alike(s, t) == Copies(s, t) /\ Copies(t, s)

LEMMA UpdateAlike ==
    ASSUME NEW s \in SUBSET Admin, NEW u, NEW e
    PROVE  Alike(s, UpdateAdmin(s, u, e))
<1>1. ASSUME NEW a \in s
      PROVE  Same(a, IF a.user = u /\ a.name = e.name THEN [a EXCEPT !.mode = e.mode] ELSE a)
  <2>1. a \in Admin
    OBVIOUS
  <2>. QED
    BY <2>1 DEF Admin, Same, Like
<1>2. \A a, b : Same(a, b) => Same(b, a)
  BY DEF Same, Like
<1>. QED
  BY <1>1, <1>2 DEF Alike, Copies, UpdateAdmin

(* SetAdminValue inserts somebody or changes nothing but a mode.              *)
LEMMA SetsEffect ==
    ASSUME PlacedInv, NEW e, Sets(e)
    PROVE  \/ /\ Lookup(e.name, e.user) = {}
              /\ admins' = admins \cup {e} /\ rows' = rows \cup {e}
           \/ Alike(admins, admins') /\ Alike(rows, rows')
<1>1. admins \in SUBSET Admin /\ rows \in SUBSET Admin
  BY DEF PlacedInv, RegistryInv, TypeOK
<1>2. Alike(rows, rows)
  BY DEF Alike, Copies, Same, Like
<1>. QED
  BY <1>1, <1>2, UpdateAlike DEF Sets, Store

(* A replacement that keeps policies: in memory the one administrator gets    *)
(* another name and others another parent; in the table a new row replaces    *)
(* the old one, or only parents have changed.                                 *)
LEMMA KeepEffect ==
    ASSUME PlacedInv, NEW c \in checked, KeepPolicy(c)
    PROVE  /\ up /\ up' = up /\ job' = Announce /\ checked' = {} /\ edm' = edm
           /\ "keep" \in Calls /\ NoDebug
           /\ \A a \in admins' : \E b \in admins :
                 a.type = b.type /\ a.user = b.user /\ a.debug = b.debug
<1>1. /\ up /\ up' = up /\ job' = Announce /\ checked' = {} /\ edm' = edm /\ c.op = "keep"
      /\ admins \subseteq Admin
  BY DEF KeepPolicy, PlacedInv, RegistryInv, TypeOK
<1>2. "keep" \in Calls /\ NoDebug
  BY <1>1 DEF PlacedInv, StillSo
<1>3. CASE admins' = UpdateParentAdminName(Rename(admins, c.old, c.new), c.old, c.new)
  <2>1. \A a \in Admin : \A n : /\ [a EXCEPT !.name = n].type = a.type
                                /\ [a EXCEPT !.name = n].user = a.user
                                /\ [a EXCEPT !.name = n].debug = a.debug
    BY DEF Admin
  <2>2. \A a \in Rename(admins, c.old, c.new) : \E b \in admins :
           a = b \/ a = [b EXCEPT !.name = c.new]
    BY DEF Rename
  <2>3. ASSUME NEW a \in admins'
        PROVE  \E b \in Rename(admins, c.old, c.new) : a = b \/ a = [b EXCEPT !.parent = c.new]
    BY <1>3 DEF UpdateParentAdminName
  <2>4. ASSUME NEW b \in admins
        PROVE  /\ [b EXCEPT !.parent = c.new].type = b.type
               /\ [b EXCEPT !.parent = c.new].user = b.user
               /\ [b EXCEPT !.parent = c.new].debug = b.debug
               /\ [[b EXCEPT !.name = c.new] EXCEPT !.parent = c.new].type = b.type
               /\ [[b EXCEPT !.name = c.new] EXCEPT !.parent = c.new].user = b.user
               /\ [[b EXCEPT !.name = c.new] EXCEPT !.parent = c.new].debug = b.debug
    <3>1. b \in Admin
      BY <1>1
    <3>. QED
      BY <3>1 DEF Admin
  <2>5. ASSUME NEW a \in admins'
        PROVE  \E b \in admins : a.type = b.type /\ a.user = b.user /\ a.debug = b.debug
    <3>1. PICK d \in Rename(admins, c.old, c.new) : a = d \/ a = [d EXCEPT !.parent = c.new]
      BY <2>3
    <3>2. PICK b \in admins : d = b \/ d = [b EXCEPT !.name = c.new]
      BY <2>2
    <3>3. b \in Admin
      BY <1>1
    <3>4. /\ [b EXCEPT !.name = c.new].type = b.type /\ [b EXCEPT !.name = c.new].user = b.user
          /\ [b EXCEPT !.name = c.new].debug = b.debug
      BY <2>1, <3>3
    <3>5. /\ [b EXCEPT !.parent = c.new].type = b.type
          /\ [b EXCEPT !.parent = c.new].user = b.user
          /\ [b EXCEPT !.parent = c.new].debug = b.debug
          /\ [[b EXCEPT !.name = c.new] EXCEPT !.parent = c.new].type = b.type
          /\ [[b EXCEPT !.name = c.new] EXCEPT !.parent = c.new].user = b.user
          /\ [[b EXCEPT !.name = c.new] EXCEPT !.parent = c.new].debug = b.debug
      BY <2>4, Zenon
    <3>6. a.type = b.type /\ a.user = b.user /\ a.debug = b.debug
      BY <3>1, <3>2, <3>4, <3>5, Zenon
    <3>. QED
      BY <3>6
  <2>. QED
    BY <1>1, <1>2, <2>5
<1>4. CASE admins' = admins
  BY <1>1, <1>2, <1>4
<1>. QED
  BY <1>3, <1>4 DEF KeepPolicy

(* When the process starts, it loads the table; it held nothing before.       *)
LEMMA StartEffect ==
    ASSUME PlacedInv, Start
    PROVE  /\ ~up /\ up' /\ admins' = rows /\ rows' = rows /\ checked' = {}
           /\ job'.goal = "boot" /\ job'.todo = {} /\ UNCHANGED <<stored, edm>>
<1>1. PICK queue \in SUBSET {a.name : a \in rows} :
         job' = [NewJob("boot", {}, NoName) EXCEPT !.queue = queue]
  BY DEF Start
<1>2. job'.goal = "boot" /\ job'.todo = {}
  BY <1>1 DEF NewJob
<1>. QED
  BY <1>2 DEF Start, PlacedInv, RegistryInv, DownIsEmpty

LEMMA JobsOver ==
    NoJob \notin Job /\ NoJob.goal = "none" /\ Announce.goal = "announce" /\ Announce.todo = {}
  BY DEF NoJob, Job, Announce, NewJob

(* The table follows memory while the service runs, and rests otherwise.      *)
LEMMA RowsFollow ==
    ASSUME PlacedInv, Steps
    PROVE  up' \/ UNCHANGED rows
<1>1. ASSUME NEW c \in checked, KeepPolicy(c) PROVE up'
  BY <1>1, KeepEffect
<1>2. Start => up'
  BY StartEffect
<1>. QED
  BY <1>1, <1>2 DEF Steps, SetsSomebody, Sets, Begins, Removes, Rests, Checks, Uses, Crash, vars,
     registry

-----------------------------------------------------------------------------
(* Where administrators are *)

LEMMA PlacedAlike ==
    ASSUME NEW s, NEW t, Placed(s), Covers(t, s)
    PROVE  Placed(t)
  BY DEF Placed, Covers, Like

LEMMA PlacedStep ==
    ASSUME PlacedInv, NotOvertaken, [Next]_vars
    PROVE  PlacedInv'
<1>1. RegistryInv' /\ Steps
  BY RegistryStep, StepKinds DEF PlacedInv, NotOvertaken
<1>2. Placed(admins)'
  <2>1. ASSUME NEW e, Sets(e), Lookup(e.name, e.user) = {} => Welcome(e) PROVE Placed(admins)'
    <3>1. CASE Lookup(e.name, e.user) = {} /\ admins' = admins \cup {e}
      BY <2>1, <3>1 DEF Placed, PlacedInv, Welcome, AtItsPlace
    <3>2. CASE Alike(admins, admins')
      BY <3>2 DEF Placed, PlacedInv, Alike, Copies, Same, Like
    <3>. QED
      BY <2>1, <3>1, <3>2, SetsEffect
  <2>2. ASSUME NEW c \in checked, KeepPolicy(c) PROVE Placed(admins)'
    BY <2>2, KeepEffect DEF Placed, PlacedInv
  <2>3. ASSUME NEW p \in Pairs, Removes(p) PROVE Placed(admins)'
    BY <2>3 DEF Removes, Deletes, Fails, Placed, PlacedInv, registry
  <2>4. Start => Placed(admins)'
    BY StartEffect DEF Placed, PlacedInv
  <2>5. Crash => Placed(admins)'
    BY DEF Crash, Placed
  <2>6. UNCHANGED admins => Placed(admins)'
    BY DEF Placed, PlacedInv
  <2>. QED
    BY <1>1, <2>1, <2>2, <2>3, <2>4, <2>5, <2>6 DEF Steps, SetsSomebody, Begins, Rests, Checks,
       Uses, vars, registry
<1>3. Placed(rows)'
  <2>1. CASE up'
    BY <1>1, <1>2, <2>1, PlacedAlike DEF RegistryInv, TableAgrees
  <2>2. CASE UNCHANGED rows
    BY <2>2 DEF Placed, PlacedInv
  <2>. QED
    BY <1>1, <2>1, <2>2, RowsFollow
<1>4. \A c \in checked' : StillSo(c)'
  <2>1. CASE UNCHANGED admins /\ checked' \subseteq checked
    BY <2>1 DEF PlacedInv, StillSo, NoDebug, At
  <2>2. CASE checked' = {}
    BY <2>2
  <2>3. CASE Checks
    BY <2>3 DEF Checks, StillSo, NoDebug, At, registry
  <2>4. Start => checked' = {}
    BY StartEffect
  <2>5. ASSUME NEW c \in checked, KeepPolicy(c) PROVE checked' = {}
    BY <2>5, KeepEffect
  <2>. QED
    BY <1>1, <2>1, <2>2, <2>3, <2>4, <2>5 DEF Steps, SetsSomebody, Sets, Begins, Removes, Rests,
       Uses, Crash, vars, registry
<1>. QED
  BY <1>1, <1>2, <1>3, <1>4 DEF PlacedInv

LEMMA InitPlaced == Init => PlacedInv
<1>1. Init => RegistryInv
  BY InitRegistryInv
<1>. QED
  BY <1>1 DEF Init, PlacedInv, Placed

(* The invariant of the registry with what administrators of a type have in   *)
(* common and what a call that waits for adminLock_ knows.                    *)
THEOREM PlacedInvariant == ASSUME NotOvertaken PROVE Spec => []PlacedInv
<1>1. PlacedInv /\ [Next]_vars => PlacedInv'
  BY PlacedStep
<1>. QED
  BY <1>1, InitPlaced, PTL DEF Spec

(* Whatever the operations do, the table holds administrators, a job removes  *)
(* pairs of a package and a user and the calls that wait are calls.           *)
THEOREM RegistryTypes == ASSUME NotOvertaken PROVE Spec => []TypeOK
<1>1. RegistryInv => TypeOK
  BY DEF RegistryInv
<1>. QED
  BY <1>1, RegistryInvariant, PTL DEF NotOvertaken

-----------------------------------------------------------------------------
(* The table is memory *)

NeverKept == "keep" \notin Calls
StoredInv == up => Alike(admins, rows)

LEMMA AlikePlain ==
    ASSUME NEW s, NEW t, Alike(s, t)
    PROVE  Plain(s) = Plain(t)
  BY DEF Alike, Copies, Same, Like, Plain

LEMMA NoKeep ==
    ASSUME PlacedInv, NeverKept, NEW c \in checked
    PROVE  ~KeepPolicy(c)
  BY KeepEffect DEF NeverKept

LEMMA StoredStep ==
    ASSUME PlacedInv, StoredInv, NotOvertaken, NeverKept, [Next]_vars
    PROVE  StoredInv'
<1>1. Steps
  BY StepKinds
<1>2. ASSUME NEW e, Sets(e) PROVE StoredInv'
  <2>1. Alike(admins, rows)
    BY <1>2 DEF StoredInv, Sets
  <2>2. CASE admins' = admins \cup {e} /\ rows' = rows \cup {e}
    BY <2>1, <2>2 DEF StoredInv, Alike, Copies, Same, Like
  <2>3. CASE Alike(admins, admins') /\ Alike(rows, rows')
    BY <2>1, <2>3 DEF StoredInv, Alike, Copies, Same, Like
  <2>. QED
    BY <1>2, <2>2, <2>3, SetsEffect
<1>3. ASSUME NEW p \in Pairs, Removes(p) PROVE StoredInv'
  <2>1. Alike(admins, rows)
    BY <1>3 DEF StoredInv, Removes
  <2>2. CASE Deletes(p)
    BY <2>1, <2>2 DEF Deletes, StoredInv, Alike, Copies, Same, Like, At
  <2>3. CASE Fails(p)
    BY <2>1, <2>3 DEF Fails, StoredInv, Alike, Copies, registry
  <2>. QED
    BY <1>3, <2>2, <2>3 DEF Removes
<1>4. Start => StoredInv'
  BY StartEffect DEF StoredInv, Alike, Copies, Same, Like
<1>5. Crash => StoredInv'
  BY DEF Crash, StoredInv
<1>6. UNCHANGED <<up, registry>> => StoredInv'
  BY DEF StoredInv, Alike, Copies, registry
<1>. QED
  BY <1>1, <1>2, <1>3, <1>4, <1>5, <1>6, NoKeep DEF Steps, SetsSomebody, Begins, Rests, Checks,
     Uses, vars, registry

(* Memory and table hold the same administrators, but for their modes.        *)
THEOREM StoredInvariant ==
    ASSUME NotOvertaken, NeverKept
    PROVE  Spec => [](PlacedInv /\ StoredInv)
<1>1. Init => StoredInv
  BY DEF Init, StoredInv, Alike, Copies
<1>2. PlacedInv /\ StoredInv /\ [Next]_vars => StoredInv'
  BY StoredStep
<1>. QED
  BY <1>1, <1>2, PlacedInvariant, PTL DEF Spec

(* SetAdminValue and DeleteAdmin write to memory what they write to the       *)
(* table: a restart loads the same administrators, unless a replacement kept  *)
(* policies.                                                                  *)
THEOREM RestartsLoadTheSame ==
    ASSUME NotOvertaken, NeverKept
    PROVE  Spec => []MemoryIsStored
<1>1. StoredInv => MemoryIsStored
  BY AlikePlain DEF StoredInv, MemoryIsStored
<1>. QED
  BY <1>1, StoredInvariant, PTL

-----------------------------------------------------------------------------
(* Debug administrators *)

NotMixed(s) == \A a, b \in s : a.type # "VIRTUAL" /\ b.type # "VIRTUAL" => a.debug = b.debug
DebugInv ==
    /\ NotMixed(admins) /\ NotMixed(rows)
    /\ job.goal = "replace" => NoDebug

LEMMA MixedFollows ==
    ASSUME NEW s, NEW t, NotMixed(s), Covers(t, s)
    PROVE  NotMixed(t)
  BY DEF NotMixed, Covers, Like

LEMMA SetsNotMixed ==
    ASSUME PlacedInv, DebugInv, NEW e, Sets(e), Lookup(e.name, e.user) = {} => Welcome(e)
    PROVE  NotMixed(admins)'
<1>1. CASE Lookup(e.name, e.user) = {} /\ admins' = admins \cup {e}
  <2>1. admins \subseteq Admin /\ e \in Admin
    BY DEF PlacedInv, RegistryInv, TypeOK, Sets
  <2>2. \A a \in admins : a.type # "VIRTUAL" /\ e.type # "VIRTUAL" => a.debug = e.debug
    <3>1. CASE \E s \in admins : s.type # "VIRTUAL" /\ s.debug = e.debug
      BY <3>1 DEF DebugInv, NotMixed
    <3>2. CASE job.goal = "replace" /\ ~e.debug
      BY <2>1, <3>2 DEF DebugInv, NoDebug, Admin
    <3>. QED
      BY <1>1, <3>1, <3>2 DEF Welcome, OfSameKind
  <2>. QED
    BY <1>1, <2>2 DEF DebugInv, NotMixed
<1>2. CASE Alike(admins, admins')
  BY <1>2 DEF DebugInv, NotMixed, Alike, Copies, Same, Like
<1>. QED
  BY <1>1, <1>2, SetsEffect

LEMMA DebugStep ==
    ASSUME PlacedInv, PlacedInv', DebugInv, NotOvertaken, [Next]_vars
    PROVE  DebugInv'
<1>1. Steps
  BY StepKinds
<1>2. ASSUME NEW c \in checked, KeepPolicy(c)
      PROVE  NotMixed(admins)' /\ job'.goal # "replace"
  <2>1. /\ NoDebug /\ job' = Announce
        /\ \A a \in admins' : \E b \in admins : a.debug = b.debug
    BY <1>2, KeepEffect
  <2>2. \A a \in admins' : a.debug \in BOOLEAN /\ ~a.debug
    BY <2>1 DEF NoDebug, PlacedInv, RegistryInv, TypeOK, Admin
  <2>. QED
    BY <2>1, <2>2, JobsOver DEF NotMixed
<1>3. NotMixed(admins)'
  <2>1. ASSUME NEW p \in Pairs, Removes(p) PROVE NotMixed(admins)'
    BY <2>1 DEF Removes, Deletes, Fails, NotMixed, DebugInv, registry
  <2>2. Start => NotMixed(admins)'
    BY StartEffect DEF DebugInv
  <2>3. Crash => NotMixed(admins)'
    BY DEF Crash, NotMixed
  <2>4. UNCHANGED admins => NotMixed(admins)'
    BY DEF DebugInv, NotMixed
  <2>. QED
    BY <1>1, <1>2, <2>1, <2>2, <2>3, <2>4, SetsNotMixed DEF Steps, SetsSomebody, Begins, Rests,
       Checks, Uses, vars, registry
<1>4. NotMixed(rows)'
  <2>1. CASE up'
    BY <1>3, <2>1, MixedFollows DEF PlacedInv, RegistryInv, TableAgrees
  <2>2. CASE UNCHANGED rows
    BY <2>2 DEF DebugInv, NotMixed
  <2>. QED
    BY <1>1, <2>1, <2>2, RowsFollow
<1>5. job'.goal = "replace" => NoDebug'
  <2>1. CASE Begins
    BY <2>1 DEF Begins, PlacedInv, StillSo, NoDebug, registry
  <2>2. ASSUME NEW p \in Pairs, Removes(p) PROVE job'.goal = "replace" => NoDebug'
    BY <2>2 DEF Removes, Deletes, Fails, DebugInv, NoDebug, registry
  <2>3. job' \in {NoJob, Announce} => job'.goal # "replace"
    BY JobsOver
  <2>4. Start => job'.goal # "replace"
    BY StartEffect
  <2>5. UNCHANGED <<admins, job>> => (job'.goal = "replace" => NoDebug')
    BY DEF DebugInv, NoDebug
  <2>. QED
    BY <1>1, <1>2, <2>1, <2>2, <2>3, <2>4, <2>5 DEF Steps, SetsSomebody, Sets, Rests, Checks,
       Uses, Crash, vars, registry
<1>. QED
  BY <1>3, <1>4, <1>5 DEF DebugInv

(* VerifyEnableAdminCondition looks for administrators of the other kind, and *)
(* a replacement, which checked before it took the lock, adds none: only      *)
(* delegation lets debug and official administrators meet.                    *)
THEOREM DebugKeptApart == ASSUME NotOvertaken PROVE Spec => []DebugNotMixed
<1>1. Init => DebugInv
  BY DEF Init, DebugInv, NotMixed, NoJob
<1>2. PlacedInv /\ PlacedInv' /\ DebugInv /\ [Next]_vars => DebugInv'
  BY DebugStep
<1>3. DebugInv => DebugNotMixed
  BY DEF DebugInv, NotMixed, DebugNotMixed
<1>. QED
  BY <1>1, <1>2, <1>3, PlacedInvariant, PTL DEF Spec

-----------------------------------------------------------------------------
(* The parameter *)

NeverDies == "crash" \notin Env
EnabledInv == up /\ (admins # {} => edm = TRUE \/ job.goal = "announce")

LEMMA EnabledStep ==
    ASSUME PlacedInv, EnabledInv, NotOvertaken, NeverDies, [Next]_vars
    PROVE  EnabledInv'
<1>1. Steps
  BY StepKinds
<1>2. StaysEnabled /\ up' = up => EnabledInv'
  BY JobsOver DEF StaysEnabled, EnabledInv
<1>3. ASSUME NEW p \in Pairs, Removes(p) PROVE EnabledInv'
  BY <1>3 DEF Removes, Deletes, Fails, EnabledInv, registry
<1>4. ASSUME NEW c \in checked, KeepPolicy(c) PROVE EnabledInv'
  BY <1>4, KeepEffect, JobsOver DEF EnabledInv
<1>5. ~Crash /\ ~Start
  BY StartEffect DEF Crash, NeverDies, EnabledInv
<1>6. UNCHANGED <<up, admins, edm, job>> => EnabledInv'
  BY DEF EnabledInv
<1>. QED
  BY <1>1, <1>2, <1>3, <1>4, <1>5, <1>6 DEF Steps, SetsSomebody, Sets, Begins, Rests, Checks,
     Uses, vars, registry

(* Each removal sets the parameter back only when IsAdminExist finds nobody,  *)
(* and each enabling sets it again: the service is started at boot as long as *)
(* there are administrators, if the process does not die in between.          *)
THEOREM EnabledForAdmins ==
    ASSUME NotOvertaken, NeverDies
    PROVE  Spec => []EnabledWhileAdmins
<1>1. Init => EnabledInv
  BY DEF Init, EnabledInv
<1>2. PlacedInv /\ EnabledInv /\ [Next]_vars => EnabledInv'
  BY EnabledStep
<1>3. EnabledInv => EnabledWhileAdmins
  BY JobsOver DEF EnabledInv, EnabledWhileAdmins
<1>. QED
  BY <1>1, <1>2, <1>3, PlacedInvariant, PTL DEF Spec

-----------------------------------------------------------------------------
(* The limit *)

(* The names of those that GetSuperDeviceAdminAndDeviceAdminCount counts.     *)
CountedIn(s) == {a \in s : a.user = Default /\ a.type \in {"ENT", "NORMAL"}}
NamesOf(s) == {a.name : a \in CountedIn(s)}
Room(n) == Cardinality(NamesOf(rows)) + n <= MaxCount
CountInv ==
    /\ IsFiniteSet(NamesOf(rows)) /\ Room(0)
    /\ job \in Job /\ job.goal = "replace" /\ ~job.failed =>
          \/ \E a \in admins : Official(a) /\ <<a.name, Default>> \in job.todo
          \/ Room(1)

(* Each is counted under one name, and the table counts the same.             *)
LEMMA CountedByName ==
    ASSUME PlacedInv, up, IsFiniteSet(NamesOf(rows))
    PROVE  Cardinality(Counted) = Cardinality(NamesOf(rows))
<1>1. Sound(admins, rows)
  BY RunningIsSound DEF PlacedInv
<1>2. NamesOf(admins) = NamesOf(rows)
  BY <1>1 DEF Sound, Covers, Like, NamesOf, CountedIn
<1>. DEFINE f == [a \in Counted |-> a.name]
<1>3. f \in Bijection(Counted, NamesOf(rows))
  <2>1. f \in [Counted -> NamesOf(rows)]
    BY <1>2 DEF NamesOf, CountedIn, Counted
  <2>2. \A a, b \in Counted : f[a] = f[b] => a = b
    BY <1>1 DEF Counted, Sound, Once
  <2>3. \A n \in NamesOf(rows) : \E a \in Counted : f[a] = n
    BY <1>2 DEF NamesOf, CountedIn, Counted
  <2>. QED
    BY <2>1, <2>2, <2>3, Fun_IsBij
<1>. HIDE DEF f
<1>4. ExistsBijection(NamesOf(rows), Counted)
  BY <1>3, Fun_ExistsBijSymmetric DEF ExistsBijection
<1>. QED
  BY <1>4, FS_Bijection

(* A new administrator takes one place at most.                               *)
LEMMA SetsCounted ==
    ASSUME PlacedInv, CountInv, NEW e, Sets(e), Lookup(e.name, e.user) = {} => Welcome(e)
    PROVE  IsFiniteSet(NamesOf(rows)') /\ Room(0)'
<1>1. CASE Alike(rows, rows')
  <2>1. NamesOf(rows)' = NamesOf(rows)
    BY <1>1 DEF Alike, Copies, Same, Like, NamesOf, CountedIn
  <2>. QED
    BY <2>1 DEF CountInv, Room
<1>2. CASE Lookup(e.name, e.user) = {} /\ rows' = rows \cup {e} /\ e \notin CountedIn({e})
  <2>1. NamesOf(rows)' = NamesOf(rows)
    BY <1>2 DEF NamesOf, CountedIn
  <2>. QED
    BY <2>1 DEF CountInv, Room
<1>3. CASE Lookup(e.name, e.user) = {} /\ rows' = rows \cup {e} /\ e \in CountedIn({e})
  <2>1. NamesOf(rows)' = NamesOf(rows) \cup {e.name}
    BY <1>3 DEF NamesOf, CountedIn
  <2>2. up /\ (~Full \/ ReplaceDone)
    BY <1>3 DEF Welcome, HasRoom, CountedIn, Sets
  <2>3. Cardinality(NamesOf(rows)) \in Nat /\ MaxCount \in Nat
    BY FS_CardinalityType, RegistryAssumption DEF CountInv
  <2>4. Room(1)
    <3>1. CASE ~Full
      <4>1. Cardinality(Counted) = Cardinality(NamesOf(rows))
        BY <2>2, CountedByName DEF CountInv
      <4>. QED
        BY <2>3, <3>1, <4>1 DEF Full, Room
    <3>2. CASE ReplaceDone
      BY <3>2 DEF ReplaceDone, CountInv
    <3>. QED
      BY <2>2, <3>1, <3>2
  <2>5. /\ IsFiniteSet(NamesOf(rows) \cup {e.name})
        /\ Cardinality(NamesOf(rows) \cup {e.name}) <= Cardinality(NamesOf(rows)) + 1
    BY <2>3, FS_AddElement DEF CountInv
  <2>6. Cardinality(NamesOf(rows) \cup {e.name}) \in Nat
    BY <2>5, FS_CardinalityType
  <2>. QED
    BY <2>1, <2>3, <2>4, <2>5, <2>6 DEF Room
<1>. QED
  BY <1>1, <1>2, <1>3, SetsEffect DEF CountedIn

(* A removal gives back a place, that of the administrator to be replaced.    *)
LEMMA DeletesCounted ==
    ASSUME PlacedInv, CountInv, NEW p \in Pairs, Removes(p), Deletes(p)
    PROVE  CountInv'
<1>1. /\ Sound(admins, rows) /\ p = <<p[1], p[2]>> /\ job \in Job
      /\ job'.goal = job.goal /\ job'.todo = job.todo \ {p} /\ job'.failed = job.failed
  BY RunningIsSound DEF PlacedInv, Removes, Deletes, Pairs
<1>2. /\ NamesOf(rows)' \subseteq NamesOf(rows)
      /\ p[2] = Default => NamesOf(rows)' = NamesOf(rows) \ {p[1]}
  BY DEF Deletes, NamesOf, CountedIn, At
<1>3. Cardinality(NamesOf(rows)) \in Nat /\ MaxCount \in Nat
  BY FS_CardinalityType, RegistryAssumption DEF CountInv
<1>4. /\ IsFiniteSet(NamesOf(rows)') /\ Cardinality(NamesOf(rows)') \in Nat
      /\ Cardinality(NamesOf(rows)') <= Cardinality(NamesOf(rows))
  BY <1>2, FS_Subset, FS_CardinalityType DEF CountInv
<1>5. \A n \in {0, 1} : Room(n) => Room(n)'
  BY <1>3, <1>4 DEF Room
<1>6. ASSUME job.goal = "replace", ~job.failed
      PROVE  \/ \E a \in admins' : Official(a) /\ <<a.name, Default>> \in job'.todo
             \/ Room(1)'
  <2>1. CASE Room(1)
    BY <1>5, <2>1
  <2>2. CASE \E a \in admins : Official(a) /\ <<a.name, Default>> \in job.todo
    <3>1. PICK a \in admins : Official(a) /\ <<a.name, Default>> \in job.todo
      BY <2>2
    <3>2. CASE p = <<a.name, Default>>
      <4>1. a.name \in NamesOf(rows)
        <5>1. PICK b \in rows : Like(a, b)
          BY <1>1 DEF Sound, Covers
        <5>. QED
          BY <3>1, <5>1 DEF Like, Official, NamesOf, CountedIn
      <4>2. NamesOf(rows)' = NamesOf(rows) \ {a.name}
        BY <1>2, <3>2
      <4>3. Cardinality(NamesOf(rows) \ {a.name}) = Cardinality(NamesOf(rows)) - 1
        BY <4>1, FS_RemoveElement DEF CountInv
      <4>. QED
        BY <1>3, <4>2, <4>3 DEF CountInv, Room
    <3>3. CASE p # <<a.name, Default>>
      <4>1. a \in admins'
        BY <1>1, <3>1, <3>3 DEF Deletes, At, Official
      <4>. QED
        BY <1>1, <3>1, <3>3, <4>1
    <3>. QED
      BY <3>2, <3>3
  <2>. QED
    BY <1>1, <1>6, <2>1, <2>2 DEF CountInv
<1>. QED
  BY <1>1, <1>4, <1>5, <1>6 DEF CountInv

(* The new name takes the place of the old one.                               *)
LEMMA KeepCounted ==
    ASSUME PlacedInv, CountInv, NEW c \in checked, KeepPolicy(c)
    PROVE  CountInv'
<1>1. /\ up /\ job' = Announce /\ c \in Call /\ c.op = "keep" /\ rows \subseteq Admin
  BY DEF KeepPolicy, PlacedInv, RegistryInv, TypeOK
<1>2. \A s, names : s \subseteq Admin =>
         LET t == Reparent(s, c.old, c.new, names) IN
         t \subseteq Admin /\ NamesOf(t) = NamesOf(s)
  <2>1. ASSUME NEW s \in SUBSET Admin, NEW names
        PROVE  LET t == Reparent(s, c.old, c.new, names) IN
               t \subseteq Admin /\ NamesOf(t) = NamesOf(s)
    <3>. DEFINE t == Reparent(s, c.old, c.new, names)
                f == [a \in s |-> IF a.parent = c.old /\ a.name \in names
                                  THEN [a EXCEPT !.parent = c.new] ELSE a]
    <3>1. \A a \in s : /\ f[a] \in Admin /\ f[a].name = a.name /\ f[a].user = a.user
                       /\ f[a].type = a.type
      <4>1. ASSUME NEW a \in Admin
            PROVE  LET b == [a EXCEPT !.parent = c.new] IN
                   b \in Admin /\ b.name = a.name /\ b.user = a.user /\ b.type = a.type
        BY <1>1 DEF Admin, Call
      <4>. QED
        BY <4>1
    <3>2. t = {f[a] : a \in s}
      BY DEF Reparent
    <3>. HIDE DEF f, t
    <3>3. t \subseteq Admin /\ NamesOf(t) = NamesOf(s)
      BY <3>1, <3>2 DEF NamesOf, CountedIn
    <3>. QED
      BY <3>3 DEF t
  <2>. QED
    BY <2>1
<1>3. CASE \E names : rows' = Reparent(rows, c.old, c.new, names)
  <2>1. NamesOf(rows)' = NamesOf(rows)
    BY <1>1, <1>2, <1>3
  <2>. QED
    BY <1>1, <2>1, JobsOver DEF CountInv, Room
<1>4. CASE rows' = ReplaceRow(Reparent(rows, c.old, c.new, Subs(c.old)), c.old, c.new)
  <2>. DEFINE s == Reparent(rows, c.old, c.new, Subs(c.old))
  <2>1. NamesOf(s) = NamesOf(rows)
    BY <1>1, <1>2
  <2>. HIDE DEF s
  <2>2. NamesOf(rows)' \subseteq (NamesOf(rows) \ {c.old}) \cup {c.new}
    <3>1. rows' = ReplaceRow(s, c.old, c.new)
      BY <1>4 DEF s
    <3>2. \A a \in rows' : \/ a = NewAdmin(Default, c.new, "ENT", NoName, FALSE)
                           \/ a \in s /\ a \notin At(s, c.old, Default)
      BY <3>1 DEF ReplaceRow
    <3>3. NewAdmin(Default, c.new, "ENT", NoName, FALSE).name = c.new
      BY DEF NewAdmin
    <3>. QED
      BY <2>1, <3>2, <3>3 DEF NamesOf, CountedIn, At
  <2>3. c.old \in NamesOf(rows)
    <3>1. PICK a \in admins : Official(a) /\ a.name = c.old
      BY <1>1 DEF PlacedInv, RegistryInv, CheckedIsOfficial
    <3>2. PICK b \in rows : Like(a, b)
      BY <1>1 DEF PlacedInv, RegistryInv, TableAgrees, Covers
    <3>. QED
      BY <3>1, <3>2 DEF Like, Official, NamesOf, CountedIn
  <2>. DEFINE N == NamesOf(rows) \ {c.old}
  <2>4. IsFiniteSet(N) /\ Cardinality(N) = Cardinality(NamesOf(rows)) - 1
    BY <2>3, FS_RemoveElement DEF CountInv
  <2>. HIDE DEF N
  <2>5. IsFiniteSet(N \cup {c.new}) /\ Cardinality(N \cup {c.new}) <= Cardinality(N) + 1
    <3>1. Cardinality(N) \in Nat
      BY <2>4, FS_CardinalityType
    <3>2. /\ IsFiniteSet(N \cup {c.new})
          /\ Cardinality(N \cup {c.new}) = IF c.new \in N THEN Cardinality(N) ELSE Cardinality(N) + 1
      BY <2>4, FS_AddElement, Zenon
    <3>. QED
      BY <3>1, <3>2
  <2>6. NamesOf(rows)' \subseteq N \cup {c.new}
    BY <2>2 DEF N
  <2>7. /\ IsFiniteSet(NamesOf(rows)') /\ Cardinality(NamesOf(rows)') \in Nat
        /\ Cardinality(NamesOf(rows)') <= Cardinality(N \cup {c.new})
    BY <2>5, <2>6, FS_Subset, FS_CardinalityType
  <2>8. /\ Cardinality(N \cup {c.new}) \in Nat /\ Cardinality(NamesOf(rows)) \in Nat
        /\ MaxCount \in Nat
    BY <2>5, FS_CardinalityType, RegistryAssumption DEF CountInv
  <2>9. Room(0)'
    BY <2>4, <2>5, <2>7, <2>8 DEF CountInv, Room
  <2>. QED
    BY <1>1, <2>7, <2>9, JobsOver DEF CountInv
<1>. QED
  BY <1>3, <1>4 DEF KeepPolicy

LEMMA CountStep ==
    ASSUME PlacedInv, CountInv, NotOvertaken, [Next]_vars
    PROVE  CountInv'
<1>1. Steps
  BY StepKinds
<1>2. ASSUME UNCHANGED rows, job' \in Job /\ job'.goal = "replace" /\ ~job'.failed =>
                \/ \E a \in admins' : Official(a) /\ <<a.name, Default>> \in job'.todo
                \/ Room(1)
      PROVE  CountInv'
  BY <1>2 DEF CountInv, Room
<1>3. ASSUME NEW e, Sets(e), Lookup(e.name, e.user) = {} => Welcome(e) PROVE CountInv'
  <2>1. job' \notin Job \/ job'.goal # "replace"
    BY <1>3, JobsOver DEF Sets
  <2>. QED
    BY <1>3, <2>1, SetsCounted DEF CountInv
<1>4. CASE Begins
  BY <1>2, <1>4 DEF Begins, registry
<1>5. ASSUME NEW p \in Pairs, Removes(p) PROVE CountInv'
  <2>1. CASE Deletes(p)
    BY <1>5, <2>1, DeletesCounted
  <2>2. CASE Fails(p)
    BY <1>2, <1>5, <2>2 DEF Removes, Fails, registry
  <2>. QED
    BY <1>5, <2>1, <2>2 DEF Removes
<1>6. Rests => CountInv'
  BY <1>2, JobsOver DEF Rests, registry
<1>7. UNCHANGED <<admins, rows, job>> => CountInv'
  BY <1>2 DEF CountInv
<1>8. Crash => CountInv'
  BY <1>2, JobsOver DEF Crash
<1>9. Start => CountInv'
  BY <1>2, StartEffect
<1>. QED
  BY <1>1, <1>3, <1>4, <1>5, <1>6, <1>7, <1>8, <1>9, KeepCounted DEF Steps, SetsSomebody, Checks,
     Uses, vars, registry

(* The check of MAX_SDA_AND_DA_COUNT before an administrator is stored is     *)
(* enough: a replacement, which does not check, stores the new administrator  *)
(* only when the old one has gone.                                            *)
THEOREM LimitIsKept == ASSUME NotOvertaken PROVE Spec => []CountBounded
<1>1. Init => CountInv
  <2>1. ASSUME Init PROVE CountInv
    <3>1. NamesOf(rows) = {}
      BY <2>1 DEF Init, NamesOf, CountedIn
    <3>. QED
      BY <2>1, <3>1, FS_EmptySet, RegistryAssumption, JobsOver DEF CountInv, Room, Init
  <2>. QED
    BY <2>1
<1>2. PlacedInv /\ CountInv /\ [Next]_vars => CountInv'
  BY CountStep
<1>3. PlacedInv /\ CountInv => CountBounded
  <2>1. ASSUME PlacedInv, CountInv, up PROVE CountBounded
    <3>1. Cardinality(NamesOf(rows)) \in Nat /\ MaxCount \in Nat
      BY <2>1, FS_CardinalityType, RegistryAssumption DEF CountInv
    <3>. QED
      BY <2>1, <3>1, CountedByName DEF CountInv, CountBounded, Room
  <2>2. ASSUME PlacedInv, CountInv, ~up PROVE CountBounded
    <3>1. Counted = {}
      BY <2>2 DEF PlacedInv, RegistryInv, DownIsEmpty, Counted
    <3>. QED
      BY <3>1, FS_EmptySet, RegistryAssumption DEF CountBounded
  <2>. QED
    BY <2>1, <2>2
<1>. QED
  BY <1>1, <1>2, <1>3, PlacedInvariant, PTL DEF Spec

-----------------------------------------------------------------------------
(* Subordinates *)

NeverDelegated == "delegate" \notin Calls
NeverVirtual == Calls \cap {"delegate", "delegateAny"} = {}

SubsIn(s) ==
    \A a \in s : a.type = "SUB" =>
        \E b \in s : b.user = Default /\ b.type = "ENT" /\ b.name = a.parent

(* A job that removes a super administrator removes the subordinates first.   *)
SupersGoLast ==
    \A b \in admins : b.type = "ENT" /\ <<b.name, Default>> \in job.todo =>
        /\ job.last = b.name
        /\ \A m \in Subs(b.name) : <<m, Default>> \in job.todo
UserTodo == job.goal = "user" => \A q \in job.todo : q[2] # Default
HierarchyInv ==
    /\ SubsIn(admins) /\ SubsIn(rows)
    /\ job \in Job => SupersGoLast /\ UserTodo

LEMMA SubsAlike ==
    ASSUME NEW s, NEW t, SubsIn(s), Alike(s, t)
    PROVE  SubsIn(t)
  BY DEF SubsIn, Alike, Copies, Same, Like

(* Who is told to be removed when a removal begins.                           *)
LEMMA BeginsInOrder ==
    ASSUME PlacedInv, NeverDelegated, Begins
    PROVE  SupersGoLast' /\ UserTodo'
<1>1. Sound(admins, rows) /\ admins' = admins
  BY RunningIsSound DEF Begins, PlacedInv, registry
<1>2. UserTodo'
  BY DEF Begins, Removal, OfUser, UserTodo
<1>3. ASSUME NEW b \in admins, b.type = "ENT", <<b.name, Default>> \in job'.todo
      PROVE  job'.last = b.name /\ \A m \in Subs(b.name) : <<m, Default>> \in job'.todo
  <2>1. b.user = Default /\ b \in At(admins, b.name, Default)
    BY <1>1, <1>3 DEF Sound, SupersAtDefault, At
  <2>2. CASE OfSuper(job')
    <3>1. PICK n \in Names, users \in PolicyUsers :
             job'.todo = (Subs(n) \cup {n}) \X (users \cup {Default}) /\ job'.last = n
      BY <2>2 DEF OfSuper
    <3>2. b.name \in Subs(n) \cup {n}
      BY <1>3, <3>1
    <3>3. b.name \notin Subs(n)
      BY <1>1, <1>3, <2>1 DEF Subs, Sound, Once
    <3>4. b.name = n
      BY <3>2, <3>3
    <3>. QED
      BY <3>1, <3>4
  <2>3. CASE OfOther(job')
    BY <1>3, <2>1, <2>3 DEF OfOther, NeverDelegated
  <2>4. CASE OfOwn(job')
    <3>1. PICK n \in Names, u \in Users :
             job'.todo = {<<n, u>>} /\ \A a \in At(admins, n, u) : a.type = "BYOD"
      BY <2>4 DEF OfOwn
    <3>2. b.name = n /\ Default = u
      BY <1>3, <3>1
    <3>. QED
      BY <1>3, <2>1, <3>1, <3>2
  <2>5. CASE OfUser(job')
    BY <1>3, <2>5 DEF OfUser
  <2>. QED
    BY <2>2, <2>3, <2>4, <2>5 DEF Begins, Removal
<1>4. SupersGoLast'
  BY <1>1, <1>3 DEF SupersGoLast, Subs
<1>. QED
  BY <1>2, <1>4

(* The parent of one who stays is not the one who goes.                       *)
LEMMA DeletesInOrder ==
    ASSUME PlacedInv, HierarchyInv, NEW p \in Pairs, Removes(p), Deletes(p)
    PROVE  SubsIn(admins)' /\ SupersGoLast' /\ UserTodo'
<1>1. /\ Sound(admins, rows) /\ Placed(admins) /\ p = <<p[1], p[2]>>
      /\ SupersGoLast /\ UserTodo /\ SubsIn(admins) /\ Due(p)
      /\ admins' = admins \ At(admins, p[1], p[2])
      /\ job'.todo = job.todo \ {p} /\ job'.last = job.last /\ job'.goal = job.goal
  BY RunningIsSound DEF PlacedInv, Removes, Deletes, Pairs, HierarchyInv
<1>2. ASSUME NEW a \in admins', a.type = "SUB"
      PROVE  \E b \in admins' : b.user = Default /\ b.type = "ENT" /\ b.name = a.parent
  <2>1. a \in admins /\ a.user = Default /\ ~(a.name = p[1] /\ a.user = p[2])
    BY <1>1, <1>2 DEF Placed, At
  <2>2. PICK b \in admins : b.user = Default /\ b.type = "ENT" /\ b.name = a.parent
    BY <1>1, <1>2, <2>1 DEF SubsIn
  <2>3. ASSUME b.name = p[1], b.user = p[2] PROVE FALSE
    <3>1. p = <<b.name, Default>> /\ p \in job.todo
      BY <1>1, <2>2, <2>3 DEF Due
    <3>2. a.name \in Subs(b.name)
      BY <1>2, <2>1, <2>2 DEF Subs
    <3>3. job.last = b.name /\ <<a.name, Default>> \in job.todo
      BY <1>1, <2>2, <3>1, <3>2 DEF SupersGoLast
    <3>4. a.name = b.name
      BY <1>1, <3>1, <3>3 DEF Due
    <3>5. a = b
      BY <1>1, <2>1, <2>2, <3>4 DEF Sound, Once
    <3>. QED
      BY <1>2, <2>2, <3>5
  <2>4. b \in admins'
    BY <1>1, <2>3 DEF At
  <2>. QED
    BY <2>2, <2>4
<1>3. ASSUME NEW b \in admins', b.type = "ENT", <<b.name, Default>> \in job'.todo
      PROVE  job'.last = b.name /\ \A m \in Subs(b.name)' : <<m, Default>> \in job'.todo
  <2>1. job.last = b.name /\ \A m \in Subs(b.name) : <<m, Default>> \in job.todo
    BY <1>1, <1>3 DEF SupersGoLast
  <2>2. ASSUME NEW m \in Subs(b.name)' PROVE m \in Subs(b.name) /\ <<m, Default>> # p
    BY <1>1 DEF Subs, At
  <2>. QED
    BY <1>1, <2>1, <2>2
<1>4. SupersGoLast'
  BY <1>3 DEF SupersGoLast, Subs
<1>5. UserTodo'
  BY <1>1 DEF UserTodo
<1>. QED
  BY <1>2, <1>4, <1>5 DEF SubsIn

LEMMA HierarchyStep ==
    ASSUME PlacedInv, StoredInv, HierarchyInv, NotOvertaken, NeverKept, NeverDelegated, [Next]_vars
    PROVE  HierarchyInv'
<1>1. Steps /\ StoredInv'
  BY StepKinds, StoredStep
<1>2. ASSUME SubsIn(admins)', job' \in Job => SupersGoLast' /\ UserTodo'
      PROVE  HierarchyInv'
  <2>1. CASE up'
    BY <1>1, <1>2, <2>1, SubsAlike DEF StoredInv, HierarchyInv
  <2>2. CASE UNCHANGED rows
    BY <1>2, <2>2 DEF HierarchyInv, SubsIn
  <2>. QED
    BY <1>1, <2>1, <2>2, RowsFollow
<1>3. ASSUME UNCHANGED admins, job' \in Job => SupersGoLast' /\ UserTodo' PROVE HierarchyInv'
  BY <1>2, <1>3 DEF HierarchyInv, SubsIn
<1>4. ASSUME NEW e, Sets(e), Lookup(e.name, e.user) = {} => Welcome(e) PROVE HierarchyInv'
  <2>1. SubsIn(admins)'
    <3>1. CASE Lookup(e.name, e.user) = {} /\ admins' = admins \cup {e}
      BY <1>4, <3>1 DEF SubsIn, HierarchyInv, Welcome, Authorized
    <3>2. CASE Alike(admins, admins')
      BY <3>2, SubsAlike DEF HierarchyInv
    <3>. QED
      BY <1>4, <3>1, <3>2, SetsEffect
  <2>2. job' \in Job => SupersGoLast' /\ UserTodo'
    BY <1>4, JobsOver DEF Sets, SupersGoLast, UserTodo
  <2>. QED
    BY <1>2, <2>1, <2>2
<1>5. Begins => HierarchyInv'
  BY <1>3, BeginsInOrder DEF Begins, registry
<1>6. ASSUME NEW p \in Pairs, Removes(p) PROVE HierarchyInv'
  <2>1. CASE Deletes(p)
    BY <1>2, <1>6, <2>1, DeletesInOrder
  <2>2. CASE Fails(p)
    <3>1. UNCHANGED admins /\ SupersGoLast /\ UserTodo /\ job'.goal = job.goal
      BY <1>6, <2>2 DEF Removes, Fails, HierarchyInv, registry
    <3>2. CASE job'.todo = {}
      BY <1>3, <3>1, <3>2 DEF SupersGoLast, UserTodo
    <3>3. CASE job.goal = "user" /\ job'.todo = job.todo \ {p}
      <4>1. \A q \in job'.todo : q[2] # Default
        BY <3>1, <3>3 DEF UserTodo
      <4>2. SupersGoLast' /\ UserTodo'
        BY <4>1 DEF SupersGoLast, UserTodo
      <4>. QED
        BY <1>3, <3>1, <4>2
    <3>. QED
      BY <2>2, <3>2, <3>3 DEF Fails
  <2>. QED
    BY <1>6, <2>1, <2>2 DEF Removes
<1>7. Rests => HierarchyInv'
  BY <1>3, JobsOver DEF Rests, registry
<1>8. UNCHANGED <<admins, rows, job>> => HierarchyInv'
  BY DEF HierarchyInv, SubsIn, SupersGoLast, Subs, UserTodo
<1>9. Crash => HierarchyInv'
  BY <1>2, JobsOver DEF Crash, SubsIn
<1>10. Start => HierarchyInv'
  <2>1. ASSUME Start PROVE HierarchyInv'
    <3>1. admins' = rows /\ job'.todo = {}
      BY <2>1, StartEffect
    <3>. QED
      BY <1>2, <3>1 DEF HierarchyInv, SubsIn, SupersGoLast, UserTodo
  <2>. QED
    BY <2>1
<1>. QED
  BY <1>1, <1>4, <1>5, <1>6, <1>7, <1>8, <1>9, <1>10, NoKeep DEF Steps, SetsSomebody, Checks,
     Uses, vars, registry

(* A sub super administrator has its super administrator, in memory and in    *)
(* the table, at every step of every removal: RemoveSuperAdminAndAdminPolicy  *)
(* removes the subordinates first, and a restart in between finds them all.   *)
THEOREM SubordinatesHaveParent ==
    ASSUME NotOvertaken, NeverKept, NeverDelegated
    PROVE  Spec => []SubsHaveParent
<1>1. Init => StoredInv /\ HierarchyInv
  BY JobsOver DEF Init, StoredInv, Alike, Copies, HierarchyInv, SubsIn
<1>2. PlacedInv /\ StoredInv /\ HierarchyInv /\ [Next]_vars => StoredInv' /\ HierarchyInv'
  BY StoredStep, HierarchyStep
<1>3. HierarchyInv => SubsHaveParent
  BY DEF HierarchyInv, SubsIn, SubsHaveParent
<1>. QED
  BY <1>1, <1>2, <1>3, PlacedInvariant, PTL DEF Spec

-----------------------------------------------------------------------------
(* Policies *)

AcrossAtDefault(s) == \A a \in s : Across(a) => a.user = Default

(* Policies that are not late have an administrator in the table that stays,  *)
(* or goes after them.                                                        *)
PolicyInv ==
    /\ \A p \in policies \ late : Stays(rows, p)
    /\ AcrossAtDefault(rows)
    /\ job \in Job => UserTodo

(* A removal that begins takes no policies' administrator before them.        *)
LEMMA BeginsAfterPolicies ==
    ASSUME PlacedInv, PolicyInv, Begins, NEW p \in policies, NEW b \in rows, Supports(b, p)
    PROVE  p \in job'.todo \/ <<b.name, b.user>> \notin job'.todo
<1>1. /\ Sound(admins, rows) /\ p = <<p[1], p[2]>>
      /\ b.name = p[1] /\ (b.user = p[2] \/ (Across(b) /\ b.user = Default))
  <2>1. Sound(admins, rows) /\ policies \subseteq Pairs
    BY RunningIsSound DEF Begins, PlacedInv, RegistryInv, TypeOK
  <2>2. p = <<p[1], p[2]>>
    BY <2>1 DEF Pairs
  <2>. QED
    BY <2>1, <2>2 DEF PolicyInv, AcrossAtDefault, Supports
<1>2. CASE b.user = p[2]
  BY <1>1, <1>2
<1>3. CASE /\ Across(b) /\ b.user = Default
           /\ <<b.name, b.user>> \in job'.todo
  <2>1. ASSUME NEW names, NEW users \in PolicyUsers, job'.todo = names \X (users \cup {Default})
        PROVE  p \in job'.todo
    BY <1>1, <1>3, <2>1 DEF PolicyUsers
  <2>2. CASE OfSuper(job') \/ OfOther(job')
    BY <2>1, <2>2 DEF OfSuper, OfOther
  <2>3. CASE OfOwn(job')
    <3>1. PICK n \in Names, u \in Users :
             job'.todo = {<<n, u>>} /\ \A a \in At(admins, n, u) : a.type = "BYOD"
      BY <2>3 DEF OfOwn
    <3>2. b.name = n /\ b.user = u
      BY <1>3, <3>1
    <3>3. PICK a \in admins : Like(b, a)
      BY <1>1 DEF Sound, Covers
    <3>4. a.type = "BYOD"
      BY <3>1, <3>2, <3>3 DEF At, Like
    <3>. QED
      BY <1>3, <3>3, <3>4 DEF Like, Across
  <2>4. CASE OfUser(job')
    BY <1>3, <2>4 DEF OfUser
  <2>. QED
    BY <2>2, <2>3, <2>4 DEF Begins, Removal
<1>. QED
  BY <1>1, <1>2, <1>3

LEMMA BeginsAtAllUsers ==
    ASSUME PlacedInv, PolicyInv, Begins
    PROVE  PolicyInv'
<1>1. rows' = rows /\ policies' = policies /\ late' = late
  BY DEF Begins, registry, stored
<1>2. UserTodo'
  BY DEF Begins, Removal, OfUser, UserTodo
<1>3. ASSUME NEW p \in policies \ late PROVE Stays(rows, p)'
  <2>1. PICK b \in rows : Supports(b, p)
    BY DEF PolicyInv, Stays
  <2>2. p \in job'.todo \/ <<b.name, b.user>> \notin job'.todo
    BY <2>1, BeginsAfterPolicies
  <2>. QED
    BY <1>1, <2>1, <2>2 DEF Stays
<1>. QED
  BY <1>1, <1>2, <1>3 DEF PolicyInv, AcrossAtDefault

(* Policies of one who goes have gone with it.                                *)
LEMMA DeletesAfterPolicies ==
    ASSUME PlacedInv, PolicyInv, NEW p \in Pairs, Removes(p), Deletes(p)
    PROVE  PolicyInv'
<1>1. /\ p = <<p[1], p[2]>> /\ policies \subseteq Pairs /\ job \in Job /\ job' \in Job
      /\ AcrossAtDefault(rows) /\ UserTodo /\ Due(p)
      /\ rows' = rows \ At(rows, p[1], p[2])
      /\ policies' = policies \ {p} /\ late' = late \cap policies'
      /\ job'.todo = job.todo \ {p} /\ job'.goal = job.goal
  BY DEF PlacedInv, RegistryInv, TypeOK, Removes, Deletes, Pairs, PolicyInv
<1>2. ASSUME NEW q \in policies' \ late'
      PROVE  Stays(rows, q)'
  <2>1. q \in policies \ late /\ q # p /\ q = <<q[1], q[2]>>
    BY <1>1 DEF Pairs
  <2>2. PICK a \in rows : /\ Supports(a, q)
                          /\ job = NoJob \/ q \in job.todo \/ <<a.name, a.user>> \notin job.todo
    BY <2>1 DEF PolicyInv, Stays
  <2>3. q \in job.todo \/ <<a.name, a.user>> \notin job.todo
    BY <1>1, <2>2, JobsOver
  <2>4. ASSUME a.name = p[1], a.user = p[2] PROVE FALSE
    <3>1. q \in job.todo /\ q[1] = p[1]
      BY <1>1, <2>2, <2>3, <2>4 DEF Due, Supports
    <3>2. q[2] # p[2]
      BY <1>1, <2>1, <3>1
    <3>3. a.user = Default
      BY <1>1, <2>2, <2>4, <3>2 DEF Supports, AcrossAtDefault
    <3>. QED
      BY <1>1, <2>4, <3>1, <3>2, <3>3 DEF Due
  <2>5. a \in rows'
    BY <1>1, <2>4 DEF At
  <2>6. q \in job'.todo \/ <<a.name, a.user>> \notin job'.todo
    BY <1>1, <2>1, <2>3
  <2>. QED
    BY <2>2, <2>5, <2>6 DEF Stays
<1>3. UserTodo' /\ AcrossAtDefault(rows)'
  BY <1>1 DEF UserTodo, AcrossAtDefault
<1>. QED
  BY <1>2, <1>3 DEF PolicyInv

(* A removal that fails goes no further, or leaves the administrators that    *)
(* other users' policies have.                                                *)
LEMMA FailsAfterPolicies ==
    ASSUME PlacedInv, PolicyInv, NEW p \in Pairs, Removes(p), Fails(p)
    PROVE  PolicyInv'
<1>1. /\ rows' = rows /\ policies' \ late' \subseteq policies \ late
      /\ job \in Job /\ UserTodo /\ job'.goal = job.goal
      /\ AcrossAtDefault(rows) /\ \A q \in policies \ late : Stays(rows, q)
  BY DEF Removes, Fails, PolicyInv, registry
<1>2. CASE job'.todo = {}
  <2>1. \A q \in policies' \ late' : Stays(rows, q)'
    BY <1>1, <1>2 DEF Stays
  <2>. QED
    BY <1>1, <1>2, <2>1 DEF PolicyInv, UserTodo, AcrossAtDefault
<1>3. CASE job.goal = "user" /\ job'.todo = job.todo \ {p}
  <2>1. ASSUME NEW q \in policies' \ late' PROVE Stays(rows, q)'
    <3>1. PICK a \in rows : Supports(a, q) /\ (q \in job.todo \/ <<a.name, a.user>> \notin job.todo)
      BY <1>1, JobsOver DEF Stays
    <3>2. q = <<q[1], q[2]>>
      BY DEF Removes, Fails, PlacedInv, RegistryInv, TypeOK, Pairs
    <3>3. CASE a.user = Default
      BY <1>1, <1>3, <3>1, <3>3 DEF Stays, UserTodo
    <3>4. CASE a.user = q[2]
      BY <1>1, <1>3, <3>1, <3>2, <3>4 DEF Stays, Supports
    <3>. QED
      BY <1>1, <3>1, <3>3, <3>4 DEF Supports, AcrossAtDefault
  <2>. QED
    BY <1>1, <1>3, <2>1 DEF PolicyInv, UserTodo, AcrossAtDefault
<1>. QED
  BY <1>2, <1>3 DEF Fails

(* Policies that are stored for an administrator that stays.                  *)
LEMMA UsesSupported ==
    ASSUME PlacedInv, PolicyInv, Uses
    PROVE  PolicyInv'
<1>1. rows' = rows /\ job' = job /\ Covers(admins, rows)
  BY RunningIsSound DEF Uses, registry, PlacedInv, Sound
<1>2. ASSUME NEW p, Stays(rows, p) PROVE Stays(rows, p)'
  BY <1>1, <1>2 DEF Stays
<1>3. ASSUME NEW p, Stays(admins, p) PROVE Stays(rows, p)
  <2>1. PICK a \in admins :
           /\ Supports(a, p)
           /\ job = NoJob \/ p \in job.todo \/ <<a.name, a.user>> \notin job.todo
    BY <1>3 DEF Stays
  <2>2. PICK b \in rows : Like(a, b)
    BY <1>1 DEF Covers
  <2>. QED
    BY <2>1, <2>2 DEF Stays, Supports, Like, Across
<1>4. ASSUME NEW p \in policies' \ late' PROVE Stays(rows, p)
  <2>1. CASE UNCHANGED <<policies, late>>
    BY <2>1 DEF PolicyInv
  <2>2. CASE \E q \in Pairs : /\ policies' \ late' \subseteq (policies \ late) \cup {q}
                              /\ q \in policies' \ late' => Stays(admins, q)
    <3>1. PICK q \in Pairs : /\ policies' \ late' \subseteq (policies \ late) \cup {q}
                             /\ q \in policies' \ late' => Stays(admins, q)
      BY <2>2
    <3>2. CASE p = q
      <4>1. Stays(admins, p)
        BY <3>1, <3>2
      <4>. QED
        BY <1>3, <4>1
    <3>3. CASE p # q
      BY <3>1, <3>3 DEF PolicyInv
    <3>. QED
      BY <3>2, <3>3
  <2>. QED
    BY <2>1, <2>2 DEF Uses
<1>. QED
  BY <1>1, <1>2, <1>4 DEF PolicyInv, AcrossAtDefault, UserTodo

LEMMA PolicyStep ==
    ASSUME PlacedInv, PolicyInv, NotOvertaken, NeverKept, NeverVirtual, [Next]_vars
    PROVE  PolicyInv'
<1>1. Steps
  BY StepKinds
<1>2. ASSUME UNCHANGED <<rows, policies, late>>, job' = NoJob \/ job'.todo = {}
      PROVE  PolicyInv'
  BY <1>2, JobsOver DEF PolicyInv, AcrossAtDefault, UserTodo, Stays
<1>3. ASSUME NEW e, Sets(e), Lookup(e.name, e.user) = {} => Welcome(e) PROVE PolicyInv'
  <2>1. job' = NoJob \/ job'.todo = {}
    BY <1>3, JobsOver DEF Sets
  <2>2. policies' = policies /\ late' = late
    BY <1>3 DEF Sets, stored
  <2>3. CASE Lookup(e.name, e.user) = {} /\ rows' = rows \cup {e}
    <3>1. AcrossAtDefault(rows)'
      BY <1>3, <2>3 DEF Welcome, AtItsPlace, NeverVirtual, Across, PolicyInv, AcrossAtDefault
    <3>2. \A p \in policies \ late : Stays(rows, p)'
      BY <2>1, <2>3 DEF PolicyInv, Stays
    <3>. QED
      BY <2>1, <2>2, <3>1, <3>2, JobsOver DEF PolicyInv, UserTodo
  <2>4. CASE Alike(rows, rows')
    <3>1. AcrossAtDefault(rows)'
      BY <2>4 DEF PolicyInv, AcrossAtDefault, Alike, Copies, Same, Like, Across
    <3>2. ASSUME NEW p \in policies \ late PROVE Stays(rows, p)'
      <4>1. PICK a \in rows : Supports(a, p)
        BY DEF PolicyInv, Stays
      <4>2. PICK b \in rows' : Same(a, b)
        BY <2>4 DEF Alike, Copies
      <4>. QED
        BY <2>1, <4>1, <4>2 DEF Stays, Supports, Same, Like, Across
    <3>. QED
      BY <2>1, <2>2, <3>1, <3>2, JobsOver DEF PolicyInv, UserTodo
  <2>. QED
    BY <1>3, <2>3, <2>4, SetsEffect
<1>4. Begins => PolicyInv'
  BY BeginsAtAllUsers
<1>5. ASSUME NEW p \in Pairs, Removes(p) PROVE PolicyInv'
  BY <1>5, DeletesAfterPolicies, FailsAfterPolicies DEF Removes
<1>6. Rests => PolicyInv'
  BY <1>2 DEF Rests, registry, stored
<1>7. UNCHANGED <<rows, policies, late, job>> => PolicyInv'
  BY DEF PolicyInv, Stays, AcrossAtDefault, UserTodo
<1>8. Crash => PolicyInv'
  BY <1>2 DEF Crash
<1>9. Start => PolicyInv'
  BY <1>2, StartEffect DEF stored
<1>. QED
  BY <1>1, <1>3, <1>4, <1>5, <1>6, <1>7, <1>8, <1>9, NoKeep, UsesSupported DEF Steps, SetsSomebody,
     Checks, vars, registry, stored

(* Stored policies have an administrator, whatever was stored between the     *)
(* steps of a removal: GetPolicyUserIds finds every user with policies, and   *)
(* the row of the default user goes after the policies of the others.  Only   *)
(* policies that were stored when the removal had passed them are left.       *)
THEOREM PoliciesKeepAdmin ==
    ASSUME NotOvertaken, NeverKept, NeverVirtual
    PROVE  Spec => []PoliciesHaveAdmin
<1>1. Init => PolicyInv
  BY JobsOver DEF Init, PolicyInv, AcrossAtDefault
<1>2. PlacedInv /\ PolicyInv /\ [Next]_vars => PolicyInv'
  BY PolicyStep
<1>3. PlacedInv /\ PolicyInv => PoliciesHaveAdmin
  <2>1. ASSUME PlacedInv, PolicyInv, up, NEW p \in policies \ late
        PROVE  \E a \in admins : Supports(a, p)
    <3>1. PICK b \in rows : Supports(b, p)
      BY <2>1 DEF PolicyInv, Stays
    <3>2. PICK a \in admins : Like(b, a)
      BY <2>1, RunningIsSound DEF PlacedInv, Sound, Covers
    <3>. QED
      BY <3>1, <3>2 DEF Supports, Like, Across
  <2>. QED
    BY <2>1 DEF PoliciesHaveAdmin
<1>. QED
  BY <1>1, <1>2, <1>3, PlacedInvariant, PTL DEF Spec
=============================================================================
