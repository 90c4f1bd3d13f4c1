------------------------- MODULE AdminRegistryProofs -------------------------
(* Theorems about AdminRegistry, for any users, packages and limit, any       *)
(* operations and any failures: where no call is overtaken between its checks *)
(* and its effect, a package is an administrator of a user once, and there is *)
(* one official super administrator at most.                                  *)
EXTENDS AdminRegistry, TLAPS

(* What memory s and table t are together while the service runs. *)
Sound(s, t) ==
    /\ s \subseteq Admin /\ t \subseteq Admin
    /\ Once(s) /\ Once(t)
    /\ OfficialsShareName(s) /\ OfficialsShareName(t)
    /\ SupersAtDefault(s) /\ SupersAtDefault(t)
    /\ Covers(s, t) /\ Covers(t, s)

-----------------------------------------------------------------------------
(* What the changes of the two make of them *)

(* A new administrator goes into both. *)
LEMMA InsertSound ==
    ASSUME NEW s, NEW t, Sound(s, t), NEW e \in Admin,
           At(s, e.name, e.user) = {},
           e.type = "ENT" => e.user = Default,
           Official(e) => \A a \in s : ~Official(a)
    PROVE  Sound(s \cup {e}, t \cup {e})
  <1> USE DEF Sound
  <1>1. \A a \in s \cup t : ~(a.user = e.user /\ a.name = e.name)
    BY DEF At, Covers, Like
  <1>2. Once(s \cup {e}) /\ Once(t \cup {e})
    BY <1>1 DEF Once
  <1>3. Official(e) => \A a \in t : ~Official(a)
    BY DEF Covers, Like, Official
  <1>4. OfficialsShareName(s \cup {e}) /\ OfficialsShareName(t \cup {e})
    BY <1>3 DEF OfficialsShareName
  <1>5. SupersAtDefault(s \cup {e}) /\ SupersAtDefault(t \cup {e})
    BY DEF SupersAtDefault
  <1>6. Covers(s \cup {e}, t \cup {e}) /\ Covers(t \cup {e}, s \cup {e})
    BY DEF Covers, Like
  <1>7. QED
    BY <1>2, <1>4, <1>5, <1>6

(* A change that leaves everybody who they are, in one of the two. *)
LEMMA ChangeSound ==
    ASSUME NEW s, NEW t, NEW f, NEW r, r = {f[a] : a \in s},
           \A a \in s : f[a] \in Admin /\ Like(f[a], a)
    PROVE  /\ Sound(s, t) => Sound(r, t)
           /\ Sound(t, s) => Sound(t, r)
  <1>1. \A b \in r : b \in Admin /\ \E a \in s : b = f[a] /\ Like(b, a)
    OBVIOUS
  <1>2. \A a \in s : \E b \in r : Like(b, a)
    OBVIOUS
  <1>3. Once(s) => Once(r)
    BY <1>1 DEF Once, Like
  <1>4. OfficialsShareName(s) => OfficialsShareName(r)
    BY <1>1 DEF OfficialsShareName, Official, Like
  <1>5. SupersAtDefault(s) => SupersAtDefault(r)
    BY <1>1 DEF SupersAtDefault, Like
  <1>6. Covers(s, t) => Covers(r, t)
    BY <1>1 DEF Covers, Like
  <1>7. Covers(t, s) => Covers(t, r)
    BY <1>2 DEF Covers, Like
  <1>8. Sound(s, t) => Sound(r, t)
    BY <1>1, <1>3, <1>4, <1>5, <1>6, <1>7 DEF Sound
  <1>9. Sound(t, s) => Sound(t, r)
    BY <1>1, <1>3, <1>4, <1>5, <1>6, <1>7 DEF Sound
  <1>10. QED
    BY <1>8, <1>9

LEMMA UpdateSound ==
    ASSUME NEW s, NEW t, Sound(s, t), NEW u, NEW e, e.mode \in Modes
    PROVE  /\ Sound(UpdateAdmin(s, u, e), t)
           /\ Sound(UpdateAdmin(s, u, e), UpdateAdmin(t, u, e))
  <1> DEFINE F(r) == [a \in r |-> IF a.user = u /\ a.name = e.name
                                  THEN [a EXCEPT !.mode = e.mode] ELSE a]
  <1>1. ASSUME NEW r \in SUBSET Admin
        PROVE  /\ UpdateAdmin(r, u, e) = {F(r)[a] : a \in r}
               /\ \A a \in r : F(r)[a] \in Admin /\ Like(F(r)[a], a)
    <2>1. UpdateAdmin(r, u, e) = {F(r)[a] : a \in r}
      BY DEF UpdateAdmin
    <2>2. ASSUME NEW a \in r PROVE F(r)[a] \in Admin /\ Like(F(r)[a], a)
      <3>1. a \in Admin
        OBVIOUS
      <3>2. [a EXCEPT !.mode = e.mode] \in Admin /\ Like([a EXCEPT !.mode = e.mode], a)
        BY <3>1 DEF Admin, Like
      <3>3. Like(a, a)
        BY DEF Like
      <3>4. QED
        BY <3>1, <3>2, <3>3
    <2>3. QED
      BY <2>1, <2>2
  <1>2. s \in SUBSET Admin /\ t \in SUBSET Admin
    BY DEF Sound
  <1> HIDE DEF F
  <1>3. Sound(UpdateAdmin(s, u, e), t)
    BY <1>1, <1>2, ChangeSound
  <1>4. Sound(UpdateAdmin(s, u, e), UpdateAdmin(t, u, e))
    <2> DEFINE g == F(t)  S == UpdateAdmin(s, u, e)  T == UpdateAdmin(t, u, e)
    <2>1. T = {g[a] : a \in t} /\ \A a \in t : g[a] \in Admin /\ Like(g[a], a)
      BY <1>1, <1>2
    <2>2. Sound(S, t)
      BY <1>3
    <2> HIDE DEF g, S, T
    <2>3. Sound(S, t) => Sound(S, T)
      BY <2>1, ChangeSound
    <2>4. Sound(S, T)
      BY <2>2, <2>3
    <2>5. QED
      BY <2>4 DEF S, T
  <1>5. QED
    BY <1>3, <1>4

(* An administrator goes from both. *)
LEMMA DeleteSound ==
    ASSUME NEW s, NEW t, Sound(s, t), NEW n, NEW u
    PROVE  Sound(s \ At(s, n, u), t \ At(t, n, u))
  <1> USE DEF Sound
  <1>1. Covers(s \ At(s, n, u), t \ At(t, n, u)) /\ Covers(t \ At(t, n, u), s \ At(s, n, u))
    BY DEF Covers, Like, At
  <1>2. QED
    BY <1>1 DEF Once, OfficialsShareName, SupersAtDefault, At

(* SetAdminValue, where only a first super administrator is an official one. *)
LEMMA StoreSound ==
    ASSUME Sound(admins, rows), NEW u \in Users, NEW e \in Admin, e.user = u,
           e.type = "ENT" => u = Default,
           Official(e) => Lookup(e.name, u) # {} \/ OfficialSupers = {},
           Store(u, e)
    PROVE  Sound(admins', rows')
  <1>1. CASE Lookup(e.name, u) = {}
    <2>1. admins' = admins \cup {e} /\ rows' = rows \cup {e}
      BY <1>1 DEF Store
    <2>2. At(admins, e.name, e.user) = {}
      BY <1>1 DEF Lookup
    <2>3. Official(e) => \A a \in admins : ~Official(a)
      BY <1>1 DEF OfficialSupers, Official
    <2>4. QED
      BY <2>1, <2>2, <2>3, InsertSound
  <1>2. CASE Lookup(e.name, u) # {}
    <2>1. /\ admins' = UpdateAdmin(admins, u, e)
          /\ rows' = rows \/ rows' = UpdateAdmin(rows, u, e)
      BY <1>2 DEF Store
    <2>2. e.mode \in Modes
      BY DEF Admin
    <2>3. QED
      BY <2>1, <2>2, UpdateSound
  <1>3. QED
    BY <1>1, <1>2

-----------------------------------------------------------------------------
(* Typing *)

LEMMA NewAdminType ==
    ASSUME NEW u \in Users, NEW n \in Names, NEW t \in Types, NEW p \in Names \cup {NoName},
           NEW d \in BOOLEAN
    PROVE  /\ NewAdmin(u, n, t, p, d) \in Admin
           /\ NewAdmin(u, n, t, p, d).user = u /\ NewAdmin(u, n, t, p, d).name = n
           /\ NewAdmin(u, n, t, p, d).type = t /\ NewAdmin(u, n, t, p, d).debug = d
  BY DEF NewAdmin, Admin, Modes

LEMMA JobTypes ==
    ASSUME admins \subseteq Admin, NEW n \in Names, NEW users \in SUBSET Users, NEW u \in Users,
           NEW goal \in {"disable", "package", "user", "delegate", "boot", "replace", "announce"}
    PROVE  /\ \A todo \in SUBSET Pairs : NewJob(goal, todo, n) \in Job
           /\ \A todo \in SUBSET Pairs : NewJob(goal, todo, NoName) \in Job
           /\ SuperJob(goal, n, users) \in Job /\ SubJob(goal, n, users) \in Job
           /\ \A a \in admins : RemovalOf(goal, a, u, users) \in Job
  <1>1. \A todo \in SUBSET Pairs, last \in Names \cup {NoName} : NewJob(goal, todo, last) \in Job
    BY DEF NewJob, Job
  <1>2. \A m \in Names : Subs(m) \subseteq Names
    BY DEF Subs, Admin
  <1>3. \A m \in Names : /\ (Subs(m) \cup {m}) \X (users \cup {Default}) \in SUBSET Pairs
                         /\ {m} \X (users \cup {Default}) \in SUBSET Pairs
                         /\ {<<m, u>>} \in SUBSET Pairs
    BY <1>2, RegistryAssumption DEF Pairs
  <1>4. \A m \in Names : SuperJob(goal, m, users) \in Job /\ SubJob(goal, m, users) \in Job
    BY <1>1, <1>3 DEF SuperJob, SubJob
  <1>5. ASSUME NEW a \in admins PROVE RemovalOf(goal, a, u, users) \in Job
    <2>1. a.name \in Names
      BY DEF Admin
    <2>2. QED
      BY <1>1, <1>3, <1>4, <2>1 DEF RemovalOf
  <1>6. QED
    BY <1>1, <1>4, <1>5

-----------------------------------------------------------------------------
(* The parts of the invariant while the service runs *)

LEMMA RunningIsSound == ASSUME RegistryInv, up PROVE Sound(admins, rows)
  BY DEF RegistryInv, TypeOK, OncePerUser, TableAgrees, Sound

LEMMA StaysSound ==
    ASSUME TypeOK', up', Sound(admins', rows'),
           CheckedIsFirst', CheckedIsOfficial', ReplacedIsPending'
    PROVE  RegistryInv'
  BY DEF RegistryInv, OncePerUser, TableAgrees, Sound, DownIsEmpty

(* A step of an operation that is over, or only has to be announced. *)
LEMMA SettledStep ==
    ASSUME RegistryInv, up, up', Sound(admins', rows'),
           checked' = {}, job' \in {NoJob, Announce},
           policies' \subseteq Pairs, saving' \subseteq Pairs, late' \subseteq Pairs,
           edm' \in BOOLEAN, removeMenu' \in BOOLEAN
    PROVE  RegistryInv'
  <1>1. Announce \in Job /\ Announce.goal # "replace" /\ NoJob.goal # "replace"
    BY DEF Announce, NewJob, Job, NoJob
  <1>2. TypeOK'
    BY <1>1 DEF TypeOK, Sound
  <1>3. CheckedIsFirst' /\ CheckedIsOfficial' /\ ReplacedIsPending'
    BY <1>1 DEF CheckedIsFirst, CheckedIsOfficial, ReplacedIsPending
  <1>4. QED
    BY <1>2, <1>3, StaysSound

-----------------------------------------------------------------------------
(* Steps: enabling *)

(* A call that takes adminLock_ finds no other between check and effect. *)
LEMMA FreeFacts ==
    ASSUME RegistryInv, "overtaken" \notin Env, NEW op, Free(op)
    PROVE  up /\ job = NoJob /\ checked = {} /\ Sound(admins, rows)
  BY RunningIsSound DEF Free

(* Whoever is looked up is an administrator of the name. *)
LEMMA LookupFacts ==
    ASSUME admins \subseteq Admin, NEW n, NEW u, NEW a \in Lookup(n, u)
    PROVE  a \in admins /\ a \in Admin /\ a.name = n
  BY DEF Lookup, At

LEMMA EnableAdminStep ==
    ASSUME RegistryInv, "overtaken" \notin Env,
           NEW n \in Names, NEW t \in {"ENT", "NORMAL", "BYOD"}, NEW u \in Users,
           NEW d \in BOOLEAN, EnableAdmin(n, t, u, d)
    PROVE  RegistryInv'
  <1> DEFINE v == IF t = "BYOD" THEN u ELSE Default
             e == NewAdmin(v, n, t, NoName, d)
  <1>1. up /\ checked = {} /\ Sound(admins, rows)
    BY FreeFacts DEF EnableAdmin
  <1>2. /\ Store(v, e) /\ job' = Announce /\ up' = up /\ stored' = stored /\ edm' = edm
        /\ checked' = checked /\ removeMenu' = removeMenu
    BY DEF EnableAdmin
  <1>3. v \in Users /\ (t = "ENT" => u = Default /\ v = Default)
    BY RegistryAssumption DEF EnableAdmin, MayEnable
  <1>4. /\ e \in Admin /\ e.user = v /\ e.name = n /\ e.type = t /\ e.debug = d
    BY <1>3 DEF NewAdmin, Admin, Types, Modes
  <1> HIDE DEF e, v
  <1>5. Official(e) => Lookup(e.name, v) # {} \/ OfficialSupers = {}
    BY <1>3, <1>4 DEF EnableAdmin, Official, IsSuperAdminExist
  <1>6. Sound(admins', rows')
    BY <1>1, <1>2, <1>3, <1>4, <1>5, StoreSound
  <1>7. QED
    BY <1>1, <1>2, <1>6, SettledStep DEF RegistryInv, TypeOK, stored

LEMMA EnableDeviceAdminStep ==
    ASSUME RegistryInv, "overtaken" \notin Env, NEW c \in Names, NEW n \in Names,
           EnableDeviceAdmin(c, n)
    PROVE  RegistryInv'
  <1>1. up /\ checked = {} /\ Sound(admins, rows)
    BY FreeFacts DEF EnableDeviceAdmin
  <1>2. PICK s \in admins : Store(Default, NewAdmin(Default, n, "NORMAL", NoName, s.debug))
    BY DEF EnableDeviceAdmin, Supers, At
  <1>3. s.debug \in BOOLEAN
    BY <1>1 DEF Sound, Admin
  <1> DEFINE e == NewAdmin(Default, n, "NORMAL", NoName, s.debug)
  <1>4. e \in Admin /\ e.user = Default /\ e.type = "NORMAL"
    BY <1>3, NewAdminType, RegistryAssumption DEF Types
  <1> HIDE DEF e
  <1>5. Store(Default, e)
    BY <1>2 DEF e
  <1>6. Sound(admins', rows')
    BY <1>1, <1>4, <1>5, StoreSound, RegistryAssumption DEF Official
  <1>7. QED
    BY <1>1, <1>6, SettledStep DEF EnableDeviceAdmin, RegistryInv, TypeOK, stored

LEMMA AuthorizeAdminStep ==
    ASSUME RegistryInv, "overtaken" \notin Env, NEW c \in Names, NEW n \in Names,
           NEW user \in Users, AuthorizeAdmin(c, n, user)
    PROVE  RegistryInv'
  <1>1. up /\ job = NoJob /\ checked = {} /\ Sound(admins, rows)
    BY FreeFacts DEF AuthorizeAdmin
  <1>2. PICK s \in Lookup(c, user) : Store(Default, NewAdmin(Default, n, "SUB", c, s.debug))
    BY DEF AuthorizeAdmin
  <1>3. s.debug \in BOOLEAN
    BY <1>1, LookupFacts DEF Sound, Admin
  <1> DEFINE e == NewAdmin(Default, n, "SUB", c, s.debug)
  <1>4. e \in Admin /\ e.user = Default /\ e.type = "SUB"
    BY <1>3, NewAdminType, RegistryAssumption DEF Types
  <1> HIDE DEF e
  <1>5. Store(Default, e)
    BY <1>2 DEF e
  <1>6. Sound(admins', rows')
    BY <1>1, <1>4, <1>5, StoreSound, RegistryAssumption DEF Official
  <1>7. QED
    BY <1>1, <1>6, SettledStep DEF AuthorizeAdmin, RegistryInv, TypeOK, stored

LEMMA DelegateStep ==
    ASSUME RegistryInv, "overtaken" \notin Env, NEW c \in Names, NEW n \in Names,
           NEW user \in Users, Delegate(c, n, user)
    PROVE  RegistryInv'
  <1>1. up /\ job = NoJob /\ checked = {} /\ Sound(admins, rows)
    BY FreeFacts DEF Delegate
  <1>2. PICK s \in Lookup(c, user) : Store(user, NewAdmin(user, n, "VIRTUAL", c, s.debug))
    BY DEF Delegate
  <1>3. s.debug \in BOOLEAN
    BY <1>1, LookupFacts DEF Sound, Admin
  <1> DEFINE e == NewAdmin(user, n, "VIRTUAL", c, s.debug)
  <1>4. e \in Admin /\ e.user = user /\ e.type = "VIRTUAL"
    BY <1>3, NewAdminType DEF Types
  <1> HIDE DEF e
  <1>5. Store(user, e)
    BY <1>2 DEF e
  <1>6. Sound(admins', rows')
    BY <1>1, <1>4, <1>5, StoreSound DEF Official
  <1>7. QED
    BY <1>1, <1>6, SettledStep DEF Delegate, RegistryInv, TypeOK, stored

LEMMA DelegateAnyStep ==
    ASSUME RegistryInv, "overtaken" \notin Env, NEW n \in Names, NEW u \in Users,
           DelegateAny(n, u)
    PROVE  RegistryInv'
  <1> DEFINE e == NewAdmin(u, n, "VIRTUAL", NoName, FALSE)
  <1>1. up /\ job = NoJob /\ checked = {} /\ Sound(admins, rows)
    BY FreeFacts DEF DelegateAny
  <1>2. e \in Admin /\ e.user = u /\ e.type = "VIRTUAL"
    BY DEF NewAdmin, Admin, Types, Modes
  <1> HIDE DEF e
  <1>3. Store(u, e) \/ UNCHANGED registry
    BY DEF DelegateAny, e
  <1>4. CASE Store(u, e)
    <2>1. Sound(admins', rows')
      BY <1>1, <1>2, <1>4, StoreSound DEF Official
    <2>2. QED
      BY <1>1, <2>1, SettledStep DEF DelegateAny, RegistryInv, TypeOK, stored
  <1>5. CASE UNCHANGED registry
    BY <1>1, <1>5, SettledStep DEF DelegateAny, RegistryInv, TypeOK, stored, registry
  <1>6. QED
    BY <1>3, <1>4, <1>5

(* A running mode that is set for somebody who is only another user's         *)
(* administrator makes one of the default user's: never a super one.          *)
LEMMA SetAdminRunningModeStep ==
    ASSUME RegistryInv, "overtaken" \notin Env, NEW n \in Names, NEW user \in Users,
           NEW mode \in Modes, SetAdminRunningMode(n, user, mode)
    PROVE  RegistryInv'
  <1>1. up /\ job = NoJob /\ checked = {} /\ Sound(admins, rows)
    BY FreeFacts DEF SetAdminRunningMode
  <1>2. PICK a \in Lookup(n, user) : Store(Default, [a EXCEPT !.mode = mode, !.user = Default])
    BY DEF SetAdminRunningMode
  <1>3. a \in admins /\ a \in Admin /\ a.name = n
    BY <1>1, LookupFacts DEF Sound
  <1> DEFINE e == [a EXCEPT !.mode = mode, !.user = Default]
  <1>4. /\ e \in Admin /\ e.user = Default /\ e.name = n /\ e.type = a.type
        /\ e.debug = a.debug
    BY <1>3, RegistryAssumption DEF Admin
  <1> HIDE DEF e
  <1>5. Official(e) => Lookup(e.name, Default) # {}
    <2>1. SUFFICES ASSUME a.type = "ENT" PROVE Lookup(n, Default) # {}
      BY <1>4 DEF Official
    <2>2. a.user = Default
      BY <1>1, <1>3, <2>1 DEF Sound, SupersAtDefault
    <2>3. QED
      BY <1>3, <2>2 DEF Lookup, At
  <1>6. Store(Default, e)
    BY <1>2 DEF e
  <1>7. Sound(admins', rows')
    BY <1>1, <1>4, <1>5, <1>6, StoreSound, RegistryAssumption
  <1>8. QED
    BY <1>1, <1>7, SettledStep DEF SetAdminRunningMode, RegistryInv, TypeOK, stored

LEMMA HandleDevicePolicyStep ==
    ASSUME RegistryInv, "overtaken" \notin Env, NEW n \in Holders, NEW u \in Users,
           HandleDevicePolicy(n, u)
    PROVE  RegistryInv'
  <1>1. up /\ job = NoJob /\ checked = {} /\ Sound(admins, rows)
    BY FreeFacts DEF HandleDevicePolicy
  <1>2. policies' \subseteq Pairs /\ saving' \subseteq Pairs /\ late' \subseteq Pairs
    BY RegistryAssumption DEF HandleDevicePolicy, RegistryInv, TypeOK, Pairs
  <1>3. QED
    BY <1>1, <1>2, SettledStep DEF HandleDevicePolicy, RegistryInv, TypeOK, registry

(* Who is an administrator is the same whatever policies are stored.          *)
LEMMA UpdateDevicePolicyStep ==
    ASSUME RegistryInv, NEW p \in saving, UpdateDevicePolicy(p)
    PROVE  RegistryInv'
  <1>1. /\ up /\ up' = up /\ admins' = admins /\ rows' = rows /\ edm' = edm /\ job' = job
        /\ checked' = checked /\ removeMenu' = removeMenu
    BY DEF UpdateDevicePolicy, registry
  <1>2. policies' \subseteq Pairs /\ saving' \subseteq Pairs /\ late' \subseteq Pairs
    BY DEF UpdateDevicePolicy, RegistryInv, TypeOK
  <1>3. TypeOK'
    BY <1>1, <1>2 DEF RegistryInv, TypeOK
  <1>4. CheckedIsFirst' /\ CheckedIsOfficial' /\ ReplacedIsPending'
    BY <1>1 DEF RegistryInv, CheckedIsFirst, CheckedIsOfficial, ReplacedIsPending
  <1>5. QED
    BY <1>1, <1>3, <1>4, RunningIsSound, StaysSound

-----------------------------------------------------------------------------
(* Steps: removing *)

(* An operation that begins a removal other than a replacement's. *)
LEMMA BeginStep ==
    ASSUME RegistryInv, up, up', UNCHANGED <<admins, rows, stored, edm>>,
           checked' = {}, job' \in Job, job'.goal # "replace", removeMenu' \in BOOLEAN
    PROVE  RegistryInv'
  <1>1. Sound(admins', rows')
    BY RunningIsSound
  <1>2. TypeOK'
    BY DEF RegistryInv, TypeOK, stored
  <1>3. CheckedIsFirst' /\ CheckedIsOfficial' /\ ReplacedIsPending'
    BY DEF CheckedIsFirst, CheckedIsOfficial, ReplacedIsPending
  <1>4. QED
    BY <1>1, <1>2, <1>3, StaysSound

LEMMA GoalOf ==
    ASSUME NEW goal, NEW n, NEW users
    PROVE  /\ \A todo, last : NewJob(goal, todo, last).goal = goal
           /\ SuperJob(goal, n, users).goal = goal /\ SubJob(goal, n, users).goal = goal
  BY DEF NewJob, SuperJob, SubJob

LEMMA BeginRemovalStep ==
    ASSUME RegistryInv, "overtaken" \notin Env, NEW n \in Names, NEW u \in Users,
           NEW c \in Names,
           \/ DisableAdmin(n, u) \/ PackageRemoved(n, u) \/ DisableVirtualAdmin(c, n, u)
           \/ UserRemoved(u)
    PROVE  RegistryInv'
  <1> USE DEF registry
  <1>1. up /\ checked = {} /\ admins \subseteq Admin /\ removeMenu \in BOOLEAN
    BY FreeFacts DEF DisableAdmin, PackageRemoved, DisableVirtualAdmin, UserRemoved, Sound,
       RegistryInv, TypeOK
  <1>2. PolicyUsers \subseteq SUBSET Users
    BY DEF PolicyUsers
  <1>3. CASE DisableAdmin(n, u)
    <2>1. PICK a \in Lookup(n, u), users \in PolicyUsers : job' = RemovalOf("disable", a, u, users)
      BY <1>3 DEF DisableAdmin
    <2>2. job' \in Job /\ job'.goal = "disable"
      <3>1. a \in admins /\ users \in SUBSET Users
        BY <1>1, <1>2, LookupFacts
      <3>2. RemovalOf("disable", a, u, users) \in Job
        BY <1>1, <3>1, JobTypes
      <3>3. RemovalOf("disable", a, u, users).goal = "disable"
        BY DEF RemovalOf, SuperJob, SubJob, NewJob
      <3>4. QED
        BY <2>1, <3>2, <3>3
    <2>3. QED
      BY <1>1, <1>3, <2>2, BeginStep DEF DisableAdmin
  <1>4. CASE PackageRemoved(n, u)
    <2>1. PICK a \in Lookup(n, u), users \in PolicyUsers : job' = RemovalOf("package", a, u, users)
      BY <1>4 DEF PackageRemoved
    <2>2. job' \in Job /\ job'.goal = "package"
      <3>1. a \in admins /\ users \in SUBSET Users
        BY <1>1, <1>2, LookupFacts
      <3>2. RemovalOf("package", a, u, users) \in Job
        BY <1>1, <3>1, JobTypes
      <3>3. RemovalOf("package", a, u, users).goal = "package"
        BY DEF RemovalOf, SuperJob, SubJob, NewJob
      <3>4. QED
        BY <2>1, <3>2, <3>3
    <2>3. QED
      BY <1>1, <1>4, <2>2, BeginStep DEF PackageRemoved
  <1>5. CASE DisableVirtualAdmin(c, n, u)
    <2>1. PICK users \in PolicyUsers : job' = SubJob("delegate", n, users)
      BY <1>5 DEF DisableVirtualAdmin
    <2>2. job' \in Job /\ job'.goal = "delegate"
      BY <1>1, <1>2, <2>1, JobTypes, GoalOf
    <2>3. QED
      BY <1>1, <1>5, <2>2, BeginStep DEF DisableVirtualAdmin
  <1>6. CASE UserRemoved(u)
    <2>1. PICK todo \in SUBSET Pairs : job' = NewJob("user", todo, NoName)
      <3>1. \A a \in admins : <<a.name, u>> \in Pairs
        BY <1>1 DEF Pairs, Admin
      <3>2. QED
        BY <1>6, <3>1 DEF UserRemoved
    <2>2. job' \in Job /\ job'.goal = "user"
      BY <1>1, <2>1, JobTypes, GoalOf
    <2>3. QED
      BY <1>1, <1>6, <2>2, BeginStep DEF UserRemoved
  <1>7. QED
    BY <1>3, <1>4, <1>5, <1>6

(* Removing a pair: whoever goes, goes from memory and table, and a pair that *)
(* is done has no administrator any more.                                     *)
LEMMA RemoveStep == ASSUME RegistryInv, NEW p \in Pairs, Remove(p) PROVE RegistryInv'
  <1>1. /\ up /\ up' = up /\ job \in Job /\ job # NoJob /\ checked = {} /\ checked' = checked
        /\ edm' = edm /\ removeMenu' = removeMenu
    BY DEF Remove, RegistryInv, TypeOK, CheckedIsFirst
  <1>2. Sound(admins, rows)
    BY <1>1, RunningIsSound
  <1>3. p[1] \in Names /\ p[2] \in Users /\ p = <<p[1], p[2]>>
    BY DEF Pairs
  <1>4. /\ [job EXCEPT !.todo = job.todo \ {p}] \in Job
        /\ [job EXCEPT !.todo = {}, !.failed = TRUE] \in Job
    BY <1>1 DEF Job
  <1>5. policies' \subseteq Pairs /\ saving' \subseteq Pairs /\ late' \subseteq Pairs
    BY DEF Remove, RegistryInv, TypeOK
  <1>6. CASE /\ DeleteAdmin(p[1], p[2])
             /\ job' = [job EXCEPT !.todo = job.todo \ {p}]
    <2>1. Sound(admins', rows')
      <3>1. CASE \E a \in admins : a.user = p[2]
        BY <1>2, <1>6, <3>1, DeleteSound DEF DeleteAdmin
      <3>2. CASE ~ \E a \in admins : a.user = p[2]
        BY <1>2, <1>6, <3>2 DEF DeleteAdmin, registry
      <3>3. QED
        BY <3>1, <3>2
    <2>2. admins' = admins \ At(admins, p[1], p[2])
      BY <1>6 DEF DeleteAdmin, registry, At
    <2>3. job'.goal = job.goal /\ job'.failed = job.failed /\ job'.todo = job.todo \ {p}
          /\ job'.new = job.new
      BY <1>1, <1>6 DEF Job
    <2>4. ReplacedIsPending'
      <3>1. SUFFICES ASSUME job.goal = "replace", ~job.failed, NEW a \in admins', Official(a)
                     PROVE  <<a.name, Default>> \in job.todo \ {p}
        BY <2>3 DEF ReplacedIsPending, RegistryInv
      <3>2. <<a.name, Default>> \in job.todo
        BY <2>2, <3>1 DEF RegistryInv, ReplacedIsPending
      <3>3. a \notin At(admins, p[1], p[2]) /\ a.user = Default
        BY <2>2, <3>1 DEF Official
      <3>4. ~(a.name = p[1] /\ Default = p[2])
        BY <2>2, <3>3 DEF At
      <3>5. QED
        BY <1>3, <3>2, <3>4
    <2>5. TypeOK'
      BY <1>1, <1>4, <1>5, <1>6, <2>1 DEF RegistryInv, TypeOK, Sound
    <2>6. QED
      BY <1>1, <2>1, <2>4, <2>5, StaysSound DEF CheckedIsFirst, CheckedIsOfficial
  <1>7. CASE /\ UNCHANGED registry
             /\ \/ job.goal = "user" /\ job' = [job EXCEPT !.todo = job.todo \ {p}]
                \/ job' = [job EXCEPT !.todo = {}, !.failed = TRUE]
    <2>1. Sound(admins', rows') /\ admins' = admins /\ rows' = rows
      BY <1>2, <1>7 DEF registry
    <2>2. job' \in Job
      BY <1>4, <1>7
    <2>3. ReplacedIsPending'
      BY <1>1, <1>7 DEF ReplacedIsPending, Job, RegistryInv
    <2>4. TypeOK'
      BY <1>1, <1>5, <2>1, <2>2 DEF RegistryInv, TypeOK
    <2>5. QED
      BY <1>1, <2>1, <2>3, <2>4, StaysSound DEF CheckedIsFirst, CheckedIsOfficial
  <1>8. QED
    BY <1>6, <1>7 DEF Remove

LEMMA EndStep ==
    ASSUME RegistryInv, EndDisable \/ EndRemoval \/ EndEnable
    PROVE  RegistryInv'
  <1>1. up /\ job # NoJob
    BY DEF EndDisable, EndRemoval, EndEnable, Done
  <1>2. checked = {} /\ Sound(admins, rows)
    BY <1>1, RunningIsSound DEF RegistryInv, CheckedIsFirst
  <1>3. edm' \in BOOLEAN
    <2>1. CASE EndDisable
      BY <2>1 DEF EndDisable
    <2>2. CASE EndRemoval \/ EndEnable
      BY <2>2 DEF EndRemoval, EndEnable, RegistryInv, TypeOK
    <2>3. QED
      BY <2>1, <2>2
  <1>4. /\ up' = up /\ admins' = admins /\ rows' = rows /\ stored' = stored
        /\ checked' = checked /\ removeMenu' = removeMenu /\ job' = NoJob
    BY DEF EndDisable, EndRemoval, EndEnable, registry
  <1>5. QED
    BY <1>1, <1>2, <1>3, <1>4, SettledStep DEF RegistryInv, TypeOK, stored

-----------------------------------------------------------------------------
(* Steps: replacing *)

LEMMA MayCheckFacts ==
    ASSUME RegistryInv, "overtaken" \notin Env, MayCheck
    PROVE  up /\ job = NoJob /\ checked = {} /\ Sound(admins, rows)
  BY RunningIsSound DEF MayCheck

(* A step that only makes checks. *)
LEMMA CheckStep ==
    ASSUME RegistryInv, "overtaken" \notin Env, MayCheck, NEW c \in Call, checked' = {c},
           c.op \in {"replace", "keep"} =>
              /\ \E a \in admins : Official(a) /\ a.name = c.old
              /\ At(admins, c.new, Default) # {} => c.new = c.old,
           UNCHANGED <<up, registry, stored, edm, job, removeMenu>>
    PROVE  RegistryInv'
  <1>1. /\ up /\ up' = up /\ job = NoJob /\ job' = job /\ Sound(admins, rows)
        /\ admins' = admins /\ rows' = rows
    BY MayCheckFacts DEF registry
  <1>2. TypeOK'
    BY <1>1 DEF RegistryInv, TypeOK, stored
  <1>3. CheckedIsFirst' /\ CheckedIsOfficial' /\ ReplacedIsPending'
    BY <1>1 DEF CheckedIsFirst, CheckedIsOfficial, ReplacedIsPending, NoJob, At
  <1>4. QED
    BY <1>1, <1>2, <1>3, StaysSound

(* The new administrator is nobody yet, or the old one: no other may be a     *)
(* super administrator.                                                       *)
LEMMA CheckReplaceStep ==
    ASSUME RegistryInv, "overtaken" \notin Env, NEW op \in {"replace", "keep"},
           NEW old \in Names, NEW new \in Names, CheckReplace(op, old, new)
    PROVE  RegistryInv'
  <1> DEFINE c == [op |-> op, old |-> old, new |-> new]
  <1>1. c \in Call /\ c.old = old /\ c.new = new
    BY DEF Call
  <1>2. Sound(admins, rows)
    BY MayCheckFacts DEF CheckReplace
  <1>3. \A a \in admins : ~a.debug
    BY <1>2 DEF CheckReplace, MayEnable, OfDebug, Sound, Admin
  <1>4. PICK s \in admins : Official(s) /\ s.name = old
    BY <1>3 DEF CheckReplace, Supers, At, Official
  <1>5. \A a \in At(admins, new, Default) : a.type = "ENT" /\ a.user = Default /\ a \in admins /\ a.name = new
    BY DEF CheckReplace, MayEnable, Lookup, At
  <1>6. \A a \in At(admins, new, Default) : Official(a)
    BY <1>3, <1>5 DEF Official
  <1>7. At(admins, new, Default) # {} => new = old
    BY <1>2, <1>4, <1>5, <1>6 DEF Sound, OfficialsShareName
  <1> HIDE DEF c
  <1>8. checked' = {c} /\ MayCheck /\ UNCHANGED <<up, registry, stored, edm, job, removeMenu>>
    BY DEF CheckReplace, c
  <1>9. QED
    BY <1>1, <1>4, <1>7, <1>8, CheckStep

LEMMA CheckDisableDeviceAdminStep ==
    ASSUME RegistryInv, "overtaken" \notin Env, NEW c \in Names, NEW n \in Names,
           CheckDisableDeviceAdmin(c, n)
    PROVE  RegistryInv'
  <1> DEFINE d == [op |-> "disableDevice", old |-> n, new |-> n]
  <1>1. d \in Call /\ d.op = "disableDevice"
    BY DEF Call
  <1> HIDE DEF d
  <1>2. checked' = {d} /\ MayCheck /\ UNCHANGED <<up, registry, stored, edm, job, removeMenu>>
    BY DEF CheckDisableDeviceAdmin, d
  <1>3. QED
    BY <1>1, <1>2, CheckStep

LEMMA DisableDeviceAdminStep ==
    ASSUME RegistryInv, NEW c \in checked, DisableDeviceAdmin(c) PROVE RegistryInv'
  <1>1. up /\ admins \subseteq Admin /\ c.old \in Names /\ removeMenu \in BOOLEAN
    BY DEF DisableDeviceAdmin, RegistryInv, TypeOK, Call
  <1>2. PICK users \in SUBSET Users : job' = SubJob("disable", c.old, users)
    BY DEF DisableDeviceAdmin, PolicyUsers
  <1>3. job' \in Job /\ job'.goal = "disable"
    <2>1. SubJob("disable", c.old, users) \in Job
      BY <1>1, JobTypes, RegistryAssumption
    <2>2. SubJob("disable", c.old, users).goal = "disable"
      BY GoalOf
    <2>3. QED
      BY <1>2, <2>1, <2>2
  <1>4. QED
    BY <1>1, <1>3, BeginStep DEF DisableDeviceAdmin, registry

(* The official super administrator is among those to be removed. *)
LEMMA ReplaceSuperAdminStep ==
    ASSUME RegistryInv, NEW c \in checked, ReplaceSuperAdmin(c) PROVE RegistryInv'
  <1>1. /\ up /\ up' = up /\ c \in Call /\ c.op = "replace" /\ checked' = {}
        /\ admins' = admins /\ rows' = rows /\ stored' = stored /\ edm' = edm
        /\ removeMenu' = removeMenu
    BY DEF ReplaceSuperAdmin, RegistryInv, TypeOK, registry
  <1>2. c.old \in Names /\ c.new \in Names
    BY <1>1 DEF Call
  <1>3. Sound(admins', rows') /\ admins \subseteq Admin
    BY <1>1, RunningIsSound DEF Sound
  <1>4. PICK users \in SUBSET Users : job' = [SuperJob("replace", c.old, users) EXCEPT !.new = c.new]
    BY DEF ReplaceSuperAdmin, PolicyUsers
  <1> DEFINE j == SuperJob("replace", c.old, users)
  <1>5. j \in Job /\ j.todo = (Subs(c.old) \cup {c.old}) \X (users \cup {Default})
    <2>1. j \in Job
      BY <1>2, <1>3, JobTypes, RegistryAssumption
    <2>2. QED
      BY <2>1 DEF SuperJob, NewJob
  <1> HIDE DEF j
  <1>6. job' \in Job /\ job'.todo = j.todo /\ job'.new = c.new
    BY <1>2, <1>4, <1>5 DEF j, Job
  <1>7. TypeOK'
    BY <1>1, <1>6 DEF RegistryInv, TypeOK, stored
  <1>8. ReplacedIsPending'
    <2>1. PICK s \in admins : Official(s) /\ s.name = c.old
      BY <1>1 DEF RegistryInv, CheckedIsOfficial
    <2>2. \A a \in admins : Official(a) => a.name = c.old
      BY <2>1 DEF RegistryInv, OfficialsShareName
    <2>3. <<c.old, Default>> \in j.todo
      BY <1>5
    <2>4. QED
      BY <1>1, <1>2, <1>6, <2>2, <2>3 DEF ReplacedIsPending
  <1>9. QED
    BY <1>1, <1>3, <1>7, <1>8, StaysSound DEF CheckedIsFirst, CheckedIsOfficial

(* The old super administrator is gone, so the new one is the only one. *)
LEMMA EndReplaceStep == ASSUME RegistryInv, EndReplace PROVE RegistryInv'
  <1>1. /\ up /\ up' = up /\ job # NoJob /\ job \in Job /\ job.goal = "replace" /\ job.todo = {}
        /\ stored' = stored /\ checked' = checked /\ removeMenu' = removeMenu
        /\ edm' \in BOOLEAN
    BY DEF EndReplace, Done, RegistryInv, TypeOK
  <1>2. checked = {} /\ Sound(admins, rows)
    BY <1>1, RunningIsSound DEF RegistryInv, CheckedIsFirst
  <1>3. CASE job' = NoJob /\ UNCHANGED registry
    BY <1>1, <1>2, <1>3, SettledStep DEF registry, RegistryInv, TypeOK, stored
  <1>4. CASE /\ ~job.failed /\ job' = Announce
             /\ Store(Default, NewAdmin(Default, job.new, "ENT", NoName, FALSE))
    <2> DEFINE e == NewAdmin(Default, job.new, "ENT", NoName, FALSE)
    <2>1. \A a \in admins : ~Official(a)
      BY <1>1, <1>4 DEF RegistryInv, ReplacedIsPending
    <2>2. OfficialSupers = {}
      BY <2>1 DEF OfficialSupers, Official
    <2>3. job.new \in Names
      BY <1>1 DEF RegistryInv, ReplacedIsPending
    <2>4. e \in Admin /\ e.user = Default /\ e.type = "ENT"
      BY <2>3, RegistryAssumption DEF NewAdmin, Admin, Types, Modes
    <2> HIDE DEF e
    <2>5. Store(Default, e)
      BY <1>4 DEF e
    <2>6. Sound(admins', rows')
      BY <1>2, <2>2, <2>4, <2>5, StoreSound, RegistryAssumption
    <2>7. QED
      BY <1>1, <1>2, <1>4, <2>6, SettledStep DEF RegistryInv, TypeOK, stored
  <1>5. QED
    BY <1>3, <1>4 DEF EndReplace

(* With keepPolicy the old administrator turns into the new one, in memory    *)
(* and in the table, and subordinates get another parent.                     *)
LEMMA RenameSound ==
    ASSUME NEW s, NEW t, Sound(s, t), NEW old \in Names, NEW new \in Names,
           \E a \in s : Official(a) /\ a.name = old,
           At(s, new, Default) # {} => new = old
    PROVE  Sound(Rename(s, old, new), ReplaceRow(t, old, new))
  <1> DEFINE r == Rename(s, old, new)
             q == ReplaceRow(t, old, new)
             e == NewAdmin(Default, new, "ENT", NoName, FALSE)
  <1> USE DEF Sound
  <1>1. PICK o \in s : Official(o) /\ o.name = old /\ At(s, old, Default) = {o}
    BY DEF At, Once, Official
  <1>2. PICK w \in t : Official(w) /\ w.name = old /\ At(t, old, Default) = {w}
    <2>1. PICK w \in t : Like(o, w)
      BY <1>1 DEF Covers
    <2>2. Official(w) /\ w.name = old
      BY <1>1, <2>1 DEF Official, Like
    <2>3. QED
      BY <2>2 DEF At, Once, Official
  <1>3. At(t, new, Default) # {} => new = old
    BY DEF At, Covers, Like
  <1>4. e \in Admin /\ Official(e) /\ e.name = new /\ e.user = Default /\ e.type = "ENT" /\ ~e.debug
    BY RegistryAssumption DEF NewAdmin, Admin, Types, Modes, Official
  <1> DEFINE m == [o EXCEPT !.name = new]
  <1>5. m \in Admin /\ Official(m) /\ m.name = new /\ m.user = Default /\ m.type = "ENT" /\ ~m.debug
    <2>1. o \in Admin
      OBVIOUS
    <2>2. QED
      BY <1>1, <2>1 DEF Admin, Official
  <1>6. \A x \in r : x = m \/ (x \in s /\ x # o)
    BY <1>1 DEF Rename
  <1>7. m \in r /\ \A x \in s : x = o \/ x \in r
    BY <1>1 DEF Rename
  <1>8. \A x \in q : x = e \/ (x \in t /\ x # w)
    BY <1>2 DEF ReplaceRow
  <1>9. e \in q /\ \A x \in t : x = w \/ x \in q
    BY <1>2 DEF ReplaceRow
  <1> HIDE DEF r, q, e, m
  <1>10. r \subseteq Admin /\ q \subseteq Admin
    BY <1>4, <1>5, <1>6, <1>8
  <1>11. Once(r)
    <2>1. \A x \in s : x.user = Default /\ x.name = new => x = o
      BY <1>1 DEF At, Once
    <2>2. QED
      BY <1>5, <1>6, <2>1 DEF Once
  <1>12. Once(q)
    <2>1. \A x \in t : x.user = Default /\ x.name = new => x = w
      BY <1>2, <1>3 DEF At, Once
    <2>2. QED
      BY <1>4, <1>8, <2>1 DEF Once
  <1>13. (\A x \in s : Official(x) => x = o) /\ (\A x \in t : Official(x) => x = w)
    BY <1>1, <1>2 DEF OfficialsShareName, Once, Official
  <1>14. OfficialsShareName(r) /\ OfficialsShareName(q)
    BY <1>6, <1>8, <1>13 DEF OfficialsShareName
  <1>15. SupersAtDefault(r) /\ SupersAtDefault(q)
    BY <1>4, <1>5, <1>6, <1>8 DEF SupersAtDefault
  <1>16. Like(m, e) /\ Like(e, m) /\ Like(o, w) /\ Like(w, o)
    <2>1. m.debug = FALSE /\ e.debug = FALSE /\ o.debug = FALSE /\ w.debug = FALSE
      BY <1>1, <1>2, <1>4, <1>5 DEF Admin, Official
    <2>2. QED
      BY <1>1, <1>2, <1>4, <1>5, <2>1 DEF Like, Official
  <1>17. Covers(r, q)
    <2>1. ASSUME NEW x \in s, x # o PROVE \E y \in q : Like(x, y)
      <3>1. PICK y \in t : Like(x, y)
        BY DEF Covers
      <3>2. y # w
        BY <1>16, <2>1, <3>1 DEF Like, Once
      <3>3. QED
        BY <1>9, <3>1, <3>2
    <2>2. QED
      BY <1>6, <1>9, <1>16, <2>1 DEF Covers
  <1>18. Covers(q, r)
    <2>1. ASSUME NEW x \in t, x # w PROVE \E y \in r : Like(x, y)
      <3>1. PICK y \in s : Like(x, y)
        BY DEF Covers
      <3>2. y # o
        BY <1>16, <2>1, <3>1 DEF Like, Once
      <3>3. QED
        BY <1>7, <3>1, <3>2
    <2>2. QED
      BY <1>7, <1>8, <1>16, <2>1 DEF Covers
  <1>19. QED
    BY <1>10, <1>11, <1>12, <1>14, <1>15, <1>17, <1>18 DEF r, q

LEMMA ReparentSound ==
    ASSUME NEW s, NEW t, Sound(s, t), NEW old \in Names, NEW new \in Names, NEW names
    PROVE  /\ Sound(s, Reparent(t, old, new, names))
           /\ Sound(UpdateParentAdminName(s, old, new), t)
  <1>1. \A a \in Admin : /\ [a EXCEPT !.parent = new] \in Admin
                         /\ Like([a EXCEPT !.parent = new], a) /\ Like(a, a)
    BY DEF Admin, Like
  <1>2. s \subseteq Admin /\ t \subseteq Admin
    BY DEF Sound
  <1>3. Sound(s, Reparent(t, old, new, names))
    <2> DEFINE f == [a \in t |-> IF a.parent = old /\ a.name \in names
                                 THEN [a EXCEPT !.parent = new] ELSE a]
    <2>1. Reparent(t, old, new, names) = {f[a] : a \in t}
      BY DEF Reparent
    <2>2. \A a \in t : f[a] \in Admin /\ Like(f[a], a)
      BY <1>1, <1>2
    <2> HIDE DEF f
    <2>3. QED
      BY <2>1, <2>2, ChangeSound
  <1>4. Sound(UpdateParentAdminName(s, old, new), t)
    <2> DEFINE f == [a \in s |-> IF a.user = Default /\ a.type \in {"SUB", "VIRTUAL"} /\ a.parent = old
                                 THEN [a EXCEPT !.parent = new] ELSE a]
    <2>1. UpdateParentAdminName(s, old, new) = {f[a] : a \in s}
      BY DEF UpdateParentAdminName
    <2>2. \A a \in s : f[a] \in Admin /\ Like(f[a], a)
      BY <1>1, <1>2
    <2> HIDE DEF f
    <2>3. QED
      BY <2>1, <2>2, ChangeSound
  <1>5. QED
    BY <1>3, <1>4

LEMMA KeepPolicyStep == ASSUME RegistryInv, NEW c \in checked, KeepPolicy(c) PROVE RegistryInv'
  <1>1. /\ up /\ up' = up /\ c \in Call /\ c.op = "keep" /\ checked' = {} /\ job' = Announce
        /\ edm' = edm /\ removeMenu' = removeMenu /\ saving' = saving
    BY DEF KeepPolicy, RegistryInv, TypeOK
  <1>2. Sound(admins, rows) /\ c.old \in Names /\ c.new \in Names
    BY <1>1, RunningIsSound DEF Call
  <1>3. /\ \E a \in admins : Official(a) /\ a.name = c.old
        /\ At(admins, c.new, Default) # {} => c.new = c.old
    BY <1>1 DEF RegistryInv, CheckedIsOfficial
  <1>4. CASE /\ rows' = ReplaceRow(Reparent(rows, c.old, c.new, Subs(c.old)), c.old, c.new)
             /\ admins' = UpdateParentAdminName(Rename(admins, c.old, c.new), c.old, c.new)
             /\ policies' = Renamed(policies, c.old, c.new)
             /\ late' = Renamed(late, c.old, c.new)
    <2>1. Sound(admins, Reparent(rows, c.old, c.new, Subs(c.old)))
      BY <1>2, ReparentSound
    <2>2. Sound(Rename(admins, c.old, c.new),
                ReplaceRow(Reparent(rows, c.old, c.new, Subs(c.old)), c.old, c.new))
      BY <1>2, <1>3, <2>1, RenameSound
    <2>3. Sound(admins', rows')
      BY <1>2, <1>4, <2>2, ReparentSound
    <2>4. policies' \subseteq Pairs /\ late' \subseteq Pairs
      BY <1>2, <1>4, RegistryAssumption DEF Renamed, Pairs, RegistryInv, TypeOK
    <2>5. QED
      BY <1>1, <2>3, <2>4, SettledStep DEF RegistryInv, TypeOK
  <1>5. CASE /\ \E some \in SUBSET Subs(c.old) : rows' = Reparent(rows, c.old, c.new, some)
             /\ UNCHANGED <<admins, policies, late>>
    <2>1. Sound(admins', rows')
      BY <1>2, <1>5, ReparentSound
    <2>2. QED
      BY <1>1, <1>5, <2>1, SettledStep DEF RegistryInv, TypeOK
  <1>6. QED
    BY <1>4, <1>5 DEF KeepPolicy

-----------------------------------------------------------------------------
(* Steps: the process *)

LEMMA CrashStep == ASSUME RegistryInv, Crash PROVE RegistryInv'
  <1> USE DEF Crash, RegistryInv
  <1>1. TypeOK'
    BY DEF TypeOK
  <1>2. OncePerUser' /\ OfficialsShareName(admins)' /\ OfficialsShareName(rows)'
        /\ SupersAtDefault(admins)' /\ SupersAtDefault(rows)'
    BY DEF OncePerUser, Once, OfficialsShareName, SupersAtDefault
  <1>3. TableAgrees' /\ DownIsEmpty' /\ CheckedIsFirst' /\ CheckedIsOfficial' /\ ReplacedIsPending'
    BY DEF TableAgrees, DownIsEmpty, CheckedIsFirst, CheckedIsOfficial, ReplacedIsPending, NoJob
  <1>4. QED
    BY <1>1, <1>2, <1>3

(* What was loaded is what is stored. *)
LEMMA StartStep == ASSUME RegistryInv, Start PROVE RegistryInv'
  <1>1. /\ ~up /\ up' /\ admins' = rows /\ rows' = rows /\ checked' = {} /\ stored' = stored
        /\ edm' = edm /\ removeMenu' = removeMenu /\ up' \in BOOLEAN
    BY DEF Start, RegistryInv, DownIsEmpty
  <1>2. rows \subseteq Admin
    BY DEF RegistryInv, TypeOK
  <1>3. Sound(admins', rows')
    BY <1>1, <1>2 DEF Sound, RegistryInv, OncePerUser, Covers, Like
  <1>4. job' \in Job /\ job'.goal = "boot"
    <2>1. PICK queue \in SUBSET {a.name : a \in rows} :
             job' = [NewJob("boot", {}, NoName) EXCEPT !.queue = queue]
      BY DEF Start
    <2>2. queue \subseteq Names
      BY <1>2 DEF Admin
    <2>3. QED
      BY <2>1, <2>2 DEF NewJob, Job
  <1>5. TypeOK'
    BY <1>1, <1>2, <1>4 DEF RegistryInv, TypeOK, stored
  <1>6. CheckedIsFirst' /\ CheckedIsOfficial' /\ ReplacedIsPending'
    BY <1>1, <1>4 DEF CheckedIsFirst, CheckedIsOfficial, ReplacedIsPending
  <1>7. QED
    BY <1>1, <1>3, <1>5, <1>6, StaysSound

LEMMA BootNextStep == ASSUME RegistryInv, BootNext PROVE RegistryInv'
  <1>1. /\ up /\ up' = up /\ job # NoJob /\ job \in Job /\ job.queue \subseteq Names
        /\ UNCHANGED <<admins, rows, stored, edm>> /\ checked' = checked
        /\ removeMenu' \in BOOLEAN
    BY DEF BootNext, Done, RegistryInv, TypeOK, Job, registry
  <1>2. checked = {} /\ Sound(admins, rows) /\ admins \subseteq Admin
    BY <1>1, RunningIsSound DEF RegistryInv, CheckedIsFirst, Sound
  <1>3. CASE job.queue = {}
    BY <1>1, <1>2, <1>3, SettledStep DEF BootNext, RegistryInv, TypeOK, stored
  <1>4. CASE job.queue # {}
    <2>1. PICK n \in job.queue, users \in SUBSET Users :
             job' = [SuperJob("boot", n, users) EXCEPT !.queue = job.queue \ {n}]
      BY <1>4 DEF BootNext, PolicyUsers
    <2> DEFINE j == SuperJob("boot", n, users)
    <2>2. j \in Job
      BY <1>1, <1>2, JobTypes, RegistryAssumption
    <2>3. j.goal = "boot"
      BY GoalOf
    <2> HIDE DEF j
    <2>4. job' \in Job /\ job'.goal = "boot"
      BY <1>1, <2>1, <2>2, <2>3 DEF j, Job
    <2>5. QED
      BY <1>1, <1>2, <2>4, BeginStep
  <1>5. QED
    BY <1>3, <1>4

LEMMA KvServiceStep == ASSUME RegistryInv, OnDistributedKvDataServiceStart PROVE RegistryInv'
  BY RunningIsSound DEF OnDistributedKvDataServiceStart, RegistryInv, TypeOK, stored, registry,
     OncePerUser, TableAgrees, DownIsEmpty, CheckedIsFirst, CheckedIsOfficial, ReplacedIsPending

-----------------------------------------------------------------------------
(* A first start leaves both lists empty and no job. *)
LEMMA InitRegistryInv == Init => RegistryInv
  <1> SUFFICES ASSUME Init PROVE RegistryInv
    OBVIOUS
  <1>1. up /\ admins = {} /\ rows = {} /\ checked = {} /\ job = NoJob
    BY DEF Init
  <1>2. TypeOK
    BY DEF Init, TypeOK
  <1>3. OncePerUser /\ OfficialsShareName(admins) /\ OfficialsShareName(rows)
    BY <1>1 DEF OncePerUser, Once, OfficialsShareName
  <1>4. SupersAtDefault(admins) /\ SupersAtDefault(rows) /\ TableAgrees
    BY <1>1 DEF SupersAtDefault, TableAgrees, Covers
  <1>5. DownIsEmpty /\ CheckedIsFirst /\ CheckedIsOfficial
    BY <1>1 DEF DownIsEmpty, CheckedIsFirst, CheckedIsOfficial
  <1>6. ReplacedIsPending
    BY <1>1 DEF ReplacedIsPending, NoJob
  <1>7. QED
    BY <1>2, <1>3, <1>4, <1>5, <1>6 DEF RegistryInv

(* Every step keeps the invariant. *)
LEMMA RegistryStep ==
    ASSUME "overtaken" \notin Env, RegistryInv, [Next]_vars PROVE RegistryInv'
  <1>1. CASE Enabling
    BY <1>1, EnableAdminStep, EnableDeviceAdminStep, AuthorizeAdminStep, DelegateStep,
       DelegateAnyStep, EndStep DEF Enabling
  <1>2. CASE Using
    BY <1>2, HandleDevicePolicyStep, UpdateDevicePolicyStep, SetAdminRunningModeStep DEF Using
  <1>3. CASE Removing
    <2>1. CASE \E n \in Names, u \in Users : DisableAdmin(n, u) \/ PackageRemoved(n, u)
      BY <2>1, BeginRemovalStep
    <2>2. CASE \E c, n \in Names, u \in Users : DisableVirtualAdmin(c, n, u)
      BY <2>2, BeginRemovalStep
    <2>3. CASE \E u \in Users : UserRemoved(u)
      <3>1. CASE Names = {}
        <4>1. PICK u \in Users : UserRemoved(u)
          BY <2>3
        <4>2. up /\ checked = {} /\ admins = {} /\ removeMenu \in BOOLEAN
          BY <3>1, <4>1, FreeFacts DEF UserRemoved, Sound, Admin, RegistryInv, TypeOK
        <4>3. job' = NewJob("user", {}, NoName)
          BY <4>1, <4>2 DEF UserRemoved
        <4>4. job' \in Job /\ job'.goal = "user"
          BY <4>3 DEF NewJob, Job
        <4>5. QED
          BY <4>1, <4>2, <4>4, BeginStep DEF UserRemoved, registry
      <3>2. CASE Names # {}
        BY <2>3, <3>2, BeginRemovalStep
      <3>3. QED
        BY <3>1, <3>2
    <2>4. CASE \E p \in Pairs : Remove(p)
      BY <2>4, RemoveStep
    <2>5. CASE EndDisable \/ EndRemoval
      BY <2>5, EndStep
    <2>6. QED
      BY <1>3, <2>1, <2>2, <2>3, <2>4, <2>5 DEF Removing
  <1>4. CASE Replacing
    BY <1>4, CheckReplaceStep, CheckDisableDeviceAdminStep, DisableDeviceAdminStep,
       ReplaceSuperAdminStep, KeepPolicyStep, EndReplaceStep DEF Replacing
  <1>5. CASE Restarting
    BY <1>5, CrashStep, StartStep, BootNextStep, KvServiceStep DEF Restarting
  <1>6. CASE UNCHANGED vars
    BY <1>6 DEF vars, registry, RegistryInv, TypeOK, OncePerUser, TableAgrees, DownIsEmpty,
       CheckedIsFirst, CheckedIsOfficial, ReplacedIsPending
  <1>7. QED
    BY <1>1, <1>2, <1>3, <1>4, <1>5, <1>6 DEF Next

(* The invariant holds in every reachable state. *)
THEOREM RegistryInvariant == ASSUME "overtaken" \notin Env PROVE Spec => []RegistryInv
  <1>1. RegistryInv /\ [Next]_vars => RegistryInv'
    BY RegistryStep
  <1>2. QED
    BY <1>1, InitRegistryInv, PTL DEF Spec

(* A package is registered once per user, in memory and in the table that has *)
(* no key for it, whatever fails and wherever the process dies.               *)
THEOREM RegisteredOnce == ASSUME "overtaken" \notin Env PROVE Spec => []OncePerUser
  <1>1. RegistryInv => OncePerUser
    BY DEF RegistryInv
  <1>2. QED
    BY <1>1, RegistryInvariant, PTL

(* EnableAdmin and ReplaceSuperAdmin leave one official super administrator   *)
(* at most, replacements that fail half-way and restarts included.            *)
THEOREM SuperIsUnique == ASSUME "overtaken" \notin Env PROVE Spec => []OneOfficialSuper
  <1>1. RegistryInv => OneOfficialSuper
    BY DEF RegistryInv, OneOfficialSuper, OfficialSupers, Official, OfficialsShareName,
       OncePerUser, Once
  <1>2. QED
    BY <1>1, RegistryInvariant, PTL
=============================================================================
