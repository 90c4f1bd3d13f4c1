---------------------------- MODULE PolicyStore ----------------------------
(* UserPolicyManager and PolicyManager over the two policy tables of the     *)
(* edm database (device_admin_policies, device_combined_policies).           *)
(*                                                                           *)
(* Each user has three maps in memory, loaded on first use and updated after *)
(* the matching write of the database.  PolicyManager::mutex_ is held for a  *)
(* whole call, so calls do not interleave; a process death may fall between  *)
(* the two writes of one SetPolicy, which is why that call is two steps.     *)
(*                                                                           *)
(* The tables have an autoincrement key and no uniqueness over (user, admin, *)
(* policy), so a key owns a SET of row values; equal duplicates collapse and *)
(* the order of rows is abstracted (loading takes any one of them).          *)
EXTENDS FiniteSets, Naturals

CONSTANTS
    Users,      \* account ids
    Admins,     \* administrator bundle names
    Policies,   \* policy names
    Values,     \* non-empty policy values
    Absent,     \* the empty string
    NoAdmin,    \* the empty admin name: the caller stores a combined value only
    Env         \* which environment faults occur, a subset of Faults

(* "write": a table write fails.  "query": a query fails.  "contested": a    *)
(* super admin is replaced by an application that has policies of its own.   *)
Faults == {"write", "query", "contested"}

ASSUME StoreAssumption ==
    /\ Env \subseteq Faults
    /\ Absent \notin Values
    /\ NoAdmin \notin Admins

VARIABLES
    up,                 \* the service process runs
    loaded,             \* users that have a UserPolicyManager
    listed,             \* users InitAllPolices has still to load
    adminPolicies,      \* adminPolicies_[admin][policy] of each user
    policyAdmins,       \* policyAdmins_[policy][admin] of each user, indexed [u][a][p]
    combinedPolicies,   \* combinedPolicies_[policy] of each user
    adminRows,          \* rows of device_admin_policies, a set of values per key
    combinedRows,       \* rows of device_combined_policies
    call,               \* SetPolicy between its two writes
    tainted,            \* history: users with a failed load or a contested hand-over
    ghost,              \* history: keys whose write failed after policyAdmins_ took it
    unlisted            \* history: the list of users was not read at this start

memory == <<loaded, listed, adminPolicies, policyAdmins, combinedPolicies>>
tables == <<adminRows, combinedRows>>
history == <<tainted, ghost, unlisted>>
vars == <<up, memory, tables, call, history>>

Value == Values \cup {Absent}
Key == Users \X Admins \X Policies
NoCall == [busy |-> FALSE]
Call == [busy: {TRUE}, user: Users, admin: Admins, policy: Policies, value: Value]

NoPolicies == [p \in Policies |-> Absent]
NoAdminPolicies == [a \in Admins |-> NoPolicies]

(* One row per key holds the value; no row stands for the empty value. *)
RowOf(v) == IF v = Absent THEN {} ELSE {v}

HasPolicies(u, a) == \E p \in Policies : adminPolicies[u][a][p] # Absent
HasRows(u) == \E a \in Admins, p \in Policies : adminRows[u][a][p] # {}

TypeOK ==
    /\ up \in BOOLEAN
    /\ loaded \subseteq Users
    /\ listed \subseteq Users \ loaded
    /\ adminPolicies \in [Users -> [Admins -> [Policies -> Value]]]
    /\ policyAdmins \in [Users -> [Admins -> [Policies -> Value]]]
    /\ combinedPolicies \in [Users -> [Policies -> Value]]
    /\ adminRows \in [Users -> [Admins -> [Policies -> SUBSET Values]]]
    /\ combinedRows \in [Users -> [Policies -> SUBSET Values]]
    /\ call \in Call \cup {NoCall}
    /\ tainted \subseteq Users
    /\ ghost \subseteq Key
    /\ unlisted \in BOOLEAN

Init ==
    /\ up = TRUE
    /\ loaded = {}
    /\ listed = {}
    /\ adminPolicies = [u \in Users |-> NoAdminPolicies]
    /\ policyAdmins = [u \in Users |-> NoAdminPolicies]
    /\ combinedPolicies = [u \in Users |-> NoPolicies]
    /\ adminRows = [u \in Users |-> [a \in Admins |-> [p \in Policies |-> {}]]]
    /\ combinedRows = [u \in Users |-> [p \in Policies |-> {}]]
    /\ call = NoCall
    /\ tainted = {}
    /\ ghost = {}
    /\ unlisted = FALSE

-----------------------------------------------------------------------------
(* Loading *)

(* What a query may return: one value of a key that has rows. *)
Picks(rows) == IF rows = {} THEN {Absent} ELSE rows
AdminImages(u) ==
    {f \in [Admins -> [Policies -> Value]] :
        \A a \in Admins, p \in Policies : f[a][p] \in Picks(adminRows[u][a][p])}
CombinedImages(u) ==
    {f \in [Policies -> Value] : \A p \in Policies : f[p] \in Picks(combinedRows[u][p])}

(* GetUserPolicyMgr of a user without a manager: make one and Init() it.  A  *)
(* failed first query leaves all maps empty, a failed second one the         *)
(* combined map; the manager is registered in every case.  While the service *)
(* starts only the users of its list load.                                   *)
Load(u) ==
    /\ up /\ ~call.busy
    /\ u \notin loaded
    /\ listed = {} \/ u \in listed
    /\ loaded' = loaded \cup {u}
    /\ listed' = listed \ {u}
    /\ \/ \E f \in AdminImages(u), g \in CombinedImages(u) :
            /\ adminPolicies' = [adminPolicies EXCEPT ![u] = f]
            /\ policyAdmins' = [policyAdmins EXCEPT ![u] = f]
            /\ combinedPolicies' = [combinedPolicies EXCEPT ![u] = g]
            /\ UNCHANGED tainted
       \/ /\ "query" \in Env
          /\ \E f \in AdminImages(u) \cup {NoAdminPolicies} :
                /\ adminPolicies' = [adminPolicies EXCEPT ![u] = f]
                /\ policyAdmins' = [policyAdmins EXCEPT ![u] = f]
          /\ UNCHANGED combinedPolicies
          /\ tainted' = tainted \cup {u}
    /\ UNCHANGED <<up, tables, call, ghost, unlisted>>

(* mutant: the list is read from device_combined_policies *)
StoredUsersOfCombined == {u \in Users : \E p \in Policies : combinedRows[u][p] # {}}

(* QueryAllUserId: the accounts that appear in device_admin_policies. *)
StoredUsers == {u \in Users : HasRows(u)}

(* InitAllPolices at service start lists the users of device_admin_policies  *)
(* and makes a manager for each; when the list cannot be read it makes none. *)
Start ==
    /\ ~up
    /\ up' = TRUE
    /\ \/ /\ listed' = StoredUsers
          /\ unlisted' = FALSE
       \/ /\ "query" \in Env
          /\ unlisted' = TRUE
          /\ UNCHANGED listed
    /\ UNCHANGED <<loaded, adminPolicies, policyAdmins, combinedPolicies,
                   tables, call, tainted, ghost>>

(* The process dies, at any point: the maps and an open call are gone. *)
Crash ==
    /\ up
    /\ up' = FALSE
    /\ loaded' = {}
    /\ listed' = {}
    /\ adminPolicies' = [u \in Users |-> NoAdminPolicies]
    /\ policyAdmins' = [u \in Users |-> NoAdminPolicies]
    /\ combinedPolicies' = [u \in Users |-> NoPolicies]
    /\ call' = NoCall
    /\ ghost' = {}
    /\ UNCHANGED <<tables, tainted, unlisted>>

-----------------------------------------------------------------------------
(* SetPolicy *)

Ready(u) == up /\ ~call.busy /\ listed = {} /\ u \in loaded

(* Insert adds a row, Update rewrites every row of the key (none if there is *)
(* none), Delete removes them all.                                           *)
Insert(rows, v) == rows \cup {v}
Update(rows, v) == IF rows = {} THEN {} ELSE {v}

(* mutants: rows survive a delete, an update adds a row *)
WrittenUndeleted(rows, held, v) ==
    IF v = Absent THEN rows ELSE IF held = Absent THEN Insert(rows, v) ELSE Update(rows, v)
WrittenTwice(rows, held, v) == IF v = Absent THEN {} ELSE Insert(rows, v)

(* What a write leaves in a key's rows, given what memory holds: memory      *)
(* decides between an update and an insert.                                  *)
Written(rows, held, v) ==
    IF v = Absent THEN {} ELSE IF held = Absent THEN Insert(rows, v) ELSE Update(rows, v)

(* SetCombinedPolicy, or DeleteCombinedPolicy for an empty value. *)
WriteCombined(u, p, m) ==
    /\ combinedRows' = [combinedRows EXCEPT ![u][p] = Written(@, combinedPolicies[u][p], m)]
    /\ combinedPolicies' = [combinedPolicies EXCEPT ![u][p] = m]

(* First half of SetPolicy: the combined policy, whose error is only logged. *)
(* An empty admin name ends the call here.                                   *)
SetCombined(u, a, p, v, m) ==
    /\ Ready(u)
    /\ \/ WriteCombined(u, p, m)
       \/ "write" \in Env /\ UNCHANGED <<combinedRows, combinedPolicies>>
    /\ call' = IF a = NoAdmin
               THEN NoCall
               ELSE [busy |-> TRUE, user |-> u, admin |-> a, policy |-> p, value |-> v]
    /\ UNCHANGED <<up, loaded, listed, adminPolicies, policyAdmins, adminRows, history>>

(* SetAdminPolicy: policyAdmins_ takes the value BEFORE the table is written *)
(* and keeps it when that write fails.                                       *)
SetAdminPolicy(u, a, p, v) ==
    /\ policyAdmins' = [policyAdmins EXCEPT ![u][a][p] = v]
    /\ \/ /\ adminRows' = [adminRows EXCEPT ![u][a][p] = Written(@, adminPolicies[u][a][p], v)]
          /\ adminPolicies' = [adminPolicies EXCEPT ![u][a][p] = v]
          /\ ghost' = ghost \ {<<u, a, p>>}
       \/ /\ "write" \in Env
          /\ ghost' = ghost \cup {<<u, a, p>>}
          /\ UNCHANGED <<adminRows, adminPolicies>>

(* DeleteAdminPolicy: the rows go first; policyAdmins_ is only cleaned when  *)
(* adminPolicies_ knows the admin.                                           *)
DeleteAdminPolicy(u, a, p) ==
    /\ adminRows' = [adminRows EXCEPT ![u][a][p] = {}]
    /\ IF HasPolicies(u, a)
       THEN /\ adminPolicies' = [adminPolicies EXCEPT ![u][a][p] = Absent]
            /\ policyAdmins' = [policyAdmins EXCEPT ![u][a][p] = Absent]
            /\ ghost' = ghost \ {<<u, a, p>>}
       ELSE UNCHANGED <<adminPolicies, policyAdmins, ghost>>

(* Second half of SetPolicy: the admin's own policy. The last disjunct is a  *)
(* storage that is not available, or a delete that fails: nothing changes.   *)
SetOwn ==
    /\ call.busy
    /\ LET u == call.user  a == call.admin  p == call.policy  v == call.value IN
       \/ v # Absent /\ SetAdminPolicy(u, a, p, v)
       \/ v = Absent /\ DeleteAdminPolicy(u, a, p)
       \/ "write" \in Env /\ UNCHANGED <<adminPolicies, policyAdmins, adminRows, ghost>>
    /\ call' = NoCall
    /\ UNCHANGED <<up, loaded, listed, combinedPolicies, combinedRows, tainted, unlisted>>

-----------------------------------------------------------------------------
(* ReplacePolicyByAdminName: the rows of a get b's name, the map of a        *)
(* replaces that of b, and each entry of a in policyAdmins_ moves to b.      *)
Contested(u, a, b) ==
    \/ \E p \in Policies : adminRows[u][b][p] # {}
    \/ HasPolicies(u, b)

(* mutant: only adminPolicies_ is renamed *)
MovedNot(old, a, b) == old

Moved(old, a, b) ==
    [old EXCEPT ![a] = NoPolicies,
                ![b] = [p \in Policies |-> IF old[a][p] # Absent THEN old[a][p] ELSE old[b][p]]]

Renamed(old, a, b) ==
    IF \E p \in Policies : old[a][p] # Absent
    THEN [old EXCEPT ![a] = NoPolicies, ![b] = old[a]]
    ELSE old

RowsRenamed(rows, a, b) ==
    [rows EXCEPT ![a] = [p \in Policies |-> {}],
                 ![b] = [p \in Policies |-> rows[a][p] \cup rows[b][p]]]

MovedGhosts(u, a, b) ==
    {k \in Key : IF k[1] = u /\ k[2] = a THEN FALSE
                 ELSE IF k[1] = u /\ k[2] = b /\ policyAdmins[u][a][k[3]] # Absent
                 THEN <<u, a, k[3]>> \in ghost
                 ELSE k \in ghost}

ReplaceAllPolicy(u, a, b) ==
    /\ Ready(u) /\ a # b
    /\ Contested(u, a, b) => "contested" \in Env
    /\ adminRows' = [adminRows EXCEPT ![u] = RowsRenamed(@, a, b)]
    /\ adminPolicies' = [adminPolicies EXCEPT ![u] = Renamed(@, a, b)]
    /\ policyAdmins' = [policyAdmins EXCEPT ![u] = Moved(@, a, b)]
    /\ ghost' = MovedGhosts(u, a, b)
    /\ tainted' = IF Contested(u, a, b) THEN tainted \cup {u} ELSE tainted
    /\ UNCHANGED <<up, loaded, listed, combinedPolicies, combinedRows, call, unlisted>>

Next ==
    \/ Start \/ Crash
    \/ \E u \in Users : Load(u)
    \/ \E u \in Users, a \in Admins \cup {NoAdmin}, p \in Policies, v, m \in Value :
            SetCombined(u, a, p, v, m)
    \/ SetOwn
    \/ \E u \in Users, a, b \in Admins : ReplaceAllPolicy(u, a, b)

Spec == Init /\ [][Next]_vars

-----------------------------------------------------------------------------
(* Properties *)

(* The two indices of one user hold the same values: RemoveAdminPolicy reads *)
(* adminPolicies_, every merge reads policyAdmins_, and a value only one of  *)
(* them knows is enforced but never removed (or the reverse).  The only      *)
(* exception is a key whose last SetAdminPolicy could not write its row.     *)
IndicesAgree ==
    \A u \in loaded \ tainted, a \in Admins, p \in Policies :
        <<u, a, p>> \notin ghost => policyAdmins[u][a][p] = adminPolicies[u][a][p]

(* The maps are exactly the tables: UserPolicyManager answers from memory    *)
(* what a restart would load, through failed writes and dying processes.     *)
MemoryIsDurable ==
    \A u \in loaded \ tainted, p \in Policies :
        /\ combinedRows[u][p] = RowOf(combinedPolicies[u][p])
        /\ \A a \in Admins : adminRows[u][a][p] = RowOf(adminPolicies[u][a][p])

(* GetPolicyUserIds names the users that have a manager, and that list is    *)
(* what removing a super admin walks over: once the service has started, no  *)
(* user with a stored policy is missing from it, although managers are made  *)
(* lazily.                                                                   *)
StoredUsersListed ==
    up /\ listed = {} /\ ~unlisted => \A u \in Users : HasRows(u) => u \in loaded

(* The inductive invariant behind the three properties above.  A dead        *)
(* process holds nothing; an open call belongs to a loaded user; a ghost is  *)
(* a value policyAdmins_ shows; the rows of an untainted user are unique.    *)
DownIsEmpty == ~up => loaded = {} /\ listed = {} /\ call = NoCall /\ ghost = {}
CallIsLoaded == call.busy => up /\ listed = {} /\ call.user \in loaded
GhostsAreVisible ==
    \A k \in ghost : k[1] \in loaded /\ policyAdmins[k[1]][k[2]][k[3]] # Absent
RowsAreUnique ==
    \A u \in Users \ tainted, p \in Policies :
        /\ \E v \in Value : combinedRows[u][p] = RowOf(v)
        /\ \A a \in Admins : \E v \in Value : adminRows[u][a][p] = RowOf(v)
StoredUsersKnown ==
    up /\ ~unlisted => \A u \in Users : HasRows(u) => u \in loaded \cup listed

StoreInv ==
    /\ TypeOK
    /\ DownIsEmpty
    /\ CallIsLoaded
    /\ GhostsAreVisible
    /\ IndicesAgree
    /\ RowsAreUnique
    /\ MemoryIsDurable
    /\ StoredUsersKnown

(* The store as its callers see it: memory where there is a manager, the     *)
(* rows where there is none yet.                                             *)
Seen(rows, held, u) ==
    IF u \in loaded THEN held ELSE IF rows = {} THEN Absent ELSE CHOOSE v \in rows : TRUE
AdminView ==
    [u \in Users |-> [a \in Admins |-> [p \in Policies |->
        Seen(adminRows[u][a][p], adminPolicies[u][a][p], u)]]]
CombinedView ==
    [u \in Users |-> [p \in Policies |->
        Seen(combinedRows[u][p], combinedPolicies[u][p], u)]]

Table == INSTANCE PolicyTable WITH
            adminValue <- AdminView, combinedValue <- CombinedView, pending <- call

(* Without failed queries and contested hand-overs the cache is transparent: *)
(* what callers see is the durable table of PolicyTable, every write of it   *)
(* atomic, and neither a restart nor a lazy load is visible.                 *)
ImplementsTable == Table!TableSpec
=============================================================================
