------------------------- MODULE PolicyStoreProofs -------------------------
(* Theorems about PolicyStore, for any accounts, administrators, policies    *)
(* and values, and any environment faults.                                   *)
EXTENDS PolicyStore, TLAPS

(* Initially everything is empty. *)
LEMMA InitStoreInv == Init => StoreInv
  <1> SUFFICES ASSUME Init PROVE StoreInv
    OBVIOUS
  <1> USE StoreAssumption DEF Init, Value, NoCall, NoPolicies, NoAdminPolicies
  <1>1. TypeOK
    BY DEF TypeOK, Call, Key
  <1>2. DownIsEmpty /\ CallIsLoaded /\ GhostsAreVisible /\ IndicesAgree /\ MemoryIsDurable
    BY DEF DownIsEmpty, CallIsLoaded, GhostsAreVisible, IndicesAgree, MemoryIsDurable
  <1>3. RowsAreUnique
    BY DEF RowsAreUnique, RowOf
  <1>4. StoredUsersKnown
    BY DEF StoredUsersKnown, HasRows
  <1>5. QED
    BY <1>1, <1>2, <1>3, <1>4 DEF StoreInv

(* The value a query picks from unique rows is the value they stand for. *)
LEMMA UniquePick ==
    ASSUME NEW v \in Value, NEW x \in Picks(RowOf(v)) PROVE RowOf(v) = RowOf(x)
  BY DEF Picks, RowOf

(* A lazy or listed load copies the rows, or taints the user. *)
LEMMA LoadStep == ASSUME StoreInv, NEW u \in Users, Load(u) PROVE StoreInv'
  <1> USE StoreAssumption DEF StoreInv, Value, tables
  <1>1. PICK f \in [Admins -> [Policies -> Value]], g \in [Policies -> Value] :
            /\ adminPolicies' = [adminPolicies EXCEPT ![u] = f]
            /\ policyAdmins' = [policyAdmins EXCEPT ![u] = f]
            /\ combinedPolicies' = [combinedPolicies EXCEPT ![u] = g]
            /\ tainted' = tainted \cup {u} \/ /\ f \in AdminImages(u)
                                              /\ g \in CombinedImages(u)
                                              /\ tainted' = tainted
    <2>1. AdminImages(u) \subseteq [Admins -> [Policies -> Value]]
      BY DEF AdminImages
    <2>2. CombinedImages(u) \subseteq [Policies -> Value]
      BY DEF CombinedImages
    <2>3. NoAdminPolicies \in [Admins -> [Policies -> Value]]
      BY DEF NoAdminPolicies, NoPolicies
    <2>4. combinedPolicies = [combinedPolicies EXCEPT ![u] = combinedPolicies[u]]
          /\ combinedPolicies[u] \in [Policies -> Value]
      BY DEF TypeOK
    <2>5. QED
      BY <2>1, <2>2, <2>3, <2>4 DEF Load
  <1>2. /\ up' = up /\ up /\ ~call.busy /\ u \notin loaded /\ call' = call
        /\ loaded' = loaded \cup {u} /\ listed' = listed \ {u}
        /\ adminRows' = adminRows /\ combinedRows' = combinedRows
        /\ ghost' = ghost /\ unlisted' = unlisted
    BY DEF Load
  <1>3. TypeOK'
    BY <1>1, <1>2 DEF TypeOK
  <1>4. DownIsEmpty' /\ CallIsLoaded' /\ StoredUsersKnown'
    BY <1>2 DEF DownIsEmpty, CallIsLoaded, StoredUsersKnown, HasRows
  <1>5. GhostsAreVisible' /\ IndicesAgree'
    BY <1>1, <1>2 DEF GhostsAreVisible, IndicesAgree, TypeOK, Key
  <1>6. RowsAreUnique'
    BY <1>1, <1>2 DEF RowsAreUnique
  <1>7. ASSUME NEW w \in loaded' \ tainted', NEW p \in Policies
        PROVE  /\ combinedRows'[w][p] = RowOf(combinedPolicies'[w][p])
               /\ \A a \in Admins : adminRows'[w][a][p] = RowOf(adminPolicies'[w][a][p])
    <2>1. CASE w # u
      BY <1>1, <1>2, <1>7, <2>1 DEF MemoryIsDurable, TypeOK
    <2>2. CASE w = u
      <3>1. f \in AdminImages(u) /\ g \in CombinedImages(u) /\ u \notin tainted
        BY <1>1, <1>7, <2>2
      <3>2. g[p] \in Picks(combinedRows[u][p])
        BY <3>1 DEF CombinedImages
      <3>3. \A a \in Admins : f[a][p] \in Picks(adminRows[u][a][p])
        BY <3>1 DEF AdminImages
      <3>4. combinedRows[u][p] = RowOf(g[p])
        BY <3>1, <3>2, UniquePick DEF RowsAreUnique
      <3>5. \A a \in Admins : adminRows[u][a][p] = RowOf(f[a][p])
        BY <3>1, <3>3, UniquePick DEF RowsAreUnique
      <3>6. QED
        BY <1>1, <1>2, <2>2, <3>4, <3>5 DEF TypeOK
    <2>3. QED
      BY <2>1, <2>2
  <1>8. MemoryIsDurable'
    BY <1>7 DEF MemoryIsDurable, RowOf
  <1>9. QED
    BY <1>3, <1>4, <1>5, <1>6, <1>8

(* Starting lists the users that have rows; dying empties the memory. *)
LEMMA StartStep == ASSUME StoreInv, Start PROVE StoreInv'
  <1> USE DEF Start, StoreInv, tables, Value
  <1>1. TypeOK'
    BY DEF TypeOK, DownIsEmpty, StoredUsers
  <1>2. DownIsEmpty' /\ CallIsLoaded' /\ StoredUsersKnown'
    BY DEF DownIsEmpty, CallIsLoaded, StoredUsersKnown, HasRows, StoredUsers, NoCall
  <1>3. GhostsAreVisible' /\ IndicesAgree'
    BY DEF GhostsAreVisible, IndicesAgree, TypeOK
  <1>4. RowsAreUnique' /\ MemoryIsDurable'
    BY DEF RowsAreUnique, MemoryIsDurable
  <1>5. QED
    BY <1>1, <1>2, <1>3, <1>4

LEMMA CrashStep == ASSUME StoreInv, Crash PROVE StoreInv'
  <1> USE StoreAssumption DEF Crash, StoreInv, tables, Value
  <1>1. TypeOK'
    BY DEF TypeOK, NoAdminPolicies, NoPolicies, Key
  <1>2. DownIsEmpty' /\ CallIsLoaded' /\ StoredUsersKnown' /\ GhostsAreVisible'
        /\ IndicesAgree' /\ MemoryIsDurable'
    BY DEF DownIsEmpty, CallIsLoaded, StoredUsersKnown, GhostsAreVisible,
           IndicesAgree, MemoryIsDurable, NoCall
  <1>3. RowsAreUnique'
    BY DEF RowsAreUnique
  <1>4. QED
    BY <1>1, <1>2, <1>3

(* A key that memory and rows agree on agrees after a write as well. *)
LEMMA WrittenIsRowOf ==
    ASSUME NEW held \in Value, NEW v \in Value
    PROVE  Written(RowOf(held), held, v) = RowOf(v)
  BY StoreAssumption DEF Written, RowOf, Insert, Update, Value

LEMMA WrittenType ==
    ASSUME NEW rows \in SUBSET Values, NEW held, NEW v \in Value
    PROVE  Written(rows, held, v) \in SUBSET Values
  BY StoreAssumption DEF Written, Insert, Update, Value

(* The combined half of SetPolicy touches one combined key of one user. *)
LEMMA SetCombinedStep ==
    ASSUME StoreInv, NEW u \in Users, NEW a \in Admins \cup {NoAdmin}, NEW p \in Policies,
           NEW v \in Value, NEW m \in Value, SetCombined(u, a, p, v, m)
    PROVE  StoreInv'
  <1> USE DEF StoreInv, history
  <1>1. /\ up /\ ~call.busy /\ listed = {} /\ u \in loaded
        /\ up' = up /\ loaded' = loaded /\ listed' = listed
        /\ adminPolicies' = adminPolicies /\ policyAdmins' = policyAdmins
        /\ adminRows' = adminRows
        /\ tainted' = tainted /\ ghost' = ghost /\ unlisted' = unlisted
    BY DEF SetCombined, Ready
  <1>2. call' \in Call \cup {NoCall} /\ (call'.busy => call'.user = u)
    <2>1. call' = IF a = NoAdmin THEN NoCall
                  ELSE [busy |-> TRUE, user |-> u, admin |-> a, policy |-> p, value |-> v]
      BY DEF SetCombined
    <2>2. CASE a = NoAdmin
      BY <2>1, <2>2 DEF NoCall
    <2>3. CASE a # NoAdmin
      BY <2>1, <2>3 DEF Call
    <2>4. QED
      BY <2>2, <2>3
  <1>3. \/ /\ combinedRows' = [combinedRows EXCEPT ![u][p] =
                                 Written(combinedRows[u][p], combinedPolicies[u][p], m)]
           /\ combinedPolicies' = [combinedPolicies EXCEPT ![u][p] = m]
        \/ combinedRows' = combinedRows /\ combinedPolicies' = combinedPolicies
    BY DEF SetCombined, WriteCombined
  <1>4. TypeOK'
    <2>1. Written(combinedRows[u][p], combinedPolicies[u][p], m) \in SUBSET Values
      BY WrittenType DEF TypeOK
    <2>2. combinedRows' \in [Users -> [Policies -> SUBSET Values]]
          /\ combinedPolicies' \in [Users -> [Policies -> Value]]
      <3>1. CASE combinedRows' = combinedRows /\ combinedPolicies' = combinedPolicies
        BY <3>1 DEF TypeOK
      <3>2. CASE /\ combinedRows' = [combinedRows EXCEPT ![u][p] =
                                 Written(combinedRows[u][p], combinedPolicies[u][p], m)]
                 /\ combinedPolicies' = [combinedPolicies EXCEPT ![u][p] = m]
        BY <2>1, <3>2 DEF TypeOK
      <3>3. QED
        BY <1>3, <3>1, <3>2
    <2>3. QED
      BY <1>1, <1>2, <2>2 DEF TypeOK
  <1>5. DownIsEmpty' /\ CallIsLoaded' /\ StoredUsersKnown'
    BY <1>1, <1>2 DEF DownIsEmpty, CallIsLoaded, StoredUsersKnown, HasRows
  <1>6. GhostsAreVisible' /\ IndicesAgree'
    BY <1>1 DEF GhostsAreVisible, IndicesAgree
  <1>7. ASSUME NEW w \in loaded \ tainted, NEW q \in Policies
        PROVE  combinedRows'[w][q] = RowOf(combinedPolicies'[w][q])
    <2>1. combinedRows[w][q] = RowOf(combinedPolicies[w][q])
      BY DEF MemoryIsDurable
    <2>2. CASE w = u /\ q = p
      <3>1. Written(combinedRows[u][p], combinedPolicies[u][p], m) = RowOf(m)
        BY <2>1, <2>2, WrittenIsRowOf DEF TypeOK
      <3>2. QED
        BY <1>3, <2>1, <2>2, <3>1 DEF TypeOK
    <2>3. CASE ~(w = u /\ q = p)
      BY <1>3, <2>1, <2>3 DEF TypeOK
    <2>4. QED
      BY <2>2, <2>3
  <1>8. MemoryIsDurable'
    BY <1>1, <1>7 DEF MemoryIsDurable
  <1>9. RowsAreUnique'
    <2>1. ASSUME NEW w \in Users \ tainted, NEW q \in Policies
          PROVE  \E x \in Value : combinedRows'[w][q] = RowOf(x)
      <3>1. CASE w \in loaded
        BY <1>4, <1>7, <3>1 DEF TypeOK
      <3>2. CASE w \notin loaded
        <4>1. combinedRows'[w] = combinedRows[w]
          BY <1>1, <1>3, <3>2 DEF TypeOK
        <4>2. QED
          BY <4>1 DEF RowsAreUnique
      <3>3. QED
        BY <3>1, <3>2
    <2>2. QED
      BY <1>1, <2>1 DEF RowsAreUnique
  <1>10. QED
    BY <1>4, <1>5, <1>6, <1>8, <1>9

(* The own half of SetPolicy, in its three outcomes, touches one key. *)
LEMMA SetOwnStep == ASSUME StoreInv, SetOwn PROVE StoreInv'
  <1> USE StoreAssumption DEF StoreInv
  <1> DEFINE u == call.user  a == call.admin  p == call.policy  v == call.value
  <1>1. /\ call.busy /\ call' = NoCall
        /\ up' = up /\ loaded' = loaded /\ listed' = listed
        /\ combinedPolicies' = combinedPolicies /\ combinedRows' = combinedRows
        /\ tainted' = tainted /\ unlisted' = unlisted
    BY DEF SetOwn
  <1>2. /\ u \in Users /\ a \in Admins /\ p \in Policies /\ v \in Value
        /\ up /\ listed = {} /\ u \in loaded
    <2>1. call # NoCall
      BY <1>1 DEF NoCall
    <2>2. call \in Call
      BY <2>1 DEF TypeOK
    <2>3. QED
      BY <1>1, <2>2 DEF Call, CallIsLoaded
  <1> DEFINE W == Written(adminRows[u][a][p], adminPolicies[u][a][p], v)
             Stored  == /\ v # Absent
                        /\ policyAdmins' = [policyAdmins EXCEPT ![u][a][p] = v]
                        /\ adminRows' = [adminRows EXCEPT ![u][a][p] = W]
                        /\ adminPolicies' = [adminPolicies EXCEPT ![u][a][p] = v]
                        /\ ghost' = ghost \ {<<u, a, p>>}
             Haunted == /\ v # Absent
                        /\ policyAdmins' = [policyAdmins EXCEPT ![u][a][p] = v]
                        /\ ghost' = ghost \cup {<<u, a, p>>}
                        /\ adminRows' = adminRows /\ adminPolicies' = adminPolicies
             Deleted == /\ adminRows' = [adminRows EXCEPT ![u][a][p] = {}]
                        /\ adminPolicies' = [adminPolicies EXCEPT ![u][a][p] = Absent]
                        /\ policyAdmins' = [policyAdmins EXCEPT ![u][a][p] = Absent]
                        /\ ghost' = ghost \ {<<u, a, p>>}
             Unknown == /\ ~HasPolicies(u, a)
                        /\ adminRows' = [adminRows EXCEPT ![u][a][p] = {}]
                        /\ adminPolicies' = adminPolicies /\ policyAdmins' = policyAdmins
                        /\ ghost' = ghost
             Failed  == /\ adminRows' = adminRows
                        /\ adminPolicies' = adminPolicies /\ policyAdmins' = policyAdmins
                        /\ ghost' = ghost
  <1>3. Stored \/ Haunted \/ Deleted \/ Unknown \/ Failed
    BY DEF SetOwn, SetAdminPolicy, DeleteAdminPolicy
  <1> HIDE DEF u, a, p, v, W
  <1>4. W \in SUBSET Values
    BY <1>2, WrittenType DEF TypeOK, W
  <1>5. Absent \in Value /\ {} \in SUBSET Values
    BY DEF Value
  <1>6. TypeOK'
    <2>1. adminPolicies' \in [Users -> [Admins -> [Policies -> Value]]]
          /\ policyAdmins' \in [Users -> [Admins -> [Policies -> Value]]]
      <3>1. CASE Stored
        BY <1>2, <3>1 DEF TypeOK
      <3>2. CASE Haunted
        BY <1>2, <3>2 DEF TypeOK
      <3>3. CASE Deleted
        BY <1>2, <1>5, <3>3 DEF TypeOK
      <3>4. QED
        BY <1>3, <3>1, <3>2, <3>3 DEF TypeOK
    <2>3. adminRows' \in [Users -> [Admins -> [Policies -> SUBSET Values]]]
      <3>1. CASE Stored
        BY <1>2, <1>4, <3>1 DEF TypeOK
      <3>2. CASE Deleted
        BY <1>2, <1>5, <3>2 DEF TypeOK
      <3>3. CASE Unknown
        BY <1>2, <1>5, <3>3 DEF TypeOK
      <3>4. QED
        BY <1>3, <3>1, <3>2, <3>3 DEF TypeOK
    <2>4. ghost' \subseteq Key
      BY <1>2, <1>3 DEF TypeOK, Key
    <2>5. QED
      BY <1>1, <2>1, <2>3, <2>4 DEF TypeOK
  <1>7. DownIsEmpty' /\ CallIsLoaded'
    BY <1>1, <1>2 DEF DownIsEmpty, CallIsLoaded, NoCall
  <1>8. \A w \in Users, b \in Admins, q \in Policies :
           IF w = u /\ b = a /\ q = p
           THEN \/ /\ v # Absent /\ policyAdmins'[w][b][q] = v /\ adminPolicies'[w][b][q] = v
                   /\ adminRows'[w][b][q] =
                        W
                   /\ <<w, b, q>> \notin ghost'
                \/ /\ v # Absent /\ policyAdmins'[w][b][q] = v
                   /\ adminPolicies'[w][b][q] = adminPolicies[w][b][q]
                   /\ adminRows'[w][b][q] = adminRows[w][b][q]
                   /\ <<w, b, q>> \in ghost'
                \/ /\ policyAdmins'[w][b][q] = Absent /\ adminPolicies'[w][b][q] = Absent
                   /\ adminRows'[w][b][q] = {}
                   /\ <<w, b, q>> \notin ghost'
                \/ /\ policyAdmins'[w][b][q] = policyAdmins[w][b][q]
                   /\ adminPolicies'[w][b][q] = adminPolicies[w][b][q]
                   /\ \/ adminRows'[w][b][q] = adminRows[w][b][q]
                      \/ adminPolicies[w][b][q] = Absent /\ adminRows'[w][b][q] = {}
                   /\ <<w, b, q>> \in ghost' <=> <<w, b, q>> \in ghost
           ELSE /\ policyAdmins'[w][b][q] = policyAdmins[w][b][q]
                /\ adminPolicies'[w][b][q] = adminPolicies[w][b][q]
                /\ adminRows'[w][b][q] = adminRows[w][b][q]
                /\ <<w, b, q>> \in ghost' <=> <<w, b, q>> \in ghost
    <2>1. CASE Stored
      BY <1>2, <2>1 DEF TypeOK
    <2>2. CASE Haunted
      BY <1>2, <2>2 DEF TypeOK
    <2>3. CASE Deleted
      BY <1>2, <2>3 DEF TypeOK
    <2>4. CASE Unknown
      BY <1>2, <2>4 DEF TypeOK, HasPolicies
    <2>5. CASE Failed
      BY <2>5
    <2>6. QED
      BY <1>3, <2>1, <2>2, <2>3, <2>4, <2>5
  <1>9. GhostsAreVisible'
    BY <1>1, <1>2, <1>6, <1>8 DEF GhostsAreVisible, TypeOK, Key
  <1>10. IndicesAgree'
    BY <1>1, <1>8 DEF IndicesAgree, TypeOK
  <1>11. ASSUME NEW w \in loaded \ tainted, NEW b \in Admins, NEW q \in Policies
         PROVE  adminRows'[w][b][q] = RowOf(adminPolicies'[w][b][q])
    <2>1. adminRows[w][b][q] = RowOf(adminPolicies[w][b][q])
      BY DEF MemoryIsDurable
    <2>2. w \in Users /\ RowOf(Absent) = {}
      BY DEF TypeOK, RowOf
    <2>3. CASE w = u /\ b = a /\ q = p
      <3>1. W = RowOf(v)
        BY <1>2, <2>1, <2>3, WrittenIsRowOf DEF TypeOK, W
      <3>2. QED
        BY <1>8, <2>1, <2>2, <2>3, <3>1, ZenonT(30)
    <2>4. CASE ~(w = u /\ b = a /\ q = p)
      BY <1>8, <2>1, <2>2, <2>4
    <2>5. QED
      BY <2>3, <2>4
  <1>12. MemoryIsDurable'
    BY <1>1, <1>11 DEF MemoryIsDurable
  <1>13. \A w \in Users : w # u => adminRows'[w] = adminRows[w]
    BY <1>2, <1>3 DEF TypeOK
  <1>14. RowsAreUnique'
    <2>1. ASSUME NEW w \in Users \ tainted, NEW q \in Policies, NEW b \in Admins
          PROVE  \E x \in Value : adminRows'[w][b][q] = RowOf(x)
      <3>1. CASE w = u
        BY <1>2, <1>6, <1>11, <3>1 DEF TypeOK
      <3>2. CASE w # u
        BY <1>13, <3>2 DEF RowsAreUnique
      <3>3. QED
        BY <3>1, <3>2
    <2>2. QED
      BY <1>1, <2>1 DEF RowsAreUnique
  <1>15. StoredUsersKnown'
    BY <1>1, <1>2, <1>13 DEF StoredUsersKnown, HasRows
  <1>16. QED
    BY <1>6, <1>7, <1>9, <1>10, <1>12, <1>14, <1>15

(* Replacing the super admin renames one admin of one user in all four      *)
(* places; unless the new admin had policies, nothing is mixed up.          *)
LEMMA ReplaceStep ==
    ASSUME StoreInv, NEW u \in Users, NEW a \in Admins, NEW b \in Admins,
           ReplaceAllPolicy(u, a, b)
    PROVE  StoreInv'
  <1> USE StoreAssumption DEF StoreInv
  <1>1. /\ up /\ ~call.busy /\ listed = {} /\ u \in loaded /\ a # b
        /\ up' = up /\ loaded' = loaded /\ listed' = listed /\ call' = call
        /\ combinedPolicies' = combinedPolicies /\ combinedRows' = combinedRows
        /\ unlisted' = unlisted
        /\ ghost' = MovedGhosts(u, a, b)
        /\ tainted' = IF Contested(u, a, b) THEN tainted \cup {u} ELSE tainted
    BY DEF ReplaceAllPolicy, Ready
  <1>2. /\ adminRows' = [adminRows EXCEPT ![u] = RowsRenamed(adminRows[u], a, b)]
        /\ adminPolicies' = [adminPolicies EXCEPT ![u] = Renamed(adminPolicies[u], a, b)]
        /\ policyAdmins' = [policyAdmins EXCEPT ![u] = Moved(policyAdmins[u], a, b)]
    BY DEF ReplaceAllPolicy
  <1>3. /\ RowsRenamed(adminRows[u], a, b) \in [Admins -> [Policies -> SUBSET Values]]
        /\ Renamed(adminPolicies[u], a, b) \in [Admins -> [Policies -> Value]]
        /\ Moved(policyAdmins[u], a, b) \in [Admins -> [Policies -> Value]]
    <2>1. RowsRenamed(adminRows[u], a, b) \in [Admins -> [Policies -> SUBSET Values]]
      <3>1. adminRows[u] \in [Admins -> [Policies -> SUBSET Values]]
        BY DEF TypeOK
      <3>2. /\ [p \in Policies |-> {}] \in [Policies -> SUBSET Values]
            /\ [p \in Policies |-> adminRows[u][a][p] \cup adminRows[u][b][p]]
                  \in [Policies -> SUBSET Values]
        BY <3>1
      <3>3. QED
        BY <3>1, <3>2 DEF RowsRenamed
    <2>2. Renamed(adminPolicies[u], a, b) \in [Admins -> [Policies -> Value]]
      <3>1. adminPolicies[u] \in [Admins -> [Policies -> Value]]
        BY DEF TypeOK
      <3>2. NoPolicies \in [Policies -> Value]
        BY DEF NoPolicies, Value
      <3>3. [adminPolicies[u] EXCEPT ![a] = NoPolicies, ![b] = adminPolicies[u][a]]
              \in [Admins -> [Policies -> Value]]
        BY <3>1, <3>2
      <3>4. QED
        BY <3>1, <3>3 DEF Renamed
    <2>3. Moved(policyAdmins[u], a, b) \in [Admins -> [Policies -> Value]]
      BY SMTT(30) DEF TypeOK, Moved, NoPolicies, Value
    <2>4. QED
      BY <2>1, <2>2, <2>3
  <1>4. TypeOK'
    <2>1. ghost' \subseteq Key
      BY <1>1 DEF MovedGhosts
    <2>2. QED
      BY <1>1, <1>2, <1>3, <2>1 DEF TypeOK
  <1>5. DownIsEmpty' /\ CallIsLoaded'
    BY <1>1 DEF DownIsEmpty, CallIsLoaded
  <1>6. \A w \in Users : w # u => /\ adminRows'[w] = adminRows[w]
                                  /\ adminPolicies'[w] = adminPolicies[w]
                                  /\ policyAdmins'[w] = policyAdmins[w]
    BY <1>2, <1>3 DEF TypeOK
  <1>7. \A q \in Policies :
          /\ adminRows'[u][a][q] = {}
          /\ adminRows'[u][b][q] = adminRows[u][a][q] \cup adminRows[u][b][q]
          /\ policyAdmins'[u][a][q] = Absent
          /\ policyAdmins[u][a][q] # Absent =>
                policyAdmins'[u][b][q] = policyAdmins[u][a][q]
          /\ policyAdmins[u][a][q] = Absent =>
                policyAdmins'[u][b][q] = policyAdmins[u][b][q]
    BY <1>1, <1>2, <1>3 DEF TypeOK, RowsRenamed, Moved, NoPolicies
  <1>8. \A q \in Policies :
          /\ adminPolicies'[u][a][q] = Absent
          /\ HasPolicies(u, a) => adminPolicies'[u][b][q] = adminPolicies[u][a][q]
          /\ ~HasPolicies(u, a) => adminPolicies'[u][b][q] = adminPolicies[u][b][q]
    BY <1>1, <1>2, <1>3 DEF TypeOK, Renamed, HasPolicies, NoPolicies
  <1>9. \A q \in Policies :
          /\ <<u, a, q>> \notin ghost'
          /\ policyAdmins[u][a][q] # Absent =>
                (<<u, b, q>> \in ghost' <=> <<u, a, q>> \in ghost)
          /\ policyAdmins[u][a][q] = Absent =>
                (<<u, b, q>> \in ghost' <=> <<u, b, q>> \in ghost)
    BY <1>1 DEF MovedGhosts, Key
  <1> DEFINE Same(c, q) == /\ adminRows'[u][c][q] = adminRows[u][c][q]
                           /\ policyAdmins'[u][c][q] = policyAdmins[u][c][q]
                           /\ adminPolicies'[u][c][q] = adminPolicies[u][c][q]
                           /\ <<u, c, q>> \in ghost' <=> <<u, c, q>> \in ghost
  <1>other. ASSUME NEW c \in Admins, NEW q \in Policies, c # a, c # b PROVE Same(c, q)
    <2>1. adminRows'[u][c] = adminRows[u][c]
      BY <1>2, <1>3, <1>other DEF TypeOK, RowsRenamed
    <2>2. policyAdmins'[u][c] = policyAdmins[u][c]
      BY <1>2, <1>3, <1>other DEF TypeOK, Moved
    <2>3. adminPolicies'[u][c] = adminPolicies[u][c]
      BY <1>2, <1>3, <1>other DEF TypeOK, Renamed
    <2>4. <<u, c, q>> \in ghost' <=> <<u, c, q>> \in ghost
      BY <1>1, <1>other DEF MovedGhosts, Key
    <2>5. QED
      BY <2>1, <2>2, <2>3, <2>4
  <1>10. \A w \in Users, c \in Admins, q \in Policies :
           w # u => (<<w, c, q>> \in ghost' <=> <<w, c, q>> \in ghost)
    BY <1>1 DEF MovedGhosts, Key
  <1>11. GhostsAreVisible'
    <2>1. ASSUME NEW w \in Users, NEW c \in Admins, NEW q \in Policies, <<w, c, q>> \in ghost'
          PROVE  w \in loaded /\ policyAdmins'[w][c][q] # Absent
      <3>1. \A k \in ghost : k[1] \in loaded /\ policyAdmins[k[1]][k[2]][k[3]] # Absent
        BY DEF GhostsAreVisible
      <3>2. CASE w = u
        <4>1. \A d \in Admins, r \in Policies :
                <<u, d, r>> \in ghost => policyAdmins[u][d][r] # Absent
          BY DEF GhostsAreVisible
        <4>2. <<u, c, q>> \in ghost'
          BY <2>1, <3>2
        <4>3. policyAdmins'[u][c][q] # Absent
          <5>1. CASE c = a
            BY <1>9, <4>2, <5>1
          <5>2. CASE c = b
            BY <1>7, <1>9, <4>1, <4>2, <5>2
          <5>3. CASE c # a /\ c # b
            BY <1>other, <4>1, <4>2, <5>3
          <5>4. QED
            BY <5>1, <5>2, <5>3
        <4>4. QED
          BY <1>1, <3>2, <4>3
      <3>3. CASE w # u
        BY <1>6, <1>10, <2>1, <3>1, <3>3
      <3>4. QED
        BY <3>2, <3>3
    <2>2. QED
      BY <1>1, <1>4, <2>1 DEF GhostsAreVisible, TypeOK, Key
  <1>12. ASSUME u \notin tainted'
         PROVE  \A q \in Policies : adminRows[u][b][q] = {} /\ adminPolicies[u][b][q] = Absent
    BY <1>1, <1>12 DEF Contested, HasPolicies
  <1>13. IndicesAgree'
    <2>1. ASSUME NEW w \in loaded \ tainted', NEW c \in Admins, NEW q \in Policies,
                 <<w, c, q>> \notin ghost'
          PROVE  policyAdmins'[w][c][q] = adminPolicies'[w][c][q]
      <3>1. w \in Users /\ w \in loaded \ tainted
        BY <1>1 DEF TypeOK
      <3>2. \A d \in Admins, r \in Policies :
              <<w, d, r>> \notin ghost => policyAdmins[w][d][r] = adminPolicies[w][d][r]
        BY <3>1 DEF IndicesAgree
      <3>3. CASE w # u
        BY <1>6, <1>10, <2>1, <3>1, <3>2, <3>3
      <3>4. CASE w = u
        <4>1. \A d \in Admins, r \in Policies :
                <<u, d, r>> \in ghost => policyAdmins[u][d][r] # Absent
          BY DEF GhostsAreVisible
        <4>2. adminPolicies[u][b][q] = Absent
          BY <1>12, <2>1, <3>4
        <4>3. ~HasPolicies(u, a) => adminPolicies[u][a][q] = Absent
          BY DEF HasPolicies
        <4>4. adminPolicies[u][a][q] # Absent => HasPolicies(u, a)
          BY DEF HasPolicies
        <4>5. \A d \in Admins, r \in Policies :
                <<u, d, r>> \notin ghost => policyAdmins[u][d][r] = adminPolicies[u][d][r]
          BY <3>2, <3>4
        <4>6. <<u, c, q>> \notin ghost'
          BY <2>1, <3>4
        <4>7. CASE c = a
          <5>1. policyAdmins'[u][a][q] = Absent /\ adminPolicies'[u][a][q] = Absent
            BY <1>7, <1>8, <4>3
          <5>2. QED
            BY <3>4, <4>7, <5>1
        <4>8. CASE c = b
          <5>1. policyAdmins'[u][b][q] = adminPolicies'[u][b][q]
            <6>1. CASE policyAdmins[u][a][q] # Absent
              BY <1>1, <1>7, <1>8, <1>9, <4>3, <4>4, <4>5, <4>6, <4>8, <6>1, ZenonT(30)
            <6>2. CASE policyAdmins[u][a][q] = Absent
              <7>1. adminPolicies[u][a][q] = Absent
                BY <4>1, <4>5, <6>2
              <7>2. adminPolicies'[u][b][q] = Absent
                BY <1>8, <4>2, <7>1
              <7>3. policyAdmins[u][b][q] = Absent
                BY <1>9, <4>2, <4>5, <4>6, <4>8, <6>2
              <7>4. QED
                BY <1>7, <6>2, <7>2, <7>3
            <6>3. QED
              BY <6>1, <6>2
          <5>2. QED
            BY <3>4, <4>8, <5>1
        <4>9. CASE c # a /\ c # b
          <5>1. policyAdmins'[u][c][q] = adminPolicies'[u][c][q]
            BY <1>other, <4>5, <4>6, <4>9
          <5>2. QED
            BY <3>4, <5>1
        <4>10. QED
          BY <4>7, <4>8, <4>9
      <3>5. QED
        BY <3>3, <3>4
    <2>2. QED
      BY <1>1, <2>1 DEF IndicesAgree
  <1>14. ASSUME NEW w \in loaded \ tainted', NEW c \in Admins, NEW q \in Policies
         PROVE  adminRows'[w][c][q] = RowOf(adminPolicies'[w][c][q])
    <2>1. w \in Users /\ w \in loaded \ tainted
      BY <1>1 DEF TypeOK
    <2>2. \A d \in Admins : adminRows[w][d][q] = RowOf(adminPolicies[w][d][q])
      BY <2>1 DEF MemoryIsDurable
    <2>3. CASE w # u
      BY <1>6, <2>1, <2>2, <2>3
    <2>4. CASE w = u
      <3>1. adminRows[u][b][q] = {}
        BY <1>12, <2>4
      <3>2. RowOf(Absent) = {}
        BY DEF RowOf
      <3>3. ~HasPolicies(u, a) => adminPolicies[u][a][q] = Absent
        BY DEF HasPolicies
      <3>4. adminPolicies[u][b][q] = Absent
        BY <1>12, <2>4
      <3>5. \A d \in Admins : adminRows[u][d][q] = RowOf(adminPolicies[u][d][q])
        BY <2>2, <2>4
      <3>6. adminRows'[u][c][q] = RowOf(adminPolicies'[u][c][q])
        <4>1. CASE c = a
          BY <1>7, <1>8, <3>2, <4>1
        <4>2. CASE c = b
          <5>1. adminRows'[u][b][q] = adminRows[u][a][q]
            BY <1>7, <3>1
          <5>2. adminPolicies'[u][b][q] = adminPolicies[u][a][q]
            BY <1>8, <3>3, <3>4
          <5>3. QED
            BY <3>5, <4>2, <5>1, <5>2
        <4>3. CASE c # a /\ c # b
          BY <1>other, <3>5, <4>3
        <4>4. QED
          BY <4>1, <4>2, <4>3
      <3>7. QED
        BY <2>4, <3>6
    <2>5. QED
      BY <2>3, <2>4
  <1>15. MemoryIsDurable'
    BY <1>1, <1>14 DEF MemoryIsDurable
  <1>16. RowsAreUnique'
    <2>1. ASSUME NEW w \in Users \ tainted', NEW q \in Policies, NEW c \in Admins
          PROVE  \E x \in Value : adminRows'[w][c][q] = RowOf(x)
      <3>1. CASE w = u
        BY <1>1, <1>4, <1>14, <3>1 DEF TypeOK
      <3>2. CASE w # u
        BY <1>1, <1>6, <3>2 DEF RowsAreUnique
      <3>3. QED
        BY <3>1, <3>2
    <2>2. \A w \in Users \ tainted' : w \in Users \ tainted
      BY <1>1
    <2>3. QED
      BY <1>1, <2>1, <2>2 DEF RowsAreUnique
  <1>17. StoredUsersKnown'
    BY <1>1, <1>6 DEF StoredUsersKnown, HasRows
  <1>18. QED
    BY <1>4, <1>5, <1>11, <1>13, <1>15, <1>16, <1>17

(* Every step keeps the invariant. *)
LEMMA StoreStep == ASSUME StoreInv, [Next]_vars PROVE StoreInv'
  <1>1. CASE Next
    BY <1>1, LoadStep, StartStep, CrashStep, SetCombinedStep, SetOwnStep, ReplaceStep DEF Next
  <1>2. CASE UNCHANGED vars
    <2>1. UNCHANGED <<up, loaded, listed, adminPolicies, policyAdmins, combinedPolicies,
                      adminRows, combinedRows, call, tainted, ghost, unlisted>>
      BY <1>2 DEF vars, memory, tables, history
    <2>2. QED
      BY <2>1 DEF StoreInv, TypeOK, DownIsEmpty, CallIsLoaded, GhostsAreVisible,
         IndicesAgree, RowsAreUnique, MemoryIsDurable, StoredUsersKnown, HasRows
  <1>3. QED
    BY <1>1, <1>2

(* The invariant holds in every reachable state. *)
THEOREM StoreInvariant == Spec => []StoreInv
  BY InitStoreInv, StoreStep, PTL DEF Spec

(* Memory never says anything a restart would not restore. *)
THEOREM StoreIsDurable == Spec => []MemoryIsDurable
  <1>1. StoreInv => MemoryIsDurable
    BY DEF StoreInv
  <1>2. QED
    BY <1>1, StoreInvariant, PTL

(* The two indices of a user agree on every key whose write did not fail. *)
THEOREM IndicesStayAligned == Spec => []IndicesAgree
  <1>1. StoreInv => IndicesAgree
    BY DEF StoreInv
  <1>2. QED
    BY <1>1, StoreInvariant, PTL

(* Every user with a stored policy is in the list that removals walk over. *)
THEOREM NoStoredUserIsMissed == Spec => []StoredUsersListed
  <1>1. StoreInv => StoredUsersListed
    BY DEF StoreInv, StoredUsersKnown, StoredUsersListed
  <1>2. QED
    BY <1>1, StoreInvariant, PTL

-----------------------------------------------------------------------------
(* The cache is transparent: as long as queries succeed and no administrator *)
(* is replaced by one that has policies of its own, the store implements the *)
(* durable table of PolicyTable.                                             *)

(* No user is tainted: every key has at most one row. *)
CleanInv == StoreInv /\ tainted = {}

(* The value a key's rows stand for. *)
ValueOf(rows) == IF rows = {} THEN Absent ELSE CHOOSE v \in rows : TRUE

LEMMA ValueOfRow == ASSUME NEW v \in Value PROVE ValueOf(RowOf(v)) = v
  <1>1. CASE v = Absent
    BY <1>1 DEF ValueOf, RowOf
  <1>2. CASE v # Absent
    <2>1. RowOf(v) = {v}
      BY <1>2 DEF RowOf
    <2>2. (CHOOSE w \in {v} : TRUE) \in {v}
      OBVIOUS
    <2>3. QED
      BY <2>1, <2>2 DEF ValueOf
  <1>3. QED
    BY <1>1, <1>2

LEMMA OneValuePerRow ==
    ASSUME NEW v \in Value, NEW w \in Value, RowOf(v) = RowOf(w) PROVE v = w
  BY DEF RowOf

(* Callers see the value of the rows, in memory or not. *)
ViewIsStored ==
    /\ AdminView \in [Users -> [Admins -> [Policies -> Value]]]
    /\ CombinedView \in [Users -> [Policies -> Value]]
    /\ \A u \in Users, a \in Admins, p \in Policies :
          adminRows[u][a][p] = RowOf(AdminView[u][a][p])
    /\ \A u \in Users, p \in Policies : combinedRows[u][p] = RowOf(CombinedView[u][p])

LEMMA SeenIsStored == CleanInv => ViewIsStored
  <1> SUFFICES ASSUME CleanInv PROVE ViewIsStored
    OBVIOUS
  <1> USE DEF CleanInv
  <1>1. ASSUME NEW u \in Users, NEW a \in Admins, NEW p \in Policies
        PROVE  /\ AdminView[u][a][p] \in Value
               /\ adminRows[u][a][p] = RowOf(AdminView[u][a][p])
    <2>1. PICK v \in Value : adminRows[u][a][p] = RowOf(v)
      BY DEF StoreInv, RowsAreUnique
    <2>2. AdminView[u][a][p] = IF u \in loaded THEN adminPolicies[u][a][p] ELSE ValueOf(RowOf(v))
      <3>1. AdminView[u][a][p] = Seen(adminRows[u][a][p], adminPolicies[u][a][p], u)
        BY DEF AdminView
      <3>2. QED
        BY <2>1, <3>1 DEF Seen, ValueOf
    <2>3. CASE u \in loaded
      <3>1. adminPolicies[u][a][p] \in Value
        BY DEF StoreInv, TypeOK
      <3>2. adminRows[u][a][p] = RowOf(adminPolicies[u][a][p])
        BY <2>3 DEF StoreInv, MemoryIsDurable
      <3>3. QED
        BY <2>2, <2>3, <3>1, <3>2, ValueOfRow
    <2>4. CASE u \notin loaded
      BY <2>1, <2>2, <2>4, ValueOfRow
    <2>5. QED
      BY <2>3, <2>4
  <1>2. ASSUME NEW u \in Users, NEW p \in Policies
        PROVE  /\ CombinedView[u][p] \in Value
               /\ combinedRows[u][p] = RowOf(CombinedView[u][p])
    <2>1. PICK v \in Value : combinedRows[u][p] = RowOf(v)
      BY DEF StoreInv, RowsAreUnique
    <2>2. CombinedView[u][p] = IF u \in loaded THEN combinedPolicies[u][p] ELSE ValueOf(RowOf(v))
      <3>1. CombinedView[u][p] = Seen(combinedRows[u][p], combinedPolicies[u][p], u)
        BY DEF CombinedView
      <3>2. QED
        BY <2>1, <3>1 DEF Seen, ValueOf
    <2>3. CASE u \in loaded
      <3>1. combinedPolicies[u][p] \in Value
        BY DEF StoreInv, TypeOK
      <3>2. combinedRows[u][p] = RowOf(combinedPolicies[u][p])
        BY <2>3 DEF StoreInv, MemoryIsDurable
      <3>3. QED
        BY <2>2, <2>3, <3>1, <3>2, ValueOfRow
    <2>4. CASE u \notin loaded
      BY <2>1, <2>2, <2>4, ValueOfRow
    <2>5. QED
      BY <2>3, <2>4
  <1>3. AdminView \in [Users -> [Admins -> [Policies -> Value]]]
    BY <1>1 DEF AdminView
  <1>4. CombinedView \in [Users -> [Policies -> Value]]
    BY <1>2 DEF CombinedView
  <1>5. QED
    BY <1>1, <1>2, <1>3, <1>4 DEF ViewIsStored

LEMMA AdminExtensional ==
    ASSUME NEW f \in [Users -> [Admins -> [Policies -> Value]]],
           NEW g \in [Users -> [Admins -> [Policies -> Value]]],
           \A u \in Users, a \in Admins, p \in Policies : f[u][a][p] = g[u][a][p]
    PROVE  f = g
  <1>1. ASSUME NEW u \in Users PROVE f[u] = g[u]
    <2>1. \A a \in Admins : f[u][a] \in [Policies -> Value] /\ g[u][a] \in [Policies -> Value]
      OBVIOUS
    <2>2. \A a \in Admins : f[u][a] = g[u][a]
      BY <2>1
    <2>3. QED
      BY <2>2
  <1>2. QED
    BY <1>1

LEMMA CombinedExtensional ==
    ASSUME NEW f \in [Users -> [Policies -> Value]], NEW g \in [Users -> [Policies -> Value]],
           \A u \in Users, p \in Policies : f[u][p] = g[u][p]
    PROVE  f = g
  <1>1. \A u \in Users : f[u] = g[u]
    OBVIOUS
  <1>2. QED
    BY <1>1

(* A view changes only with its rows. *)
LEMMA SameAdminView ==
    ASSUME ViewIsStored, ViewIsStored', adminRows' = adminRows
    PROVE  AdminView' = AdminView
  <1>1. /\ AdminView \in [Users -> [Admins -> [Policies -> Value]]]
        /\ AdminView' \in [Users -> [Admins -> [Policies -> Value]]]
    BY DEF ViewIsStored
  <1>2. \A u \in Users, a \in Admins, p \in Policies : AdminView'[u][a][p] = AdminView[u][a][p]
    <2>1. TAKE u \in Users, a \in Admins, p \in Policies
    <2>2. adminRows[u][a][p] = RowOf(AdminView[u][a][p]) /\ AdminView[u][a][p] \in Value
      BY DEF ViewIsStored
    <2>3. adminRows'[u][a][p] = RowOf(AdminView'[u][a][p]) /\ AdminView'[u][a][p] \in Value
      BY DEF ViewIsStored
    <2>4. QED
      BY <2>2, <2>3, OneValuePerRow
  <1>3. QED
    BY <1>1, <1>2, AdminExtensional

LEMMA SameCombinedView ==
    ASSUME ViewIsStored, ViewIsStored', combinedRows' = combinedRows
    PROVE  CombinedView' = CombinedView
  <1>1. /\ CombinedView \in [Users -> [Policies -> Value]]
        /\ CombinedView' \in [Users -> [Policies -> Value]]
    BY DEF ViewIsStored
  <1>2. \A u \in Users, p \in Policies : CombinedView'[u][p] = CombinedView[u][p]
    <2>1. TAKE u \in Users, p \in Policies
    <2>2. combinedRows[u][p] = RowOf(CombinedView[u][p]) /\ CombinedView[u][p] \in Value
      BY DEF ViewIsStored
    <2>3. combinedRows'[u][p] = RowOf(CombinedView'[u][p]) /\ CombinedView'[u][p] \in Value
      BY DEF ViewIsStored
    <2>4. QED
      BY <2>2, <2>3, OneValuePerRow
  <1>3. QED
    BY <1>1, <1>2, CombinedExtensional

(* The combined half of SetPolicy is the atomic write of the combined value. *)
LEMMA SetCombinedBegins ==
    ASSUME CleanInv, ViewIsStored, ViewIsStored',
           NEW u \in Users, NEW a \in Admins \cup {NoAdmin}, NEW p \in Policies,
           NEW v \in Value, NEW m \in Value, SetCombined(u, a, p, v, m)
    PROVE  Table!Begin(u, a, p, v, m)
  <1>1. /\ ~call.busy /\ u \in loaded /\ adminRows' = adminRows
        /\ call' = IF a = NoAdmin THEN NoCall
                   ELSE [busy |-> TRUE, user |-> u, admin |-> a, policy |-> p, value |-> v]
    BY DEF SetCombined, Ready
  <1>2. AdminView' = AdminView
    BY <1>1, SameAdminView
  <1>3. CASE WriteCombined(u, p, m)
    <2>1. combinedRows' = [combinedRows EXCEPT ![u][p] = RowOf(m)]
      <3>1. combinedPolicies[u][p] \in Value
        BY DEF CleanInv, StoreInv, TypeOK
      <3>2. combinedRows[u][p] = RowOf(combinedPolicies[u][p])
        BY <1>1 DEF CleanInv, StoreInv, MemoryIsDurable
      <3>3. QED
        BY <1>3, <3>1, <3>2, WrittenIsRowOf DEF WriteCombined
    <2>2. /\ CombinedView \in [Users -> [Policies -> Value]]
          /\ CombinedView' \in [Users -> [Policies -> Value]]
          /\ combinedRows \in [Users -> [Policies -> SUBSET Values]]
      BY DEF ViewIsStored, CleanInv, StoreInv, TypeOK
    <2>3. [CombinedView EXCEPT ![u][p] = m] \in [Users -> [Policies -> Value]]
      BY <2>2
    <2>4. ASSUME NEW w \in Users, NEW q \in Policies
          PROVE  CombinedView'[w][q] = [CombinedView EXCEPT ![u][p] = m][w][q]
      <3>1. combinedRows'[w][q] = RowOf(CombinedView'[w][q]) /\ CombinedView'[w][q] \in Value
        BY DEF ViewIsStored
      <3>2. combinedRows[w][q] = RowOf(CombinedView[w][q]) /\ CombinedView[w][q] \in Value
        BY DEF ViewIsStored
      <3>3. CASE w = u /\ q = p
        BY <2>1, <2>2, <3>1, <3>3, OneValuePerRow
      <3>4. CASE ~(w = u /\ q = p)
        BY <2>1, <2>2, <3>1, <3>2, <3>4, OneValuePerRow
      <3>5. QED
        BY <3>3, <3>4
    <2>5. CombinedView' = [CombinedView EXCEPT ![u][p] = m]
      BY <2>2, <2>3, <2>4, CombinedExtensional
    <2>6. QED
      BY <1>1, <1>2, <2>5 DEF Table!Begin, Table!NoCall, NoCall
  <1>4. CASE ~WriteCombined(u, p, m)
    <2>1. CombinedView' = CombinedView
      BY <1>4, SameCombinedView DEF SetCombined
    <2>2. QED
      BY <1>1, <1>2, <2>1 DEF Table!Begin, Table!NoCall, NoCall
  <1>5. QED
    BY <1>3, <1>4

(* The admin half is the atomic write of the admin's value, or nothing. *)
LEMMA SetOwnFinishes ==
    ASSUME CleanInv, ViewIsStored, ViewIsStored', SetOwn
    PROVE  Table!Finish
  <1> DEFINE u == call.user  a == call.admin  p == call.policy  v == call.value
  <1>1. call.busy /\ call' = NoCall /\ combinedRows' = combinedRows
    BY DEF SetOwn
  <1>2. u \in Users /\ a \in Admins /\ p \in Policies /\ v \in Value /\ u \in loaded
    <2>1. call \in Call
      BY <1>1 DEF CleanInv, StoreInv, TypeOK, NoCall
    <2>2. u \in loaded
      BY <1>1 DEF CleanInv, StoreInv, CallIsLoaded
    <2>3. QED
      BY <2>1, <2>2 DEF Call
  <1> HIDE DEF u, a, p, v
  <1>3. CombinedView' = CombinedView
    BY <1>1, SameCombinedView
  <1>4. CASE adminRows' = adminRows
    <2>1. AdminView' = AdminView
      BY <1>4, SameAdminView
    <2>2. QED
      BY <1>1, <1>3, <2>1 DEF Table!Finish, Table!NoCall, NoCall
  <1>5. CASE adminRows' = [adminRows EXCEPT ![u][a][p] = RowOf(v)]
    <2>1. /\ AdminView \in [Users -> [Admins -> [Policies -> Value]]]
          /\ AdminView' \in [Users -> [Admins -> [Policies -> Value]]]
          /\ adminRows \in [Users -> [Admins -> [Policies -> SUBSET Values]]]
      BY DEF ViewIsStored, CleanInv, StoreInv, TypeOK
    <2> DEFINE written == [AdminView EXCEPT ![u][a][p] = v]
    <2>2. written \in [Users -> [Admins -> [Policies -> Value]]]
      BY <1>2, <2>1
    <2>3. ASSUME NEW w \in Users, NEW c \in Admins, NEW q \in Policies
          PROVE  AdminView'[w][c][q] = written[w][c][q]
      <3>1. adminRows'[w][c][q] = RowOf(AdminView'[w][c][q]) /\ AdminView'[w][c][q] \in Value
        BY DEF ViewIsStored
      <3>2. adminRows[w][c][q] = RowOf(AdminView[w][c][q]) /\ AdminView[w][c][q] \in Value
        BY DEF ViewIsStored
      <3>3. CASE w = u /\ c = a /\ q = p
        <4>1. adminRows'[w][c][q] = RowOf(v)
          BY <1>2, <1>5, <2>1, <3>3
        <4>2. written[w][c][q] = v
          BY <1>2, <2>1, <3>3
        <4>3. QED
          BY <1>2, <3>1, <4>1, <4>2, OneValuePerRow
      <3>4. CASE ~(w = u /\ c = a /\ q = p)
        <4>1. adminRows'[w][c][q] = adminRows[w][c][q]
          BY <1>2, <1>5, <2>1, <3>4
        <4>2. written[w][c][q] = AdminView[w][c][q]
          BY <1>2, <2>1, <3>4
        <4>3. QED
          BY <3>1, <3>2, <4>1, <4>2, OneValuePerRow
      <3>5. QED
        BY <3>3, <3>4
    <2>4. AdminView' = written
      <3> HIDE DEF written
      <3> QED
        BY <2>1, <2>2, <2>3, AdminExtensional
    <2>5. QED
      BY <1>1, <1>3, <2>4 DEF Table!Finish, Table!NoCall, NoCall, u, a, p, v
  <1>6. adminRows' = adminRows \/ adminRows' = [adminRows EXCEPT ![u][a][p] = RowOf(v)]
    <2>1. CASE v # Absent /\ SetAdminPolicy(u, a, p, v)
      <3>1. adminPolicies[u][a][p] \in Value
        BY <1>2 DEF CleanInv, StoreInv, TypeOK
      <3>2. adminRows[u][a][p] = RowOf(adminPolicies[u][a][p])
        BY <1>2 DEF CleanInv, StoreInv, MemoryIsDurable
      <3>3. Written(adminRows[u][a][p], adminPolicies[u][a][p], v) = RowOf(v)
        BY <1>2, <3>1, <3>2, WrittenIsRowOf
      <3>4. QED
        BY <2>1, <3>3 DEF SetAdminPolicy
    <2>2. CASE v = Absent /\ DeleteAdminPolicy(u, a, p)
      BY <2>2 DEF DeleteAdminPolicy, RowOf
    <2>3. \/ v # Absent /\ SetAdminPolicy(u, a, p, v)
          \/ v = Absent /\ DeleteAdminPolicy(u, a, p)
          \/ adminRows' = adminRows
      BY DEF SetOwn, u, a, p, v
    <2>4. QED
      BY <2>1, <2>2, <2>3
  <1>7. QED
    BY <1>4, <1>5, <1>6

(* A replacement hands the values over at once; one of an administrator      *)
(* without values changes nothing.                                           *)
LEMMA ReplaceHandsOver ==
    ASSUME CleanInv, ViewIsStored, ViewIsStored',
           NEW u \in Users, NEW a \in Admins, NEW b \in Admins,
           ReplaceAllPolicy(u, a, b), ~Contested(u, a, b)
    PROVE  Table!HandOver(u, a, b) \/ UNCHANGED Table!tableVars
  <1>1. /\ ~call.busy /\ call' = call /\ combinedRows' = combinedRows /\ a # b
        /\ adminRows' = [adminRows EXCEPT ![u] = RowsRenamed(adminRows[u], a, b)]
    BY DEF ReplaceAllPolicy, Ready
  <1>2. CombinedView' = CombinedView
    BY <1>1, SameCombinedView
  <1>3. /\ AdminView \in [Users -> [Admins -> [Policies -> Value]]]
        /\ AdminView' \in [Users -> [Admins -> [Policies -> Value]]]
        /\ adminRows \in [Users -> [Admins -> [Policies -> SUBSET Values]]]
    BY DEF ViewIsStored, CleanInv, StoreInv, TypeOK
  <1>4. \A q \in Policies : adminRows[u][b][q] = {}
    BY DEF Contested
  <1> DEFINE given == [AdminView EXCEPT ![u] = [AdminView[u] EXCEPT
                          ![a] = [q \in Policies |-> Absent], ![b] = AdminView[u][a]]]
  <1>5. given \in [Users -> [Admins -> [Policies -> Value]]]
    <2>1. [q \in Policies |-> Absent] \in [Policies -> Value]
      BY DEF Value
    <2>2. AdminView[u] \in [Admins -> [Policies -> Value]] /\ AdminView[u][a] \in [Policies -> Value]
      BY <1>3
    <2>3. QED
      BY <1>3, <2>1, <2>2
  <1>6. ASSUME NEW w \in Users, NEW c \in Admins, NEW q \in Policies
        PROVE  AdminView'[w][c][q] = given[w][c][q]
    <2>1. adminRows'[w][c][q] = RowOf(AdminView'[w][c][q]) /\ AdminView'[w][c][q] \in Value
      BY DEF ViewIsStored
    <2>2. adminRows[w][c][q] = RowOf(AdminView[w][c][q]) /\ AdminView[w][c][q] \in Value
      BY DEF ViewIsStored
    <2>3. adminRows[u][a][q] = RowOf(AdminView[u][a][q]) /\ AdminView[u][a][q] \in Value
      BY DEF ViewIsStored
    <2>4. CASE w = u /\ c = a
      <3>1. adminRows'[w][c][q] = RowOf(Absent) /\ Absent \in Value
        BY <1>1, <1>3, <2>4 DEF RowsRenamed, RowOf, Value
      <3>2. given[w][c][q] = Absent
        BY <1>1, <1>3, <2>4
      <3>3. QED
        BY <2>1, <3>1, <3>2, OneValuePerRow
    <2>5. CASE w = u /\ c = b
      <3>1. adminRows'[w][c][q] = adminRows[u][a][q] \cup adminRows[u][b][q]
        BY <1>1, <1>3, <2>5 DEF RowsRenamed
      <3>2. given[w][c][q] = AdminView[u][a][q]
        BY <1>1, <1>3, <2>5
      <3>3. QED
        BY <1>4, <2>1, <2>3, <3>1, <3>2, OneValuePerRow, ZenonT(30)
    <2>6. CASE ~(w = u /\ (c = a \/ c = b))
      <3>1. adminRows'[w][c][q] = adminRows[w][c][q]
        BY <1>1, <1>3, <2>6 DEF RowsRenamed
      <3>2. given[w][c][q] = AdminView[w][c][q]
        BY <1>1, <1>3, <2>6
      <3>3. QED
        BY <2>1, <2>2, <3>1, <3>2, OneValuePerRow
    <2>7. QED
      BY <2>4, <2>5, <2>6
  <1>7. AdminView' = given
    <2> HIDE DEF given
    <2> QED
      BY <1>3, <1>5, <1>6, AdminExtensional
  <1>8. CASE \E q \in Policies : AdminView[u][a][q] # Absent
    BY <1>1, <1>2, <1>7, <1>8 DEF Table!HandOver
  <1>9. CASE \A q \in Policies : AdminView[u][a][q] = Absent
    <2>1. ASSUME NEW w \in Users, NEW c \in Admins, NEW q \in Policies
          PROVE  given[w][c][q] = AdminView[w][c][q]
      <3>1. adminRows[u][b][q] = RowOf(AdminView[u][b][q]) /\ AdminView[u][b][q] \in Value
        BY DEF ViewIsStored
      <3>2. AdminView[u][b][q] = Absent
        BY <1>4, <3>1 DEF RowOf
      <3>3. QED
        BY <1>1, <1>3, <1>9, <3>2
    <2>2. given = AdminView
      <3> HIDE DEF given
      <3> QED
        BY <1>3, <1>5, <2>1, AdminExtensional
    <2>3. QED
      BY <1>1, <1>2, <1>7, <2>2 DEF Table!tableVars
  <1>10. QED
    BY <1>8, <1>9

(* Without failing queries and contested replacements no user gets tainted. *)
LEMMA StaysClean ==
    ASSUME Env \subseteq {"write"}, tainted = {}, [Next]_vars PROVE tainted' = {}
  <1>1. ASSUME NEW u \in Users, Load(u) PROVE tainted' = {}
    BY <1>1 DEF Load
  <1>2. ASSUME NEW u \in Users, NEW a \in Admins, NEW b \in Admins, ReplaceAllPolicy(u, a, b)
        PROVE  tainted' = {}
    BY <1>2 DEF ReplaceAllPolicy
  <1>3. CASE Start \/ Crash \/ SetOwn
    BY <1>3 DEF Start, Crash, SetOwn
  <1>4. ASSUME NEW u \in Users, NEW a \in Admins \cup {NoAdmin}, NEW p \in Policies,
               NEW v \in Value, NEW m \in Value, SetCombined(u, a, p, v, m)
        PROVE  tainted' = {}
    BY <1>4 DEF SetCombined, history
  <1>5. CASE UNCHANGED vars
    BY <1>5 DEF vars, history
  <1>6. QED
    BY <1>1, <1>2, <1>3, <1>4, <1>5 DEF Next

(* Every step of the store is a step of the table, or invisible. *)
LEMMA StepRefines ==
    ASSUME Env \subseteq {"write"}, CleanInv, ViewIsStored, ViewIsStored', [Next]_vars
    PROVE  [Table!TableNext]_(Table!tableVars)
  <1>1. ASSUME UNCHANGED <<adminRows, combinedRows>>, call' = call \/ call' = NoCall
        PROVE  [Table!TableNext]_(Table!tableVars)
    <2>1. AdminView' = AdminView /\ CombinedView' = CombinedView
      BY <1>1, SameAdminView, SameCombinedView
    <2>2. QED
      BY <1>1, <2>1 DEF Table!TableNext, Table!Forget, Table!tableVars, Table!NoCall, NoCall
  <1>2. ASSUME NEW u \in Users, Load(u) PROVE [Table!TableNext]_(Table!tableVars)
    BY <1>1, <1>2 DEF Load, tables
  <1>3. CASE Start \/ Crash
    BY <1>1, <1>3 DEF Start, Crash, tables
  <1>4. CASE UNCHANGED vars
    BY <1>1, <1>4 DEF vars, tables
  <1>5. ASSUME NEW u \in Users, NEW a \in Admins \cup {NoAdmin}, NEW p \in Policies,
               NEW v \in Value, NEW m \in Value, SetCombined(u, a, p, v, m)
        PROVE  [Table!TableNext]_(Table!tableVars)
    <2>1. Table!Begin(u, a, p, v, m)
      BY <1>5, SetCombinedBegins
    <2>2. v \in Table!Value /\ m \in Table!Value
      BY DEF Table!Value, Value
    <2>3. QED
      BY <2>1, <2>2 DEF Table!TableNext
  <1>6. CASE SetOwn
    BY <1>6, SetOwnFinishes DEF Table!TableNext
  <1>7. ASSUME NEW u \in Users, NEW a \in Admins, NEW b \in Admins, ReplaceAllPolicy(u, a, b)
        PROVE  [Table!TableNext]_(Table!tableVars)
    <2>1. ~Contested(u, a, b) /\ a # b
      BY <1>7 DEF ReplaceAllPolicy
    <2>2. QED
      BY <1>7, <2>1, ReplaceHandsOver DEF Table!TableNext
  <1>8. QED
    BY <1>2, <1>3, <1>4, <1>5, <1>6, <1>7 DEF Next

(* Initially nothing is stored and nothing is seen. *)
LEMMA InitRefines == Init => Table!TableInit
  <1> SUFFICES ASSUME Init PROVE Table!TableInit
    OBVIOUS
  <1>1. AdminView = [u \in Users |-> [a \in Admins |-> [p \in Policies |-> Absent]]]
    BY DEF Init, AdminView, Seen
  <1>2. CombinedView = [u \in Users |-> [p \in Policies |-> Absent]]
    BY DEF Init, CombinedView, Seen
  <1>3. QED
    BY <1>1, <1>2 DEF Init, Table!TableInit, Table!NoCall, NoCall

(* The cached store implements the durable table of PolicyTable: SetPolicy's *)
(* two writes are atomic and in order, and neither a lazy load, a failed     *)
(* write, a restart nor a renamed administrator shows anything else.         *)
THEOREM StoreImplementsTable == ASSUME Env \subseteq {"write"} PROVE Spec => ImplementsTable
  <1>1. Init => CleanInv
    BY InitStoreInv DEF CleanInv, Init
  <1>2. CleanInv /\ [Next]_vars => CleanInv'
    BY StoreStep, StaysClean DEF CleanInv
  <1>3. CleanInv /\ ViewIsStored /\ ViewIsStored' /\ [Next]_vars
           => [Table!TableNext]_(Table!tableVars)
    BY StepRefines
  <1>4. QED
    BY <1>1, <1>2, <1>3, SeenIsStored, InitRefines, PTL DEF Spec, ImplementsTable, Table!TableSpec
=============================================================================
