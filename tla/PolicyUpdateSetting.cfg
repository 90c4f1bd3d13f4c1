SPECIFICATION Spec
CONSTANTS
    Threads = {t1, t2}
    NoThread = none
    Admins = {a1, a2}
    b1 = b1
    b2 = b2
    l = l
    g0 = g0
    g1 = g1
    Policies = {b1, b2, l}
    BoolPolicies <- BothBooleans
    Values = {x, y, z}
    On = on
    Groups = {g0, g1}
    GroupOf <- GroupedByConflict
    Conflicts <- MutualConflict
    MaxListSize = 2
    MaxCalls = 5
    Actors <- Setting
    Env <- RefusalsAndParameter
SYMMETRY Interchangeable
INVARIANTS MergeIsUnion EnforcedIsMerge SubscribedWhenSet ConflictsExcluded
PROPERTIES NoLostUpdate UpdatesAreAtomic
CHECK_DEADLOCK FALSE
