SPECIFICATION FairSpec
CONSTANTS
    Threads = {t1, t2, t3}
    NoThread = none
    Admins = {a1, a2}
    b1 = b1
    b2 = b2
    l = l
    g0 = g0
    g1 = g1
    Policies = {l}
    BoolPolicies <- NoBooleans
    Values = {x}
    On = on
    Groups = {g0, g1}
    GroupOf <- GroupedByConflict
    Conflicts <- NoConflicts
    MaxListSize = 2
    MaxCalls = 3
    Actors <- Everybody
    Env <- FailedWrites
INVARIANTS WaitsEnd
PROPERTIES EveryCallReturns
CHECK_DEADLOCK FALSE
