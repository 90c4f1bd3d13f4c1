--------------------------- MODULE SharedPolicies ---------------------------
(* What the administrators of a user are promised while they set policies:    *)
(* every call takes effect at once and alone.  It changes what one            *)
(* administrator wants of one policy, and what is stored for all becomes the  *)
(* union.  A list only grows up to its limit, and a boolean is only set while *)
(* nothing that excludes it is.  There are no threads and no locks here.      *)
EXTENDS FiniteSets, Naturals

CONSTANTS
    Admins,
    Policies,
    BoolPolicies,   \* the others are lists
    Values,         \* elements of lists
    On,             \* the element of a boolean that is set
    Conflicts,      \* [Policies -> SUBSET Policies]
    MaxListSize

VARIABLES
    wanted,         \* wanted[p][a]: what administrator a has set
    merged          \* merged[p]: what is set for all

SharedInit ==
    /\ wanted = [p \in Policies |-> [a \in Admins |-> {}]]
    /\ merged = [p \in Policies |-> {}]

Change(p, a, v) ==
    /\ wanted' = [wanted EXCEPT ![p][a] = v]
    /\ merged' = [merged EXCEPT ![p] = v \cup UNION {wanted[p][b] : b \in Admins \ {a}}]

Switch(p, a, v) ==
    /\ p \in BoolPolicies
    /\ v = {On} => \A q \in Conflicts[p] : merged[q] = {}
    /\ Change(p, a, v)

Add(p, a, s) ==
    /\ p \notin BoolPolicies
    /\ Change(p, a, wanted[p][a] \cup s)
    /\ Cardinality(merged'[p]) <= MaxListSize

Take(p, a, s) ==
    /\ p \notin BoolPolicies
    /\ Change(p, a, wanted[p][a] \ s)

SharedNext ==
    \E p \in Policies, a \in Admins :
        \/ \E v \in {{}, {On}} : Switch(p, a, v)
        \/ \E s \in SUBSET Values : Add(p, a, s) \/ Take(p, a, s)

sharedVars == <<wanted, merged>>
SharedSpec == SharedInit /\ [][SharedNext]_sharedVars
=============================================================================
