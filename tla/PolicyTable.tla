---------------------------- MODULE PolicyTable ----------------------------
(* What the policy store promises the rest of the service: one durable       *)
(* value per (user, admin, policy) and one combined value per (user,         *)
(* policy), each changed by one atomic write.  A call of SetPolicy is at     *)
(* most two of those writes, the combined value first; either may fail, and  *)
(* a process death can lose the second one but never undo the first.  There  *)
(* is no cache in this specification: losing and reloading one is invisible. *)
EXTENDS Naturals

CONSTANTS
    Users,      \* account ids that own policies
    Admins,     \* bundle names of administrators
    Policies,   \* policy names
    Values,     \* non-empty policy values
    Absent,     \* the empty value: "no policy stored"
    NoAdmin     \* the empty admin name of SetPolicy: combined value only

VARIABLES
    adminValue,     \* adminValue[u][a][p]
    combinedValue,  \* combinedValue[u][p]
    pending         \* the SetPolicy call whose admin write is still to come

Value == Values \cup {Absent}
NoCall == [busy |-> FALSE]
Call == [busy: {TRUE}, user: Users, admin: Admins, policy: Policies, value: Value]

TableInit ==
    /\ adminValue = [u \in Users |-> [a \in Admins |-> [p \in Policies |-> Absent]]]
    /\ combinedValue = [u \in Users |-> [p \in Policies |-> Absent]]
    /\ pending = NoCall

(* First half of a call: the combined value is written, or its write fails. *)
Begin(u, a, p, v, m) ==
    /\ ~pending.busy
    /\ \/ combinedValue' = [combinedValue EXCEPT ![u][p] = m]
       \/ UNCHANGED combinedValue
    /\ pending' = IF a = NoAdmin
                  THEN NoCall
                  ELSE [busy |-> TRUE, user |-> u, admin |-> a, policy |-> p, value |-> v]
    /\ UNCHANGED adminValue

(* Second half: the admin's own value is written, or its write fails. *)
Finish ==
    /\ pending.busy
    /\ \/ adminValue' = [adminValue EXCEPT ![pending.user][pending.admin][pending.policy]
                            = pending.value]
       \/ UNCHANGED adminValue
    /\ pending' = NoCall
    /\ UNCHANGED combinedValue

(* The values of a are handed to b; a keeps none. *)
HandOver(u, a, b) ==
    /\ ~pending.busy
    /\ \E p \in Policies : adminValue[u][a][p] # Absent
    /\ adminValue' = [adminValue EXCEPT ![u] =
                        [@ EXCEPT ![a] = [p \in Policies |-> Absent],
                                  ![b] = adminValue[u][a]]]
    /\ UNCHANGED <<combinedValue, pending>>

(* The process dies: an open call is forgotten, nothing written is. *)
Forget ==
    /\ pending' = NoCall
    /\ UNCHANGED <<adminValue, combinedValue>>

TableNext ==
    \/ \E u \in Users, a \in Admins \cup {NoAdmin}, p \in Policies, v, m \in Value :
            Begin(u, a, p, v, m)
    \/ Finish
    \/ \E u \in Users, a, b \in Admins : a # b /\ HandOver(u, a, b)
    \/ Forget

tableVars == <<adminValue, combinedValue, pending>>
TableSpec == TableInit /\ [][TableNext]_tableVars
=============================================================================
