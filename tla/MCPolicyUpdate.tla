--------------------------- MODULE MCPolicyUpdate ---------------------------
(* Instances of PolicyUpdate for TLC.  b1 and b2 are boolean policies that    *)
(* exclude each other and share a conflict group, as the two that disallow    *)
(* distributed transmission do; l is a list without a group.                  *)
EXTENDS PolicyUpdate, TLC

CONSTANTS b1, b2, l, g0, g1

BothBooleans == {b1, b2}
NoBooleans == {}
GroupedByConflict == [p \in Policies |-> IF p = l THEN g0 ELSE g1]
MutualConflict == [p \in Policies |-> IF p = l THEN {} ELSE {b1, b2} \ {p}]
NoConflicts == [p \in Policies |-> {}]

Setting == {"set"}
SettingAndDisabling == {"set", "disable"}
SettingAndEvents == {"set", "event"}
Everybody == {"set", "disable", "event"}

NoFaults == {}
Refusals == {"external"}
RefusalsAndParameter == {"external", "parameter"}
FailedWrites == {"write"}

Interchangeable == Permutations(Threads) \cup Permutations(Admins) \cup Permutations(Values)
=============================================================================
