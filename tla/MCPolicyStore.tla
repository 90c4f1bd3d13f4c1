--------------------------- MODULE MCPolicyStore ---------------------------
(* Instances of PolicyStore for TLC: accounts are interchangeable for the    *)
(* store, and so are administrators, policies and values.                    *)
EXTENDS PolicyStore, TLC

AllFaults == Faults
WriteFaults == {"write"}
Interchangeable ==
    Permutations(Users) \cup Permutations(Admins)
        \cup Permutations(Policies) \cup Permutations(Values)
=============================================================================
