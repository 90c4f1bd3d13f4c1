SPECIFICATION Spec
CONSTANTS
    Users = {u0, u100}
    Admins = {a1, a2}
    Policies = {p1}
    Values = {v1}
    Absent = absent
    NoAdmin = none
    Env <- AllFaults
SYMMETRY Interchangeable
INVARIANTS MemoryIsDurable StoredUsersListed IndicesAgree
