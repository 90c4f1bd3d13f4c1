SPECIFICATION Spec
CONSTANTS
    Users = {u0}
    Admins = {a1, a2}
    Policies = {p1}
    Values = {v1, v2}
    Absent = absent
    NoAdmin = none
    Env <- WriteFaults
PROPERTIES ImplementsTable
