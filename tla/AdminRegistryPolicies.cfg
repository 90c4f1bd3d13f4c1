SPECIFICATION Spec
CONSTANTS
    Users = {u0, u1}
    Default = u0
    Names = {a, b, c}
    NoName = NoName
    MaxCount = 2
    Holders = {a}
    Calls = {"enable", "device", "authorize", "disable", "replace", "package", "policy", "user"}
    Env = {"write", "crash"}
SYMMETRY Symmetry
INVARIANTS SubsHaveParent MemoryIsStored CountBounded PoliciesHaveAdmin
