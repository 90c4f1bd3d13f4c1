SPECIFICATION Spec
CONSTANTS
    Users = {u0, u1}
    Default = u0
    Names = {a, b}
    NoName = NoName
    MaxCount = 2
    Holders = {}
    Calls = {"enable", "disable", "replace"}
    Env = {"overtaken"}
SYMMETRY Symmetry
INVARIANT OneOfficialSuper
CHECK_DEADLOCK FALSE
