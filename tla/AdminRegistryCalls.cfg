SPECIFICATION Spec
CONSTANTS
    Users = {u0, u1}
    Default = u0
    Names = {a, b}
    NoName = NoName
    MaxCount = 2
    Holders = {}
    Calls = {"enable", "device", "authorize", "delegate", "delegateAny", "mode", "disable", "replace", "keep", "package", "user"}
    Env = {"write", "replace"}
SYMMETRY Symmetry
INVARIANTS OncePerUser OneOfficialSuper DebugNotMixed EnabledWhileAdmins
