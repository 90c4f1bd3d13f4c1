SPECIFICATION Spec
CONSTANTS
    admin = admin
    c1 = c1
    c2 = c2
    t1 = t1
    t2 = t2
    i1 = i1
    i2 = i2
    i3 = i3
    n1 = n1
    n2 = n2
    None = none
    Clients = {c1, c2}
    Threads = {t1, t2}
    ClientOf <- OneThread
    AdminOf <- OneAdmin
    Ids = {i1, i2, i3}
    NameOf <- TwoNames
    MaxTimers = 2
    Env = {"crash", "die", "refuse", "remove"}
SYMMETRY Symmetry
INVARIANTS NoStrayTimers DeadAreNoticed ClientsKeepTimers
