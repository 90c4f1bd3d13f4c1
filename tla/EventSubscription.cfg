SPECIFICATION FairSpec
CONSTANTS
    c1 = c1
    c2 = c2
    c3 = c3
    c4 = c4
    g1 = g1
    Clients = {c1, c2, c3, c4}
    NoClient = none
    Groups = {g1}
    GroupOf <- OneGroup
    Env = {"subscribe", "unsubscribe", "restart"}
INVARIANTS ListenersAreServed IdleIsTimed
PROPERTIES KeepsPromise EventuallyUnsubscribed SubscribeReturns
