SPECIFICATION FairSpec
CONSTANTS
    Callers = {c1, c2}
    NoCaller = none
    Tasks = {t1, t2}
    States = {s1, s2}
    NoState = nostate
    Env = {"persist", "stop", "extra"}
INVARIANTS HandlersRunLoaded SecondLookupFinds LoadedIsRegistered
PROPERTIES CallsReturn IdleIsUnloaded
