SPECIFICATION FairSpec
CONSTANTS
    Callers = {t1, t2}
    Conns = {c1, c2}
    None = none
    Start = start
    NoInfo = noinfo
    KeepAlive = TRUE
    Env = {"connect", "done", "die", "call", "clock", "clear"}
INVARIANTS PendingIsServed ProxyIsWatched InOnePlace OneInCalm
PROPERTIES QueueMoves
