SPECIFICATION MCSpec
CONSTANTS
    t1 = t1
    t2 = t2
    r1 = r1
    Targets = {t1, t2}
    Supported = {t1}
    Pools = {p1, p2}
    NoPool = NoPool
    NoTarget = NoTarget
    Requests = {r1, r2, w}
    Prewarmers = {w}
    Closers = {k1, k2}
    Watcher = k2
    KeepWarm = {TRUE, FALSE}
INVARIANTS
    OpenIffLinked
    CloseWaitsForPools
PROPERTIES
    TouchedPoolStays
    RequestsEnd
    CloseReturns
CHECK_DEADLOCK FALSE
