SPECIFICATION FairSpec
CONSTANTS
    Requests = {r1, r2, r3}
    Closers = {k1, k2}
    MaxInt64 = 7
INVARIANTS
    NoDoubleClose
    WhenDoneOnce
PROPERTIES
    ImplementsContract
    CloseCompletesUnlessMasked
CHECK_DEADLOCK FALSE
