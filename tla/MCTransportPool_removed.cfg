SPECIFICATION Spec
CONSTANTS
    Conn = {c1, c2}
    NoConn = NoConn
    Requests = {r1}
    Closers = {k1}
    Prewarmers = {}
    WarmReports <- NeverWarm
INVARIANTS
    CloseWaitsForRequests
CHECK_DEADLOCK FALSE
