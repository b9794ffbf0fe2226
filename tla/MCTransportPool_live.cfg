SPECIFICATION FairSpec
CONSTANTS
    Conn = {c1, c2}
    NoConn = NoConn
    Requests = {r1}
    Closers = {k1, k2}
    Prewarmers = {}
    WarmReports <- NeverWarm
PROPERTIES
    RetriesEnd
    EveryConnTornDown
    CloseReturns
CHECK_DEADLOCK FALSE
