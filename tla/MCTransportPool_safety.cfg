SPECIFICATION Spec
CONSTANTS
    Conn = {c1, c2}
    NoConn = NoConn
    Requests = {r1, r2}
    Closers = {k1}
    Prewarmers = {p1}
    WarmReports = {TRUE, FALSE}
SYMMETRY Symmetry
INVARIANTS
    PickerNotMissing
    NoLostWakeup
    PickerOffersOpenConns
    NoConnLeftOpen
PROPERTIES
    LeafContracts
CHECK_DEADLOCK FALSE
