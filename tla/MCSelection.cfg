SPECIFICATION SelectionSpec
CONSTANTS
    HealthyThreshold = 3
    UnhealthyThreshold = 2
    MaxTotal = 18
    Conns = {a, b, c}
    Users = {u1, u2}
    TieBreaks = {0, 1}
    MaxPicks = 3
    NoItem = NoItem
    Backends = {a, b, c}
    Callers = {u1, u2}
    Tags = {0, 1}
    NoEntry = NoEntry
    MaxInt = 7
INVARIANTS
    EnoughProbesDecide
    BalancerInformed
    UsableIsBestEnough
    LoadsCarriedOver
    LoadsShared
    TurnsEven
PROPERTIES
    ChangesEarned
    LeastLoadedOnceSifted
SYMMETRY Symmetry
CHECK_DEADLOCK FALSE
