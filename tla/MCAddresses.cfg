SPECIFICATION MCFairSpec
CONSTANTS
    TTLs <- SomeTTLs
    DefaultTTL = 5
    MinRefreshInterval = 2
    Receivers = {r1}
    IPv4 = {1, 3}
    IPv6 = {2, 4}
    Key <- SomeKey
    Text <- SomeText
    Score <- SomeScore
    K = 2
    MinConns = 3
INVARIANTS
    RequestsNotSleptOver
    SubsetBest
    ReplicatedEnough
PROPERTIES
    ResolvesSpacedOut
    KeepsResolving
    CloseReturns
CHECK_DEADLOCK FALSE
