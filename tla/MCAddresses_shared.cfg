SPECIFICATION MCSpec
CONSTANTS
    TTLs <- SomeTTLs
    DefaultTTL = 5
    MinRefreshInterval = 2
    Receivers = {r1, r2}
    IPv4 = {1}
    IPv6 = {2}
    Key <- SomeKey
    Text <- SomeText
    Score <- SomeScore
    K = 1
    MinConns = 1
INVARIANTS
    SameAddresses
CHECK_DEADLOCK FALSE
