SPECIFICATION FairSpec
CONSTANTS
    HostPorts = {h1}
    MaxCopies = 2
    MaxConns = 4
    MaxResolves = 2
    MaxRecycles = 2
    Reports = {}
INVARIANTS
    CountsMatch
PROPERTIES
    LatestAddressesApplied
    ExpiredReplaced
    CloseCompletes
CHECK_DEADLOCK FALSE
