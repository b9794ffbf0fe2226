SPECIFICATION Spec
CONSTANTS
    HostPorts = {h1, h2}
    MaxCopies = 1
    MaxConns = 4
    MaxResolves = 2
    MaxRecycles = 1
    Reports <- HealthyOrNot
INVARIANTS
    PickerCurrent
    BooksAgree
    StoppedWhenClosed
    UnhealthyAsksAgain
PROPERTIES
    ImplementsContract
CHECK_DEADLOCK FALSE
