CONSTANTS
    d1 = d1
    d2 = d2
    Descriptors = {d1, d2}
    NoFd = NoFd
    MAX_CONNECTIONS = 5
SPECIFICATION FairSpec
INVARIANTS
    TypeOK
    Compact
PROPERTIES
    Ends
CHECK_DEADLOCK FALSE
