CONSTANTS
    c1 = c1
    c2 = c2
    Clients = {c1, c2}
    Listener = Listener
    NoFd = NoFd
    Garbled = Garbled
    MAX_CONNECTIONS = 3
    IntBits = 4
    MaxFaults = 1
    Inputs <- MCInputs
SPECIFICATION FairSpec
INVARIANTS
    TypeOK
    TableExact
    NoSendAfterReset
    OneRequest
    CreditedToSender
    RepliedUnlessClosed
    RepliesNumbered
    LogFollowsInput
PROPERTIES
    TimeoutOnlyWhenQuiet
    Answered
    AllEnd
    ImplementsJobService
CHECK_DEADLOCK FALSE
