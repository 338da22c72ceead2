CONSTANTS
    c1 = c1
    c2 = c2
    Clients = {c1, c2}
    Listener = Listener
    NoFd = NoFd
    Garbled = Garbled
    MAX_CONNECTIONS = 3
    IntBits = 4
    MaxFaults = 0
    Inputs <- MCPlainInputs
SPECIFICATION Spec
INVARIANTS
    EveryReplyReceived
CHECK_DEADLOCK FALSE
