CONSTANTS
    p1 = p1
    p2 = p2
    c1 = c1
    c2 = c2
    Producers = {p1}
    Consumers = {c1, c2}
    Values <- MCValues
    max_size = 2
    MaxSpurious = 1
    NoThread = NoThread
SPECIFICATION QSpec
INVARIANTS
    QTypeOK
    QInv
    NoTasksRace
    NoMissedWakeup
    ProducerSleepsOnlyWhileFull
PROPERTIES
    ImplementsBoundedQueue
CHECK_DEADLOCK FALSE
