CONSTANTS
    c1 = c1
    c2 = c2
    c3 = c3
    Consumers = {c1, c2}
    Work <- MCWork
    SleepArgs <- MCSleepArgs
    MaxTrans = 4
SPECIFICATION Spec
INVARIANTS
    TypeOK
    MaskedUnlessInTrans
PROPERTIES
    SleepValidUnlessRacing
CHECK_DEADLOCK FALSE
