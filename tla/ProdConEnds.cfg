CONSTANTS
    main = main
    c1 = c1
    c2 = c2
    Main = main
    Producers = {main}
    Consumers = {c1, c2}
    Values <- MCValues
    Longs <- MCLongs
    IntBits = 4
    max_size = 4
    MaxSpurious = 0
    NoThread = NoThread
    BadNumber = BadNumber
    Inputs <- FewOrMany
SPECIFICATION FairSpec
PROPERTIES
    EndsOrKnownHang
CHECK_DEADLOCK FALSE
