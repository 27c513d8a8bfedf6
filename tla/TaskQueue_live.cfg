SPECIFICATION FairSpec
CONSTANTS
    p1 = p1
    p2 = p2
    w1 = w1
    w2 = w2
    Producers = {p1, p2}
    Workers = {w1, w2}
    Capacity = 2
    MaxTasks = 3
    MaxMisfires = 1
CHECK_DEADLOCK FALSE
INVARIANTS
    TypeOK
    Accounted
    SizeLags
    NoLostWakeup
PROPERTIES
    Drained
