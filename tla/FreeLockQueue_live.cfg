SPECIFICATION FairSpec
CONSTANTS
    p1 = p1
    p2 = p2
    p3 = p3
    c1 = c1
    c2 = c2
    a = a
    b = b
    Producers = {p1}
    Consumers = {c1}
    Items = {a}
    Null = Null
    Capacity = 2
    IntHalf = 64
    WakeCount = 1
    MaxCalls = 8
CHECK_DEADLOCK FALSE
PROPERTIES
    ClaimsComplete
