SPECIFICATION Spec
CONSTANTS
    p1 = p1
    p2 = p2
    p3 = p3
    c1 = c1
    c2 = c2
    a = a
    b = b
    Producers = {p1, p2, p3}
    Consumers = {c1, c2}
    Items = {a, b}
    Null = Null
    Capacity = 2
    IntHalf = 64
    WakeCount = 1
    MaxCalls = 6
SYMMETRY Alike
INVARIANTS
    TypeOK
    SlotExclusive
    AssertItem
    Delivered
    NoTicketLeaked
    Bounded
PROPERTIES
    ImplementsFifo
CHECK_DEADLOCK FALSE
