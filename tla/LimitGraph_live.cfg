SPECIFICATION FairSpec
CONSTANTS
    l1 = l1
    l2 = l2
    u1 = u1
    c1 = c1
    c2 = c2
    w1 = w1
    w2 = w2
    Limited = {l1}
    Unlimited = {u1}
    parallel = 1
    queue_size = 2
    fast_node_max_num = 2
    Clients = {c1, c2}
    Workers = {w1, w2}
    MaxNodes = 4
CHECK_DEADLOCK FALSE
INVARIANTS
    TypeOK
    WithinLimit
    HeldCounted
    HoldAccepted
PROPERTIES
    NoneHeldForever
