SPECIFICATION Spec
CONSTANTS
    g1 = g1
    g2 = g2
    c1 = c1
    c2 = c2
    w1 = w1
    w2 = w2
    Graphs = {g1}
    Clients = {c1}
    Workers = {w1, w2}
    fast_node_max_num = 2
    MaxNodes = 3
    MaxReqs = 0
    MaxWaits = 1
CHECK_DEADLOCK FALSE
INVARIANTS
    WaitsForAll
