SPECIFICATION FairSpec
CONSTANTS
    g1 = g1
    g2 = g2
    c1 = c1
    c2 = c2
    w1 = w1
    w2 = w2
    Graphs = {g1}
    Clients = {c1, c2}
    Workers = {w1}
    fast_node_max_num = 3
    MaxNodes = 3
    MaxReqs = 1
    MaxWaits = 0
CHECK_DEADLOCK FALSE
PROPERTIES
    EveryNodeRuns
