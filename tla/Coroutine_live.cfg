SPECIFICATION FairSpec
CONSTANTS
    w1 = w1
    w2 = w2
    g1 = g1
    g2 = g2
    worker_num = 1
    Batch = 2
    Workers = {w1, w2}
    Graphs = {g1, g2}
    GraphOf <- LastAlone
    MaxNodes = 3
    MaxWaits = 3
    backup_coroutines = 1
CHECK_DEADLOCK FALSE
INVARIANTS
    TypeOK
    StackExclusive
    RunsItsTask
    IdleExact
    NothingLeaked
PROPERTIES
    ImplementsTaskLife
    TasksEnd
    DestroyReturns
