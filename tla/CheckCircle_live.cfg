SPECIFICATION FairSpec
CONSTANTS
    t1 = t1
    t2 = t2
    t3 = t3
    t4 = t4
    b1 = b1
    b2 = b2
    b3 = b3
    Tasks = {t1, t2, t3}
    Graphs = {{t1}, {t2, t3}}
    Addresses = {b1, b2, b3}
    MaxReqs = 2
    Reuse = TRUE
CHECK_DEADLOCK FALSE
INVARIANTS
    TypeOK
    MissedOnlyByOverlap
PROPERTIES
    CheckReturns
