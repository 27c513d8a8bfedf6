SPECIFICATION Spec
CONSTANTS
    t1 = t1
    t2 = t2
    t3 = t3
    t4 = t4
    b1 = b1
    b2 = b2
    b3 = b3
    Tasks = {t1, t2, t3, t4}
    Graphs = {{t1, t2, t3, t4}}
    Addresses = {b1}
    MaxReqs = 1
    Reuse = TRUE
SYMMETRY Alike
CHECK_DEADLOCK FALSE
INVARIANTS
    NoFalseAlarm
