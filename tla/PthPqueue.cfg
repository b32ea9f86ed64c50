SPECIFICATION MCSpec
CONSTANTS
    Threads = {t1, t2, t3, t4}
    NULL = NULL
    PRIO_MAX = 1
    PRIO_CAP = 3
    PrioBound = 5
    Prios <- MCPrios
    Nodes = {t1, t2, t3, t4}
    NoNode = NULL
SYMMETRY MCSymmetry
INVARIANTS RingIsSequence
PROPERTY RefinesPrioQueue
