SPECIFICATION Spec
CONSTANTS
    Threads = {t1, t2, t3}
    PTH_KEY_MAX = 2
    PTH_DESTRUCTOR_ITERATIONS = 2
    MaxCleanups = 1
    Values = {a, b, c}
    NULL = NULL
SYMMETRY MCSymmetry
INVARIANTS ValuesAccounted
PROPERTIES DestructorsRun
CHECK_DEADLOCK FALSE
