SPECIFICATION CoSpec
CONSTANTS
    NumOfSched = 2
    Coroutines = {a, b, c, d}
    Outside = {main, other}
    NoCo = NoCo
    PRIO_MAX = 5
    PRIO_CAP = 8
INVARIANTS StartedInOrder
PROPERTIES EveryCoroutineRuns
