SPECIFICATION Spec
CONSTANTS
    rd = rd
    rw = rw
    a = a
    b = b
    r = r
    w = w
    Threads = {a, b, r, w}
    Mutexes = {rd, rw}
    Conds = {}
    NULL = NULL
    Readers = {a, b, r}
    Writers = {a, b, w}
    Ending = {a, r, w}
    Calls = {"extra", "cancel"}
    CancelState <- OneUncancelled
CHECK_DEADLOCK FALSE
INVARIANTS WriterExcludes
