SPECIFICATION Spec
CONSTANTS
    mx = mx
    cn = cn
    c1 = c1
    NULL = NULL
    Mutexes = {mx}
    Conds = {cn}
    Threads = {p1, c1, c2}
    Producers = {p1}
    Consumers = {c1, c2}
    Capacity = 2
    Calls = {"extra", "cancel"}
    CancelState <- OneDisabled
CHECK_DEADLOCK FALSE
INVARIANTS InsideOwns NoLostWakeup
