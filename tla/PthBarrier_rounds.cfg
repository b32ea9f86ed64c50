SPECIFICATION FairSpec
CONSTANTS
    mx = mx
    cn = cn
    NULL = NULL
    Mutexes = {mx}
    Conds = {cn}
    Threads = {t1, t2, t3}
    Thresholds = {1, 2, 3}
    CancelState <- AllDeferred
CHECK_DEADLOCK FALSE
PROPERTIES LeavesTogether BarrierOpens
