SPECIFICATION FairSpec
CONSTANTS
    t1 = t1
    t2 = t2
    Main = main
    Threads = {main, t1, t2}
    NULL = NULL
    PRIO_STD = 0
    PRIO_MAX = 1
    PRIO_CAP = 3
    Attrs <- UrgentAttrs
    Calls <- WaitingCalls
CHECK_DEADLOCK FALSE
PROPERTIES NoStarvation CancelTakesEffect JoinCompletes
