SPECIFICATION Spec
CONSTANTS
    t1 = t1
    t2 = t2
    Main = main
    Threads = {main, t1, t2}
    NULL = NULL
    PRIO_STD = 0
    PRIO_MAX = 0
    PRIO_CAP = 2
    Attrs <- DetachedAttrs
    Calls <- EndingCalls
CHECK_DEADLOCK FALSE
INVARIANTS EachThreadInItsPlace SchedulerFindsThread NoMissedEvent
PROPERTIES JoinWaitsForDeath ImplementsThreadLife
