SPECIFICATION FairSpec
CONSTANTS
    t1 = t1
    t2 = t2
    t3 = t3
    m1 = m1
    m2 = m2
    Threads = {t1, t2, t3}
    Mutexes = {m1, m2}
    Conds = {}
    NULL = NULL
    MaxDepth <- RecursiveFirst
    Calls = {"exit", "cancel", "extra"}
    CancelState <- MixedStates
CHECK_DEADLOCK FALSE
INVARIANTS HoldersAgree
PROPERTIES FreeMutexTaken
