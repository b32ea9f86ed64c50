SPECIFICATION TimerFairSpec
CONSTANTS
    Timers = {t1, t2, t3}
    MaxTime = 4
PROPERTIES AllCalledBack
