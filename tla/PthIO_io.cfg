SPECIFICATION Spec
CONSTANTS
    t1 = t1
    t2 = t2
    sock = sock
    line = line
    dial = dial
    door = door
    m1 = m1
    NULL = NULL
    Threads = {t1, t2}
    Fds = {sock, line, dial, door}
    Messages = {m1}
    Room = 1
    Backlog = 1
    Pair = {t2}
    Extra = {t1, t2}
    Victims = {t2}
    Leavers = {t2}
    Event <- TheEvents
    Vectors <- TheVectors
    Does <- TheCalls
    Opened <- TheOpened
    Sender <- TheSender
CHECK_DEADLOCK FALSE
INVARIANTS CallsLeaveNoTrace BlocksOnlyWhenRobbed PartialWritesCounted OnlyClosedFail
