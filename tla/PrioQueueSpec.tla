---------------------------- MODULE PrioQueueSpec ----------------------------
(***************************************************************************)
(* One thread queue and every way the scheduler changes it: the abstract   *)
(* specification that the ring of PthPqueue implements.                    *)
(***************************************************************************)
EXTENDS PrioQueue

CONSTANTS Threads, Prios

VARIABLE queue

Init == queue = <<>>

QInsert(t, prio) == t \notin Members(queue) /\ queue' = Insert(queue, prio, t)
QPushFavorite(t) == t \notin Members(queue) /\ queue' = PushFavorite(queue, t)
QDelmax          == queue # <<>> /\ queue' = Tail(queue)
QDelete(t)       == t \in Members(queue) /\ queue' = Delete(queue, t)
QFavorite(t)     == t \in Members(queue) /\ queue' = Favorite(queue, t)
QIncrease        == queue' = Increase(queue)

Next ==
    \/ \E t \in Threads :
          \/ \E prio \in Prios : QInsert(t, prio)
          \/ QPushFavorite(t)
          \/ QDelete(t)
          \/ QFavorite(t)
    \/ QDelmax
    \/ QIncrease

Spec == Init /\ [][Next]_queue

=============================================================================
