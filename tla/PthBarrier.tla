------------------------------ MODULE PthBarrier ------------------------------
(***************************************************************************)
(* The barrier of pth/pth_sync.c: a mutex, a condition variable, and a     *)
(* count of the threads still missing. The last thread of a round turns    *)
(* br_cycle over, refills the count for the next round and wakes the       *)
(* others by a broadcast; they leave when they see the other br_cycle. The *)
(* same threads come back for the next round at once.                      *)
(***************************************************************************)
EXTENDS PthCond

CONSTANTS
    Thresholds      \* the barrier is initialised with one of these

ASSUME BarrierAssumption ==
    /\ Thresholds \subseteq Nat \ {0} /\ IsFiniteSet(Threads)
    /\ \A k \in Thresholds : k = 1 \/ Cardinality(Threads) < 2 * k

VARIABLES
    br_threshold, br_count, br_cycle,
    cycle,      \* local: br_cycle when the thread reached the barrier
    rv,         \* local: what pth_barrier_reach returns
    place,      \* where the thread is for the application: out, in, or in as
                \* the last thread of its round
    passed      \* its round is complete

barrier == <<br_threshold, br_count, br_cycle, cycle, rv, place, passed>>
barrierVars    == <<sched, cancelreq, mutexes, conds, pc, barrier>>

BarrierInit ==
    /\ SyncInit
    /\ pc = [t \in Threads |-> "run"]
    /\ br_threshold \in Thresholds
    /\ br_count = br_threshold /\ br_cycle = FALSE
    /\ cycle = [t \in Threads |-> FALSE]
    /\ rv = [t \in Threads |-> "none"]
    /\ place = [t \in Threads |-> "out"]
    /\ passed = [t \in Threads |-> FALSE]

Inside == {t \in Threads : place[t] # "out"}

-----------------------------------------------------------------------------
(* The application's use of the barrier: round after round by as many      *)
(* threads as it is for, or one round with threads to spare, of which each *)
(* comes once. (With threads to spare a second round may be complete       *)
(* before a thread has seen the end of the first one, and then it does not *)
(* see it at all.)                                                         *)
MayReach(c) ==
    /\ place[c] = "out"
    /\ \/ br_threshold \in {1, Cardinality(Threads)}
       \/ rv[c] = "none"

ReachWait(c) ==
    /\ AcquireWait(c) /\ ~Cancelled(c)
    /\ MayReach(c) /\ pc[c] # "notify"
    /\ UNCHANGED <<cancelreq, mutexes, conds, barrier>>

\* The mutex is there to be acquired, for the whole of the call's first part.
Reach(c) ==
    /\ Running(c) \/ (Back(c) /\ pc[c] = "acquire" /\ ~Cancelled(c))
    /\ MayReach(c)
    /\ ~Locked(mx)
    /\ cycle' = [cycle EXCEPT ![c] = br_cycle]

(* Not the last thread: the mutex, acquired, is released by the wait. *)
ReachAndWait(c) ==
    /\ Reach(c)
    /\ br_count # 1
    /\ br_count' = br_count - 1
    /\ rv' = [rv EXCEPT ![c] = IF br_threshold = br_count' THEN "HEADLIGHT" ELSE "TRUE"]
    /\ cn_waiters' = [cn_waiters EXCEPT ![cn] = @ + 1]
    /\ Wait(c, {COND(cn)}) /\ Goto(c, "await")
    /\ place' = [place EXCEPT ![c] = "in"]
    /\ passed' = [passed EXCEPT ![c] = FALSE]
    /\ UNCHANGED <<cancelreq, mutexes, cn_signaled, cn_broadcast, br_threshold, br_cycle>>

Completes(c) ==
    /\ br_cycle' = ~br_cycle
    /\ br_count' = br_threshold
    /\ rv' = [rv EXCEPT ![c] = "TAILLIGHT"]
    /\ passed' = [t \in Threads |-> t \in Inside \cup {c} \/ passed[t]]

\* The last thread yields with the mutex held if anybody waits, and has done
\* its round all alone otherwise.
NotifyWaiters(c) ==
    /\ Signal(TRUE)
    /\ Lock(c, mx)
    /\ waitfor' = [waitfor EXCEPT ![c] = {}]
    /\ occurred' = [occurred EXCEPT ![c] = {}]
    /\ pth_current' = NULL
    /\ UNCHANGED state
    /\ Goto(c, "notify")
    /\ place' = [place EXCEPT ![c] = "last"]

PassAlone(c) ==
    /\ IF Running(c) THEN UNCHANGED sched ELSE Unlink(c)
    /\ Goto(c, "run")
    /\ UNCHANGED <<mutexes, conds, place>>

ReachLast(c) ==
    /\ Reach(c)
    /\ br_count = 1
    /\ Completes(c)
    /\ IF cn_waiters[cn] > 0 THEN NotifyWaiters(c) ELSE PassAlone(c)
    /\ UNCHANGED <<cancelreq, br_threshold>>

LeaveLast(c) ==
    /\ Running(c) /\ pc[c] = "notify"
    /\ pth_mutex_release(c, mx)
    /\ Goto(c, "run")
    /\ place' = [place EXCEPT ![c] = "out"]
    /\ UNCHANGED <<sched, cancelreq, conds, br_threshold, br_count, br_cycle, cycle, rv, passed>>

WaitAgain(c) ==
    /\ Reacquire(c)
    /\ UNCHANGED <<cancelreq, barrier>>

\* Back from pth_cond_await in the same cycle: await again, the mutex,
\* reacquired, being released and the number of waiters restored.
AwaitAgain(c) ==
    /\ InAwait(c)
    /\ ~Locked(mx)
    /\ cycle[c] = br_cycle
    /\ rv' = [rv EXCEPT ![c] = "TRUE"]
    /\ Wait(c, {COND(cn)}) /\ Goto(c, "await")
    /\ UNCHANGED <<cancelreq, mutexes, conds, br_threshold, br_count, br_cycle, cycle, place, passed>>

\* Mutant: leaves after the first return of pth_cond_await.
LeaveOther_NoLoop(c) ==
    /\ InAwait(c)
    /\ ~Locked(mx)
    /\ rv' = [rv EXCEPT ![c] = "TRUE"]
    /\ WaiterGone
    /\ Unlink(c) /\ Goto(c, "run")
    /\ place' = [place EXCEPT ![c] = "out"]
    /\ UNCHANGED <<cancelreq, mutexes, br_threshold, br_count, br_cycle, cycle, passed>>

LeaveOther(c) ==
    /\ InAwait(c)
    /\ ~Locked(mx)
    /\ cycle[c] # br_cycle
    /\ rv' = [rv EXCEPT ![c] = "TRUE"]
    /\ WaiterGone
    /\ Unlink(c) /\ Goto(c, "run")
    /\ place' = [place EXCEPT ![c] = "out"]
    /\ UNCHANGED <<cancelreq, mutexes, br_threshold, br_count, br_cycle, cycle, passed>>

-----------------------------------------------------------------------------
\* Cancellation is disabled in the wait for the others, not in the one for the
\* mutex; but a request ends any wait.
CancelRequest(c, u) ==
    /\ CancelDeferred(c, u)
    /\ pc[c] = "run"
    /\ UNCHANGED barrier

CancelledInAcquire(c) ==
    /\ pc[c] = "acquire"
    /\ CancelledElsewhere(c)
    /\ UNCHANGED barrier

BarrierYield(c) ==
    /\ Running(c) /\ pc[c] = "run"
    /\ pth_yield(c)
    /\ UNCHANGED <<cancelreq, mutexes, conds, pc, barrier>>

BarrierDispatch(t) == Schedule(t) /\ UNCHANGED <<pc, barrier>>

GoesOnStep(c) ==
    \/ LeaveLast(c) \/ LeaveOther(c) \/ WaitAgain(c) \/ AwaitAgain(c)
    \/ ReachWait(c) \/ ReachAndWait(c) \/ ReachLast(c)
    \/ CancelledInAcquire(c)

BarrierNext ==
    \E c \in Threads :
        \/ BarrierDispatch(c) \/ BarrierYield(c) \/ GoesOnStep(c)
        \/ \E u \in Threads : CancelRequest(c, u)

BarrierSpec == BarrierInit /\ [][BarrierNext]_barrierVars

(* Ready threads are dispatched sooner or later, those dispatched go on.   *)
(* A thread need not come back to the barrier, as far as its own steps are *)
(* concerned, but must yield then.                                         *)
Fairness ==
    \A t \in Threads :
        /\ SF_barrierVars(BarrierDispatch(t))
        /\ WF_barrierVars(GoesOnStep(t) /\ pc[t] # "run")
        /\ WF_barrierVars(BarrierYield(t))

FairSpec == BarrierSpec /\ Fairness

\* Instance: every thread can be cancelled, which takes effect in its waits.
AllDeferred == [t \in Threads |-> "deferred"]

-----------------------------------------------------------------------------
(* Nobody leaves the barrier before all the threads of his round have      *)
(* reached it: neither a broadcast nor a request of cancellation, which    *)
(* ends the wait without one, lets a thread out early.                     *)
LeavesTogether ==
    [][\A t \in Threads : place[t] # "out" /\ place'[t] = "out" => passed[t]]_barrierVars

(* All the threads of a complete round do leave the barrier. *)
BarrierOpens ==
    \A t \in Threads : (place[t] # "out" /\ passed[t]) ~> (place[t] = "out")

=============================================================================
