------------------------------- MODULE PthCond --------------------------------
(***************************************************************************)
(* The calls pth_cond_await and pth_cond_notify (pth/pth_sync.c) as steps  *)
(* of the thread that makes them, for the clients PthBuffer and PthBarrier.*)
(* A step of one call ends where the thread waits or yields.               *)
(***************************************************************************)
EXTENDS PthSync

CONSTANTS mx, cn        \* the mutex and the condition variable that goes with it

ASSUME CondAssumption ==
    /\ Mutexes = {mx} /\ Conds = {cn}
    /\ \A t \in Threads : CancelState[t] # "async"

VARIABLE pc     \* the wait a thread is in: for the mutex on its own account
                \* (acquire), in pth_cond_await for the condition (await) or for
                \* the mutex (reacquire), in its cleanup handler (cleanup)

Goto(c, k) == pc' = [pc EXCEPT ![c] = k]

\* pth_mutex_acquire(mx, FALSE, NULL) at the start of a call, or after a wait.
AcquireNow(c) ==
    /\ Running(c) \/ (Back(c) /\ pc[c] = "acquire")
    /\ Lock(c, mx)
    /\ IF Running(c) THEN UNCHANGED sched ELSE Unlink(c)

AcquireWait(c) ==
    /\ Running(c) \/ (Back(c) /\ pc[c] = "acquire")
    /\ Busy(c, mx)
    /\ Wait(c, {MUTEX(mx)})
    /\ Goto(c, "acquire")

-----------------------------------------------------------------------------
(*                            pth_cond_await                               *)

ShortCircuit(c) ==
    /\ Running(c)
    /\ cn_signaled[cn] /\ ~cn_broadcast[cn]
    /\ cn_signaled' = [cn_signaled EXCEPT ![cn] = FALSE]
    /\ UNCHANGED <<sched, mutexes, cn_broadcast, cn_waiters, pc>>

\* Mutant: the waiter is not counted.
Await_NotCounted(c, extra) ==
    /\ ~(cn_signaled[cn] /\ ~cn_broadcast[cn])
    /\ pth_mutex_release(c, mx)
    /\ Wait(c, {COND(cn)} \cup extra)
    /\ Goto(c, "await")
    /\ UNCHANGED conds

\* The caller holds the mutex; it is released for the time of the wait.
Await(c, extra) ==
    /\ ~(cn_signaled[cn] /\ ~cn_broadcast[cn])
    /\ cn_waiters' = [cn_waiters EXCEPT ![cn] = @ + 1]
    /\ pth_mutex_release(c, mx)
    /\ Wait(c, {COND(cn)} \cup extra)
    /\ Goto(c, "await")
    /\ UNCHANGED <<cn_signaled, cn_broadcast>>

\* The waiter is dispatched, because of the condition or of any other event,
\* or has waited for the mutex since.
InAwait(c) == Back(c) /\ pc[c] \in {"await", "reacquire"}

Reacquire(c) ==
    /\ InAwait(c)
    /\ Busy(c, mx)
    /\ Wait(c, {MUTEX(mx)})
    /\ Goto(c, "reacquire")
    /\ UNCHANGED <<mutexes, conds>>

\* Mutant: the mutex is not reacquired.
AwaitDone_WithoutMutex(c) ==
    /\ InAwait(c)
    /\ Unlink(c)
    /\ Goto(c, "run")
    /\ cn_waiters' = [cn_waiters EXCEPT ![cn] = @ - 1]
    /\ UNCHANGED <<mutexes, cn_signaled, cn_broadcast>>

AwaitDone(c) ==
    /\ InAwait(c)
    /\ Lock(c, mx)
    /\ Unlink(c)
    /\ Goto(c, "run")
    /\ cn_waiters' = [cn_waiters EXCEPT ![cn] = @ - 1]
    /\ UNCHANGED <<cn_signaled, cn_broadcast>>

-----------------------------------------------------------------------------
(*                            pth_cond_notify                              *)

Signal(broadcast) ==
    /\ cn_signaled' = [cn_signaled EXCEPT ![cn] = TRUE]
    /\ cn_broadcast' = [cn_broadcast EXCEPT ![cn] = broadcast]
    /\ UNCHANGED cn_waiters

\* The thread yields if there is a waiter, and goes on at once if there is none.
Notify(c, broadcast) ==
    /\ Running(c)
    /\ IF cn_waiters[cn] > 0
         THEN Signal(broadcast) /\ pth_yield(c)
         ELSE UNCHANGED <<conds, sched>>

-----------------------------------------------------------------------------
(*                             Cancellation                                *)

\* Requests do not take effect at once: the threads are not cancelled
\* asynchronously.
CancelDeferred(c, u) ==
    /\ Running(c)
    /\ u \in Alive \ {c}
    /\ cancelreq' = [cancelreq EXCEPT ![u] = TRUE]
    /\ UNCHANGED <<sched, mutexes, conds, pc>>

Request(c, b) == cancelreq' = [cancelreq EXCEPT ![c] = b]

WaiterGone ==
    /\ cn_waiters' = [cn_waiters EXCEPT ![cn] = @ - 1]
    /\ UNCHANGED <<cn_signaled, cn_broadcast>>

(* Cancelled in pth_cond_await while waiting for the condition: the        *)
(* cleanup handler acquires the mutex and corrects the number of waiters,  *)
(* pth_mutex_releaseall releases the mutex again.                          *)
CancelledAwait(c) ==
    /\ Back(c) /\ pc[c] = "await" /\ Cancelled(c)
    /\ ~Locked(mx)
    /\ WaiterGone
    /\ Die(c) /\ Goto(c, "run")
    /\ Request(c, FALSE)
    /\ UNCHANGED mutexes

CancelledAwaitBusy(c) ==
    /\ Back(c) /\ pc[c] = "await" /\ Cancelled(c)
    /\ Busy(c, mx)
    /\ Wait(c, {MUTEX(mx)}) /\ Goto(c, "cleanup")
    /\ Request(c, FALSE)
    /\ UNCHANGED <<mutexes, conds>>

CleanupDone(c) ==
    /\ Back(c) /\ pc[c] = "cleanup" /\ ~Cancelled(c)
    /\ ~Locked(mx)
    /\ WaiterGone
    /\ Die(c) /\ Goto(c, "run")
    /\ UNCHANGED <<cancelreq, mutexes>>

CleanupAgain(c) ==
    /\ Back(c) /\ pc[c] = "cleanup" /\ ~Cancelled(c)
    /\ Busy(c, mx)
    /\ Wait(c, {MUTEX(mx)})
    /\ UNCHANGED <<cancelreq, mutexes, conds, pc>>

\* In any other wait there is no handler (any more), and no mutex held.
CancelledElsewhere(c) ==
    /\ Back(c) /\ pc[c] # "await" /\ Cancelled(c)
    /\ Die(c) /\ Goto(c, "run")
    /\ Request(c, FALSE)
    /\ UNCHANGED <<mutexes, conds>>

CancellationStep(c) ==
    \/ CancelledAwait(c) \/ CancelledAwaitBusy(c)
    \/ CleanupDone(c) \/ CleanupAgain(c) \/ CancelledElsewhere(c)
    \/ \E u \in Threads : CancelDeferred(c, u)

=============================================================================
