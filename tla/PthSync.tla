------------------------------- MODULE PthSync --------------------------------
(***************************************************************************)
(* Mutexes and condition variables of Pth (pth/pth_sync.c) and what the    *)
(* scheduler does for the threads that wait for them, for the modules that *)
(* build on them: PthMutex, PthRWLock, PthCond, PthBarrier.                *)
(*                                                                         *)
(* Threads are cooperative: a library call runs undisturbed until it waits *)
(* or yields, and only then does the scheduler pass control on. A round of *)
(* the scheduler (see PthSched for its parts) is one action here. Which of *)
(* the ready threads it dispatches depends on priorities and on aging;     *)
(* here it is any of them.                                                 *)
(***************************************************************************)
EXTENDS Integers, Sequences, FiniteSets, SequencesExt

CONSTANTS
    Threads, Mutexes, Conds,
    NULL,
    CancelState     \* deferred, async (both enabled) or disabled, per thread

ASSUME SyncAssumption ==
    /\ NULL \notin Threads
    /\ CancelState \in [Threads -> {"deferred", "async", "disabled"}]

VARIABLES
    pth_current,    \* the thread that runs; NULL: the scheduler
    state,          \* ready, waiting or dead
    waitfor,        \* the event ring a thread has waited with
    occurred,       \* the events of it that have occurred
    cancelreq,      \* a request of cancellation is pending
    mx_owner,       \* who holds a mutex, NULL unless its LOCKED bit is set
    mx_count,       \* how often he does
    mutexring,      \* the mutexes of each thread, in the order of acquisition
    cn_signaled,    \* SIGNALED and BROADCAST bits of a condition variable; the
    cn_broadcast,   \* HANDLED bit does not outlive a round of the scheduler
    cn_waiters

sched   == <<pth_current, state, waitfor, occurred>>
mutexes == <<mx_owner, mx_count, mutexring>>
conds   == <<cn_signaled, cn_broadcast, cn_waiters>>

MUTEX(m) == [type |-> "MUTEX", obj |-> m]
COND(n)  == [type |-> "COND",  obj |-> n]
EXTRA    == [type |-> "EXTRA", obj |-> NULL]     \* the caller's extra events

Event == {MUTEX(m) : m \in Mutexes} \cup {COND(n) : n \in Conds} \cup {EXTRA}

Waiting == {t \in Threads : state[t] = "waiting"}
Ready   == {t \in Threads : state[t] = "ready"}
Alive   == {t \in Threads : state[t] # "dead"}

SyncInit ==
    /\ pth_current = NULL
    /\ state = [t \in Threads |-> "ready"]
    /\ waitfor = [t \in Threads |-> {}]
    /\ occurred = [t \in Threads |-> {}]
    /\ cancelreq = [t \in Threads |-> FALSE]
    /\ mx_owner = [m \in Mutexes |-> NULL]
    /\ mx_count = [m \in Mutexes |-> 0]
    /\ mutexring = [t \in Threads |-> <<>>]
    /\ cn_signaled = [n \in Conds |-> FALSE]
    /\ cn_broadcast = [n \in Conds |-> FALSE]
    /\ cn_waiters = [n \in Conds |-> 0]

-----------------------------------------------------------------------------
(*                               Mutexes                                   *)

Locked(m) == mx_owner[m] # NULL

\* A mutex that is not locked, or locked by the caller already.
Lock(c, m) ==
    /\ ~Locked(m)
    /\ mx_owner' = [mx_owner EXCEPT ![m] = c]
    /\ mx_count' = [mx_count EXCEPT ![m] = 1]
    /\ mutexring' = [mutexring EXCEPT ![c] = Append(@, m)]

LockAgain(c, m) ==
    /\ mx_owner[m] = c
    /\ mx_count' = [mx_count EXCEPT ![m] = @ + 1]
    /\ UNCHANGED <<mx_owner, mutexring>>

\* ... else the caller has to wait, unless he only tries.
Busy(c, m) == Locked(m) /\ mx_owner[m] # c

\* The ring of a thread without the mutexes M, deleted from it one by one.
Without(ring, M) ==
    LET kept[i \in 0 .. Len(ring)] ==
          IF i = 0 THEN <<>>
          ELSE IF ring[i] \in M THEN kept[i - 1] ELSE Append(kept[i - 1], ring[i])
    IN  kept[Len(ring)]

pth_mutex_release(c, m) ==
    /\ mx_owner[m] = c
    /\ mx_count' = [mx_count EXCEPT ![m] = @ - 1]
    /\ IF mx_count[m] = 1
         THEN /\ mx_owner' = [mx_owner EXCEPT ![m] = NULL]
              /\ mutexring' = [mutexring EXCEPT ![c] = Without(@, {m})]
         ELSE UNCHANGED <<mx_owner, mutexring>>

(* pth_mutex_releaseall walks the ring by the node it has just released.   *)
(* Once the first node is gone its successor is the ring's hook, which     *)
(* ends the walk; a first node that is still locked lets the walk go on to *)
(* the last one.                                                           *)
Walked(t) ==
    IF mutexring[t] = <<>> THEN {}
    ELSE IF mx_count[mutexring[t][1]] = 1 THEN {mutexring[t][1]}
    ELSE ToSet(mutexring[t])

\* By the thread itself; each mutex is released once.
pth_mutex_releaseall(t) ==
    LET W    == Walked(t)
        Gone == {m \in W : mx_count[m] = 1}
    IN  /\ mx_count' = [m \in Mutexes |-> IF m \in W THEN mx_count[m] - 1 ELSE mx_count[m]]
        /\ mx_owner' = [m \in Mutexes |-> IF m \in Gone THEN NULL ELSE mx_owner[m]]
        /\ mutexring' = [mutexring EXCEPT ![t] = Without(@, Gone)]

-----------------------------------------------------------------------------
(*                       Waiting and the scheduler                         *)

Running(c) == pth_current = c /\ waitfor[c] = {}

\* Dispatched again after a wait.
Back(c) == pth_current = c /\ waitfor[c] # {}

\* pth_wait: every event pending, then to the scheduler.
Wait(c, evs) ==
    /\ state' = [state EXCEPT ![c] = "waiting"]
    /\ waitfor' = [waitfor EXCEPT ![c] = evs]
    /\ occurred' = [occurred EXCEPT ![c] = {}]
    /\ pth_current' = NULL

\* The ring is unlinked on return.
Unlink(c) ==
    /\ waitfor' = [waitfor EXCEPT ![c] = {}]
    /\ occurred' = [occurred EXCEPT ![c] = {}]
    /\ UNCHANGED <<pth_current, state>>

pth_yield(c) ==
    /\ pth_current' = NULL
    /\ UNCHANGED <<state, waitfor, occurred>>

Die(c) ==
    /\ state' = [state EXCEPT ![c] = "dead"]
    /\ waitfor' = [waitfor EXCEPT ![c] = {}]
    /\ occurred' = [occurred EXCEPT ![c] = {}]
    /\ pth_current' = NULL

\* pth_cancel_point on return from a wait.
Cancelled(c) == cancelreq[c] /\ CancelState[c] # "disabled"

(* A signal that is not a broadcast goes to the first thread in the        *)
(* waiting queue that waits for it.                                        *)
Waiters(n) == {t \in Waiting : COND(n) \in waitfor[t]}

Signalled(n) == cn_signaled[n] /\ ~cn_broadcast[n] /\ Waiters(n) # {}

Takes(taker, t, n) == Signalled(n) /\ taker[n] = t

\* Mutants: mutexes, conditions are not looked at.
Occurs_NoMutex(ev, t, ext, taker) ==
    \/ ev = EXTRA /\ t \in ext
    \/ \E n \in Conds : /\ ev = COND(n)
                        /\ \/ cn_signaled[n] /\ cn_broadcast[n]
                           \/ Takes(taker, t, n)

Occurs_NoBroadcast(ev, t, ext, taker) ==
    \/ ev = EXTRA /\ t \in ext
    \/ \E m \in Mutexes : ev = MUTEX(m) /\ ~Locked(m)
    \/ \E n \in Conds : ev = COND(n) /\ cn_signaled[n] /\ taker[n] = t

Occurs(ev, t, ext, taker) ==
    \/ ev = EXTRA /\ t \in ext
    \/ \E m \in Mutexes : ev = MUTEX(m) /\ ~Locked(m)
    \/ \E n \in Conds : /\ ev = COND(n)
                        /\ \/ cn_signaled[n] /\ cn_broadcast[n]
                           \/ Takes(taker, t, n)

Occurring(ext, taker) ==
    [t \in Threads |-> IF t \in Waiting
                       THEN {ev \in waitfor[t] : Occurs(ev, t, ext, taker)}
                       ELSE occurred[t]]

WokenBy(occ) == {t \in Waiting : occ[t] # {} \/ cancelreq[t]}

SpentBy(occ) == {n \in Conds : \E t \in Waiting : COND(n) \in occ[t]}

(* One round: the events of every waiting thread are decided, signals that *)
(* reached a thread are cleaned, threads with an event or a request of     *)
(* cancellation become ready, and one of the ready threads is dispatched.  *)
Round(next, ext, taker) ==
    LET occ == Occurring(ext, taker)
    IN  /\ \A n \in Conds :
              IF Signalled(n) THEN taker[n] \in Waiters(n) ELSE taker[n] = NULL
        /\ next \in Ready \cup WokenBy(occ)
        /\ pth_current' = next
        /\ occurred' = occ
        /\ state' = [t \in Threads |-> IF t \in WokenBy(occ) THEN "ready" ELSE state[t]]
        /\ cn_signaled' = [n \in Conds |-> cn_signaled[n] /\ n \notin SpentBy(occ)]
        /\ cn_broadcast' = [n \in Conds |-> cn_broadcast[n] /\ n \notin SpentBy(occ)]

Schedule(next) ==
    /\ pth_current = NULL
    /\ \E ext \in SUBSET {t \in Waiting : EXTRA \in waitfor[t]},
          taker \in [Conds -> Threads \cup {NULL}] : Round(next, ext, taker)
    /\ UNCHANGED <<waitfor, cancelreq, mutexes, cn_waiters>>

=============================================================================
