------------------------------ MODULE PthMutex --------------------------------
(***************************************************************************)
(* Threads that acquire and release mutexes, recursively, with extra       *)
(* events, and that end or are cancelled while they hold some: the mutex   *)
(* part of pth/pth_sync.c with the cleanup of pth_lib.c and pth_cancel.c.  *)
(***************************************************************************)
EXTENDS PthSync

CONSTANTS
    MaxDepth,     \* recursive acquisitions this application goes up to, per mutex
    Calls         \* the calls it makes besides acquire, release and yield

ASSUME MutexAssumption ==
    /\ Conds = {}
    /\ MaxDepth \in [Mutexes -> Nat]
    /\ Calls \subseteq {"exit", "cancel", "extra"}

VARIABLE
    held    \* what the application knows to hold: its successful acquire
            \* calls without the matching release

vars == <<sched, cancelreq, mutexes, conds, held>>

Init == SyncInit /\ held = [t \in Threads |-> [m \in Mutexes |-> 0]]

-----------------------------------------------------------------------------
AcquireNow(c, m) ==
    /\ Running(c)
    /\ \/ Lock(c, m)
       \/ mx_count[m] < MaxDepth[m] /\ LockAgain(c, m)
    /\ held' = [held EXCEPT ![c][m] = @ + 1]
    /\ UNCHANGED <<sched, cancelreq, conds>>

AcquireWait(c, m) ==
    /\ Running(c)
    /\ Busy(c, m)
    /\ \E extra \in {{}} \cup (IF "extra" \in Calls THEN {{EXTRA}} ELSE {}) :
          Wait(c, {MUTEX(m)} \cup extra)
    /\ UNCHANGED <<cancelreq, mutexes, conds, held>>

\* The extra event ended the wait: EINTR.
Interrupted(c, m) == EXTRA \in waitfor[c] /\ MUTEX(m) \notin occurred[c]

AcquireInterrupted(c, m) ==
    /\ Back(c) /\ MUTEX(m) \in waitfor[c] /\ ~Cancelled(c)
    /\ Interrupted(c, m)
    /\ Unlink(c)
    /\ UNCHANGED <<cancelreq, mutexes, conds, held>>

\* Locked again before this thread was dispatched.
AcquireAgain(c, m) ==
    /\ Back(c) /\ MUTEX(m) \in waitfor[c] /\ ~Cancelled(c)
    /\ ~Interrupted(c, m)
    /\ Locked(m)
    /\ Wait(c, waitfor[c])
    /\ UNCHANGED <<cancelreq, mutexes, conds, held>>

\* Mutant: not looked at again after the wait.
AcquireDone_Unchecked(c, m) ==
    /\ Back(c) /\ MUTEX(m) \in waitfor[c] /\ ~Cancelled(c)
    /\ ~Interrupted(c, m)
    /\ mx_owner' = [mx_owner EXCEPT ![m] = c]
    /\ mx_count' = [mx_count EXCEPT ![m] = 1]
    /\ mutexring' = [mutexring EXCEPT ![c] = Append(@, m)]
    /\ Unlink(c)
    /\ held' = [held EXCEPT ![c][m] = @ + 1]
    /\ UNCHANGED <<cancelreq, conds>>

AcquireDone(c, m) ==
    /\ Back(c) /\ MUTEX(m) \in waitfor[c] /\ ~Cancelled(c)
    /\ ~Interrupted(c, m)
    /\ Lock(c, m)
    /\ Unlink(c)
    /\ held' = [held EXCEPT ![c][m] = @ + 1]
    /\ UNCHANGED <<cancelreq, conds>>

Release(c, m) ==
    /\ Running(c)
    /\ pth_mutex_release(c, m)
    /\ held' = [held EXCEPT ![c][m] = @ - 1]
    /\ UNCHANGED <<sched, cancelreq, conds>>

Yield(c) ==
    /\ Running(c)
    /\ pth_yield(c)
    /\ UNCHANGED <<cancelreq, mutexes, conds, held>>

-----------------------------------------------------------------------------
NothingHeld(t) == held' = [held EXCEPT ![t] = [m \in Mutexes |-> 0]]

\* pth_exit: the thread releases its mutexes itself.
Exit(c) ==
    /\ Die(c)
    /\ pth_mutex_releaseall(c)
    /\ NothingHeld(c)

ExitCall(c) ==
    /\ "exit" \in Calls
    /\ Running(c)
    /\ Exit(c)
    /\ UNCHANGED <<cancelreq, conds>>

CancelledInWait(c) ==
    /\ Back(c)
    /\ Cancelled(c)
    /\ Exit(c)
    /\ cancelreq' = [cancelreq EXCEPT ![c] = FALSE]
    /\ UNCHANGED conds

CancelDeferred(c, u) ==
    /\ "cancel" \in Calls
    /\ Running(c)
    /\ u \in Alive \ {c} /\ CancelState[u] # "async"
    /\ cancelreq' = [cancelreq EXCEPT ![u] = TRUE]
    /\ UNCHANGED <<sched, mutexes, conds, held>>

(* The canceller runs the cleanup, so pth_mutex_releaseall finds itself    *)
(* not to be the owner of any of the thread's mutexes.                     *)
CancelAsync(c, u) ==
    /\ "cancel" \in Calls
    /\ Running(c)
    /\ u \in Alive \ {c} /\ CancelState[u] = "async"
    /\ cancelreq' = [cancelreq EXCEPT ![u] = TRUE]
    /\ state' = [state EXCEPT ![u] = "dead"]
    /\ waitfor' = [waitfor EXCEPT ![u] = {}]
    /\ occurred' = [occurred EXCEPT ![u] = {}]
    /\ NothingHeld(u)
    /\ UNCHANGED <<pth_current, mutexes, conds>>

-----------------------------------------------------------------------------
Dispatch(t) == Schedule(t) /\ UNCHANGED held

ReturnStep(c) ==
    \/ CancelledInWait(c)
    \/ \E m \in Mutexes :
          AcquireInterrupted(c, m) \/ AcquireAgain(c, m) \/ AcquireDone(c, m)

CallStep(c) ==
    \/ \E m \in Mutexes : AcquireNow(c, m) \/ AcquireWait(c, m) \/ Release(c, m)
    \/ ExitCall(c)
    \/ \E u \in Threads : CancelDeferred(c, u) \/ CancelAsync(c, u)

Next ==
    \E c \in Threads : Dispatch(c) \/ ReturnStep(c) \/ CallStep(c) \/ Yield(c)

Spec == Init /\ [][Next]_vars

(* Threads are cooperative, and a ready thread is dispatched sooner or     *)
(* later: that is what aging is for (NoStarvation of PthSched).            *)
Fairness ==
    \A t \in Threads : /\ SF_vars(Dispatch(t))
                       /\ WF_vars(ReturnStep(t))
                       /\ WF_vars(Yield(t))

FairSpec == Spec /\ Fairness

-----------------------------------------------------------------------------
(* The ring by which a thread's mutexes are found when it ends contains    *)
(* exactly the ones it owns, each once.                                    *)
RingAgrees(t) ==
    /\ \A m \in Mutexes : (m \in ToSet(mutexring[t])) <=> (mx_owner[m] = t)
    /\ \A i, j \in DOMAIN mutexring[t] : mutexring[t][i] = mutexring[t][j] => i = j

(* Mutual exclusion, as the application sees it: a thread alive holds a    *)
(* mutex as often as the library counts for it, and so no two threads ever *)
(* hold the same one, although a mutex is not handed over but taken by     *)
(* whoever runs first after a release (pth_mutex_acquire's loop); and the  *)
(* rings of the threads, dead or alive, agree with it.                     *)
HoldersAgree ==
    /\ \A t \in Alive, m \in Mutexes :
          held[t][m] = IF mx_owner[m] = t THEN mx_count[m] ELSE 0
    /\ \A t \in Threads : RingAgrees(t)

(* A mutex that is free does not stay so while threads wait for it: the    *)
(* wake-up is not lost between the release and the wait.                   *)
WaitedFor(m) == \E t \in Waiting : MUTEX(m) \in waitfor[t]

FreeMutexTaken ==
    \A m \in Mutexes : (WaitedFor(m) /\ ~Locked(m)) ~> (Locked(m) \/ ~WaitedFor(m))

=============================================================================
