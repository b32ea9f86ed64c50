------------------------------ MODULE PthRWLock -------------------------------
(***************************************************************************)
(* The read-write lock of pth/pth_sync.c: two mutexes, a count of readers  *)
(* and the mode of the last acquisition. The first reader acquires the     *)
(* read-write mutex for all of them, the last one releases it; the reader  *)
(* mutex is held for the time that takes.                                  *)
(***************************************************************************)
EXTENDS PthSync

CONSTANTS
    rd, rw,             \* rw_mutex_rd, rw_mutex_rw
    Readers, Writers,   \* the threads that ever acquire it read-only, read-write
    Ending,             \* the threads that may call pth_exit
    Calls               \* what else this application does

ASSUME RWLockAssumption ==
    /\ Mutexes = {rd, rw} /\ rd # rw
    /\ Conds = {} /\ IsFiniteSet(Threads)
    /\ Readers \cup Writers \subseteq Threads
    /\ Ending \subseteq Threads
    /\ Calls \subseteq {"cancel", "extra"}

VARIABLES
    rw_readers, rw_mode,
    pc,     \* the call a thread is in, and the mutex it waits for there
    role,   \* what the application holds: none, RD or RW
    lost    \* the read-write mutex does not stand for all readers any more

lock == <<rw_readers, rw_mode>>
app  == <<pc, role>>
vars == <<sched, cancelreq, mutexes, conds, lock, app, lost>>

Init ==
    /\ SyncInit
    /\ rw_readers = 0 /\ rw_mode = "RD"
    /\ pc = [t \in Threads |-> "run"]
    /\ role = [t \in Threads |-> "none"]
    /\ lost = FALSE

Extras == {{}} \cup (IF "extra" \in Calls THEN {{EXTRA}} ELSE {})

Goto(c, k) == pc' = [pc EXCEPT ![c] = k]
Gets(c, r) == role' = [role EXCEPT ![c] = r]

\* Start of an acquisition, and a wait for mutex m that has come to its end.
Start(c) == Running(c) /\ role[c] = "none"

Interrupted(c, m) == EXTRA \in waitfor[c] /\ MUTEX(m) \notin occurred[c]

Through(c, k, m) ==
    /\ Back(c) /\ pc[c] = k
    /\ ~Cancelled(c) /\ ~Interrupted(c, m)

\* Control of a thread that goes on running, from the call or from its wait.
GoesOn(c) == IF Running(c) THEN UNCHANGED sched ELSE Unlink(c)

(* The thread that came first owns the read-write mutex for all readers,   *)
(* also when it has given up its own lock; a first reader that waits is    *)
(* counted already.                                                        *)
OwnsForReaders(c) ==
    \/ mx_owner[rw] = c /\ rw_mode = "RD"
    \/ pc[c] = "read_first"

-----------------------------------------------------------------------------
(*                          Read-write locking                             *)

WriteNow(c) ==
    /\ c \in Writers
    /\ Start(c) \/ Through(c, "write", rw)
    /\ IF Locked(rw) THEN LockAgain(c, rw) ELSE Lock(c, rw)
    /\ rw_mode' = "RW"
    /\ GoesOn(c)
    /\ Gets(c, "RW") /\ Goto(c, "run")
    /\ lost' = OwnsForReaders(c)
    /\ UNCHANGED <<cancelreq, conds, rw_readers>>

WriteWait(c) ==
    /\ c \in Writers
    /\ Busy(c, rw)
    /\ \/ Start(c) /\ \E extra \in Extras : Wait(c, {MUTEX(rw)} \cup extra)
       \/ Through(c, "write", rw) /\ Wait(c, waitfor[c])
    /\ Goto(c, "write")
    /\ UNCHANGED <<cancelreq, mutexes, conds, lock, role>>

-----------------------------------------------------------------------------
(*                           Read-only locking                             *)

\* Mutant: later readers do not wait for the first one to have its mutex.
ReadMay_Unlocked(c) ==
    /\ c \in Readers
    /\ Start(c) \/ Through(c, "read", rd)

\* The reader mutex is there to take: from here on the call runs through, or
\* waits as the first reader with the reader mutex held.
ReadMay(c) ==
    /\ c \in Readers
    /\ Start(c) \/ Through(c, "read", rd)
    /\ ~Locked(rd)

Read(c) ==
    /\ rw_readers' = rw_readers + 1
    /\ rw_mode' = "RD"
    /\ GoesOn(c)
    /\ Gets(c, "RD") /\ Goto(c, "run")
    /\ UNCHANGED <<cancelreq, conds>>

ReadFirst(c) ==
    /\ ReadMay(c)
    /\ rw_readers = 0
    /\ Lock(c, rw) \/ LockAgain(c, rw)
    /\ Read(c)

ReadMore(c) ==
    /\ ReadMay(c)
    /\ rw_readers # 0
    /\ Read(c)
    /\ UNCHANGED mutexes

ReadFirstWait(c) ==
    /\ ReadMay(c)
    /\ rw_readers = 0 /\ Busy(c, rw)
    /\ Lock(c, rd)
    /\ rw_readers' = 1
    /\ \E extra \in Extras : Wait(c, {MUTEX(rw)} \cup extra)
    /\ Goto(c, "read_first")
    /\ UNCHANGED <<cancelreq, conds, rw_mode, role>>

ReadFirstAgain(c) ==
    /\ Through(c, "read_first", rw)
    /\ Locked(rw)
    /\ Wait(c, waitfor[c])
    /\ UNCHANGED <<cancelreq, mutexes, conds, lock, app>>

\* The read-write mutex for the readers, and the reader mutex back.
ReadFirstDone(c) ==
    /\ Through(c, "read_first", rw)
    /\ ~Locked(rw)
    /\ mx_owner' = [mx_owner EXCEPT ![rw] = c, ![rd] = NULL]
    /\ mx_count' = [mx_count EXCEPT ![rw] = 1, ![rd] = 0]
    /\ mutexring' = [mutexring EXCEPT ![c] = Append(Without(@, {rd}), rw)]
    /\ rw_mode' = "RD"
    /\ Unlink(c)
    /\ Gets(c, "RD") /\ Goto(c, "run")
    /\ UNCHANGED <<cancelreq, conds, rw_readers>>

ReadWait(c) ==
    /\ c \in Readers
    /\ Busy(c, rd)
    /\ \/ Start(c) /\ \E extra \in Extras : Wait(c, {MUTEX(rd)} \cup extra)
       \/ Through(c, "read", rd) /\ Wait(c, waitfor[c])
    /\ Goto(c, "read")
    /\ UNCHANGED <<cancelreq, mutexes, conds, lock, role>>

\* EINTR: the first reader withdraws, any other acquisition just ends.
ReadFirstInterrupted(c) ==
    /\ Back(c) /\ pc[c] = "read_first" /\ ~Cancelled(c)
    /\ Interrupted(c, rw)
    /\ rw_readers' = rw_readers - 1
    /\ pth_mutex_release(c, rd)
    /\ Unlink(c)
    /\ Goto(c, "run")
    /\ UNCHANGED <<cancelreq, conds, rw_mode, role>>

AcquireInterrupted(c) ==
    /\ Back(c) /\ ~Cancelled(c)
    /\ \/ pc[c] = "read" /\ Interrupted(c, rd)
       \/ pc[c] = "write" /\ Interrupted(c, rw)
    /\ Unlink(c)
    /\ Goto(c, "run")
    /\ UNCHANGED <<cancelreq, mutexes, conds, lock, role>>

-----------------------------------------------------------------------------
(*                               Unlocking                                 *)

ReleaseWrite(c) ==
    /\ Running(c) /\ role[c] # "none"
    /\ rw_mode = "RW"
    /\ pth_mutex_release(c, rw)
    /\ Gets(c, "none")
    /\ UNCHANGED <<sched, cancelreq, conds, lock, pc>>

(* The reader mutex is acquired and released again in one step: nobody who *)
(* holds the lock ever finds it locked, unless the lock is lost.           *)
ReleaseReadMay(c) ==
    /\ Running(c) /\ role[c] # "none"
    /\ rw_mode = "RD"
    /\ ~Locked(rd)

ReleaseRead(c) ==
    /\ ReleaseReadMay(c)
    /\ rw_readers' = rw_readers - 1
    /\ IF rw_readers = 1 THEN pth_mutex_release(c, rw) ELSE UNCHANGED mutexes
    /\ Gets(c, "none")
    /\ UNCHANGED <<sched, cancelreq, conds, rw_mode, pc>>

\* The read-write mutex is to be released by a thread that is not its owner.
Denied(c) ==
    /\ mx_owner[rw] # c
    /\ \/ Running(c) /\ role[c] # "none" /\ rw_mode = "RW"
       \/ ReleaseReadMay(c) /\ rw_readers = 1

\* The call fails, the lock stays.
ReleaseFails(c) == Denied(c) /\ UNCHANGED vars

-----------------------------------------------------------------------------
Yield(c) ==
    /\ Running(c)
    /\ pth_yield(c)
    /\ UNCHANGED <<cancelreq, mutexes, conds, lock, app>>

Exit(c) ==
    /\ Die(c)
    /\ pth_mutex_releaseall(c)
    /\ Gets(c, "none") /\ Goto(c, "run")
    /\ lost' = OwnsForReaders(c)

\* With the lock or without it.
ExitCall(c) ==
    /\ c \in Ending
    /\ Running(c)
    /\ Exit(c)
    /\ UNCHANGED <<cancelreq, conds, lock>>

CancelledInWait(c) ==
    /\ Back(c)
    /\ Cancelled(c)
    /\ Exit(c)
    /\ cancelreq' = [cancelreq EXCEPT ![c] = FALSE]
    /\ UNCHANGED <<conds, lock>>

Cancel(c, u) ==
    /\ "cancel" \in Calls
    /\ Running(c)
    /\ u \in Alive \ {c} /\ CancelState[u] # "async"
    /\ cancelreq' = [cancelreq EXCEPT ![u] = TRUE]
    /\ UNCHANGED <<sched, mutexes, conds, lock, app>>

-----------------------------------------------------------------------------
Dispatch(t) == Schedule(t) /\ UNCHANGED <<lock, app>>

ReadStep(c) ==
    \/ ReadFirst(c) \/ ReadMore(c) \/ ReadFirstWait(c) \/ ReadFirstAgain(c)
    \/ ReadFirstDone(c) \/ ReadWait(c) \/ ReadFirstInterrupted(c)

ReleaseStep(c) ==
    \/ ReleaseWrite(c) \/ ReleaseRead(c) \/ ReleaseFails(c)

(* What the threads do once the lock is lost is beyond this model.          *)
Next ==
    \E c \in Threads :
        /\ ~lost
        /\ \/ WriteNow(c) \/ ExitCall(c) \/ CancelledInWait(c)
           \/ /\ \/ Dispatch(c) \/ Yield(c)
                 \/ WriteWait(c) \/ ReadStep(c) \/ AcquireInterrupted(c)
                 \/ ReleaseStep(c) \/ \E u \in Threads : Cancel(c, u)
              /\ UNCHANGED lost

Spec == Init /\ [][Next]_vars

-----------------------------------------------------------------------------
Has(r) == {t \in Threads : role[t] = r}

(* "When one thread holds a read-write lock, all locking attempts suspend  *)
(* the current thread until this lock is released again" (pth.pod): while  *)
(* there is a writer there is nobody else. Three things lose the lock: the *)
(* thread that owns the read-write mutex for the readers acquires it to    *)
(* write, or ends, or one ends that waits for it as the first reader. With *)
(* none of them there is no other way, whoever reads, writes, gives up or  *)
(* ends, with the lock or without.                                         *)
WriterExcludes ==
    ~lost /\ Has("RW") # {} => Cardinality(Has("RW")) = 1 /\ Has("RD") = {}

=============================================================================
