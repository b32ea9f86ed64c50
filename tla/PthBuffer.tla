------------------------------ MODULE PthBuffer -------------------------------
(***************************************************************************)
(* Condition variables in the use they are made for: producers and         *)
(* consumers that share a buffer under a mutex, a consumer awaiting the    *)
(* condition while the buffer is empty, a producer notifying it for each   *)
(* item, inside of the mutex or after leaving it. Threads are cancelled    *)
(* and waits are ended by extra events. The buffer is the application; all *)
(* the rest is pth_cond_await, pth_cond_notify, the mutex, the scheduler.  *)
(***************************************************************************)
EXTENDS PthCond

CONSTANTS
    Producers, Consumers,
    Capacity,
    Calls       \* what this application does besides

ASSUME BufferAssumption ==
    /\ Producers \cup Consumers = Threads /\ IsFiniteSet(Threads)
    /\ Producers \cap Consumers = {} /\ Consumers # {}
    /\ Capacity \in Nat \ {0}
    /\ Calls \subseteq {"extra", "cancel"}

VARIABLES
    items,      \* in the buffer
    at          \* out of the mutex, in it, or in it (put) and out of it (left)
                \* with a notification due

vars == <<sched, cancelreq, mutexes, conds, pc, items, at>>

Init ==
    /\ SyncInit
    /\ pc = [t \in Threads |-> "run"]
    /\ items = 0
    /\ at = [t \in Threads |-> "out"]

Moves(c, from, to) == at[c] = from /\ at' = [at EXCEPT ![c] = to]

-----------------------------------------------------------------------------
Enter(c) ==
    /\ AcquireNow(c) /\ ~Cancelled(c)
    /\ Moves(c, "out", "in") /\ Goto(c, "run")
    /\ UNCHANGED <<cancelreq, conds, items>>

EnterWait(c) ==
    /\ AcquireWait(c) /\ ~Cancelled(c)
    /\ at[c] = "out"
    /\ UNCHANGED <<cancelreq, mutexes, conds, items, at>>

Leave(c) ==
    /\ Running(c)
    /\ Moves(c, "in", "out") \/ Moves(c, "put", "left")
    /\ pth_mutex_release(c, mx)
    /\ UNCHANGED <<sched, cancelreq, conds, pc, items>>

Put(c) ==
    /\ Running(c) /\ c \in Producers
    /\ items < Capacity
    /\ items' = items + 1
    /\ Moves(c, "in", "put")
    /\ UNCHANGED <<sched, cancelreq, mutexes, conds, pc>>

NotifyOne(c) ==
    /\ Notify(c, FALSE)
    /\ Moves(c, "put", "in") \/ Moves(c, "left", "out")
    /\ UNCHANGED <<cancelreq, mutexes, pc, items>>

Take(c) ==
    /\ Running(c) /\ c \in Consumers
    /\ at[c] = "in" /\ items > 0
    /\ items' = items - 1
    /\ UNCHANGED <<sched, cancelreq, mutexes, conds, pc, at>>

Extras == {{}} \cup (IF "extra" \in Calls THEN {{EXTRA}} ELSE {})

AwaitItem(c) ==
    /\ Running(c) /\ c \in Consumers
    /\ at[c] = "in" /\ items = 0
    /\ ShortCircuit(c) \/ \E extra \in Extras : Await(c, extra)
    /\ UNCHANGED <<cancelreq, items, at>>

AwaitReturns(c) ==
    /\ ~Cancelled(c)
    /\ AwaitDone(c) \/ Reacquire(c)
    /\ UNCHANGED <<cancelreq, items, at>>

\* What is held by a thread that was killed has gone with it, for the client.
Cancellation(c) ==
    /\ "cancel" \in Calls
    /\ CancellationStep(c)
    /\ at' = [t \in Threads |-> IF state'[t] = "dead" THEN "out" ELSE at[t]]
    /\ UNCHANGED items

Yield(c) ==
    /\ Running(c)
    /\ pth_yield(c)
    /\ UNCHANGED <<cancelreq, mutexes, conds, pc, items, at>>

Dispatch(t) == Schedule(t) /\ UNCHANGED <<pc, items, at>>

Next ==
    \E c \in Threads :
        \/ Dispatch(c) \/ Yield(c)
        \/ Enter(c) \/ EnterWait(c) \/ Leave(c)
        \/ Put(c) \/ NotifyOne(c)
        \/ Take(c) \/ AwaitItem(c) \/ AwaitReturns(c)
        \/ Cancellation(c)

Spec == Init /\ [][Next]_vars

-----------------------------------------------------------------------------
(* "While the thread is waiting, mutex is released. Before it returns      *)
(* mutex is reacquired" (pth.pod, pth_cond_await): a thread that runs in   *)
(* the mutex as far as the client knows is the owner, any other is not,    *)
(* whatever ended its waits.                                               *)
InsideOwns ==
    \A t \in Alive :
        (pc[t] = "run" /\ at[t] \in {"in", "put"}) <=> (mx_owner[mx] = t)

(* No wake-up is lost: it never happens that there are items, nobody has a *)
(* notification to make and yet all consumers sleep. This is as long as no *)
(* consumer ends: a signal may go to one that is being cancelled.          *)
Asleep(t) == t \in Waiting /\ pc[t] = "await"

NoLostWakeup ==
    Consumers \subseteq Alive =>
        ~ /\ items > 0
          /\ ~cn_signaled[cn]
          /\ \A t \in Producers : at[t] \notin {"put", "left"}
          /\ \A t \in Consumers : Asleep(t)

=============================================================================
