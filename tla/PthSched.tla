------------------------------ MODULE PthSched -------------------------------
(***************************************************************************)
(* The scheduler of GNU Pth (pth/pth_sched.c) together with the calls by   *)
(* which threads come, go, wait, and act on one another (pth_lib.c,        *)
(* pth_cancel.c, pth_wait of pth_event.c).                                 *)
(*                                                                         *)
(* Everything runs on one kernel thread. While a Pth thread runs, each of  *)
(* its library calls is one action; a call that switches to the scheduler  *)
(* sets phase and is finished by an action of its own when the thread is   *)
(* dispatched again. The scheduler's loop is cut at its own seams:         *)
(*                                                                         *)
(*   thread -> reap -> mark -> wake* -> new* -> thread                     *)
(*                                                                         *)
(* Machine contexts, signals, stack guards, times and load are left out;   *)
(* cleanup handlers, thread data and mutexes of an ending thread are the   *)
(* subject of other modules. Timers, descriptors and signals a thread      *)
(* waits for are one event type, EXT, that may occur in any poll.          *)
(*                                                                         *)
(* The library checks no handle and counts no references: a thread may be  *)
(* reclaimed while others still join it or wait for its death. What they   *)
(* then read of its control block is left open, and the process is         *)
(* "undefined" once a join takes such a block for a dead thread's.         *)
(***************************************************************************)
EXTENDS PrioQueue

CONSTANTS
    Threads,      \* thread control blocks; each is allocated at most once
    Main,         \* pth_main
    NULL,
    PRIO_STD,     \* PTH_PRIO_STD
    Attrs,        \* attributes the application spawns threads with
    Calls         \* the library calls each thread of the application makes

CancelStates == {"deferred", "async", "disabled"}

CallNames == {"yield_to", "suspend", "resume", "cancel", "abort", "join",
              "join_any", "wait", "wait_tid", "cancel_state", "cancel_point",
              "exit", "kill", "favournew"}

ASSUME SchedAssumption ==
    /\ Main \in Threads
    /\ NULL \notin Threads
    /\ PRIO_STD \in Int /\ PRIO_STD <= PRIO_MAX
    /\ Attrs \subseteq [prio        : {p \in Int : p <= PRIO_MAX},
                       joinable    : BOOLEAN,
                       cancelstate : CancelStates]
    /\ Calls \in [Threads -> SUBSET CallNames]

VARIABLES
    NQ, RQ, WQ, SQ, DQ,   \* new, ready, waiting, suspended, dead queue
    pth_current,          \* the thread last dispatched, or NULL
    pth_favournew,        \* new threads go to the top of the ready queue
    phase,                \* where the kernel thread is, see above
    state,                \* none (not spawned) new ready waiting dead freed
    prio, joinable,       \* attributes of each thread
    cancelstate,          \* deferred, async (both enabled) or disabled
    cancelreq,            \* a cancellation request is pending
    events,               \* the event ring linked to each thread
    occurred,             \* the events of that ring that have occurred
    pc                    \* run, or the call a waiting thread is in

queues == <<NQ, RQ, WQ, SQ, DQ>>
attrs  == <<prio, joinable, cancelstate>>
ring   == <<events, occurred>>
vars   == <<queues, pth_current, pth_favournew, phase, state, attrs,
            cancelreq, ring, pc>>

-----------------------------------------------------------------------------
(* Events: an external one, the death of a thread (of any, for NULL), and  *)
(* the function event of an exiting main thread.                           *)
EXT    == [type |-> "EXT",  tid |-> NULL]
FUNC   == [type |-> "FUNC", tid |-> NULL]
TID(u) == [type |-> "TID",  tid |-> u]

Event == {EXT, FUNC} \cup {TID(u) : u \in Threads \cup {NULL}}

\* pth_exit_cb: the threads in all queues but the dead queue are one.
pth_exit_cb == Len(NQ) + Len(RQ) + Len(WQ) + Len(SQ) = 1

\* PTH_CTRL_GETTHREADS, the running thread included.
ThreadCount == Len(NQ) + Len(RQ) + Len(WQ) + Len(SQ) + Len(DQ) + 1

\* A handle the application may still pass to the library.
Valid(u) == state[u] \notin {"none", "freed"}

Enabled(t) == cancelstate[t] # "disabled"

IsDead(u) == u # NULL /\ state[u] = "dead"

\* A dying thread is kept in the dead queue for a joiner, or freed.
Bury(u, jn) ==
    /\ state' = [state EXCEPT ![u] = IF jn THEN "dead" ELSE "freed"]
    /\ DQ' = IF jn THEN Insert(DQ, PRIO_STD, u) ELSE DQ

\* Mutant: the control block is freed but stays queued.
Reclaim_StaysQueued(u) ==
    /\ state' = [state EXCEPT ![u] = "freed"]
    /\ UNCHANGED DQ

\* A dead thread leaves the dead queue and its control block is freed.
Reclaim(u) ==
    /\ DQ' = Delete(DQ, u)
    /\ state' = [state EXCEPT ![u] = "freed"]

\* The running thread is between two calls, or returning from call k.
Running(t)      == phase = "thread" /\ pth_current = t /\ pc[t] = "run"
Returning(t, k) == phase = "thread" /\ pth_current = t /\ pc[t] = k

\* u is queued where its state says (and not suspended).
InStateQueue(u) ==
    \/ state[u] = "new"     /\ u \in Members(NQ)
    \/ state[u] = "ready"   /\ u \in Members(RQ)
    \/ state[u] = "waiting" /\ u \in Members(WQ)

\* Op(q, u) applied to the queue that u's state selects, others unchanged.
OnStateQueue(Op(_, _), u) ==
    /\ NQ' = IF state[u] = "new"     THEN Op(NQ, u) ELSE NQ
    /\ RQ' = IF state[u] = "ready"   THEN Op(RQ, u) ELSE RQ
    /\ WQ' = IF state[u] = "waiting" THEN Op(WQ, u) ELSE WQ

\* Thread t is alive and waits for the death of thread u, or joins it.
Awaits(t, u) == state[t] \in {"ready", "waiting"} /\ TID(u) \in events[t]

-----------------------------------------------------------------------------
Init ==
    /\ NQ = <<>> /\ RQ = <<>> /\ WQ = <<>> /\ SQ = <<>> /\ DQ = <<>>
    /\ pth_current = Main       \* pth_init has come back from the scheduler
    /\ pth_favournew = TRUE
    /\ phase = "thread"
    /\ state = [t \in Threads |-> IF t = Main THEN "ready" ELSE "none"]
    /\ prio = [t \in Threads |-> PRIO_STD]
    /\ joinable = [t \in Threads |-> TRUE]
    /\ cancelstate = [t \in Threads |-> "deferred"]
    /\ cancelreq = [t \in Threads |-> FALSE]
    /\ events = [t \in Threads |-> {}]
    /\ occurred = [t \in Threads |-> {}]
    /\ pc = [t \in Threads |-> "run"]

-----------------------------------------------------------------------------
(*                      Calls of the running thread                        *)

\* PTH_ATTR_DEFAULT: the new thread takes after the one that spawns it.
Inherited(c) == [prio |-> prio[c], joinable |-> joinable[c],
                 cancelstate |-> cancelstate[c]]

pth_spawn(c, u, attr) ==
    /\ Running(c)
    /\ state[u] = "none"
    /\ state' = [state EXCEPT ![u] = "new"]
    /\ prio' = [prio EXCEPT ![u] = attr.prio]
    /\ joinable' = [joinable EXCEPT ![u] = attr.joinable]
    /\ cancelstate' = [cancelstate EXCEPT ![u] = attr.cancelstate]
    /\ NQ' = Insert(NQ, attr.prio, u)
    /\ UNCHANGED <<RQ, WQ, SQ, DQ, pth_current, pth_favournew, phase,
                   cancelreq, ring, pc>>

pth_yield(c) ==
    /\ Running(c)
    /\ phase' = "reap"
    /\ UNCHANGED <<queues, pth_current, pth_favournew, state, attrs,
                   cancelreq, ring, pc>>

\* pth_yield with a thread to favour; one that is not queued is an error.
pth_yield_to(c, u) ==
    /\ "yield_to" \in Calls[c]
    /\ Running(c)
    /\ state[u] \in {"new", "ready"}
    /\ InStateQueue(u)
    /\ OnStateQueue(Favorite, u)
    /\ phase' = "reap"
    /\ UNCHANGED <<SQ, DQ, pth_current, pth_favournew, state, attrs,
                   cancelreq, ring, pc>>

pth_suspend(c, u) ==
    /\ "suspend" \in Calls[c]
    /\ Running(c)
    /\ u # c
    /\ InStateQueue(u)
    /\ OnStateQueue(Delete, u)
    /\ SQ' = Insert(SQ, PRIO_STD, u)
    /\ UNCHANGED <<DQ, pth_current, pth_favournew, phase, state, attrs,
                   cancelreq, ring, pc>>

Requeue(q, u) == Insert(q, PRIO_STD, u)

pth_resume(c, u) ==
    /\ "resume" \in Calls[c]
    /\ Running(c)
    /\ u # c
    /\ u \in Members(SQ)
    /\ SQ' = Delete(SQ, u)
    /\ OnStateQueue(Requeue, u)
    /\ UNCHANGED <<DQ, pth_current, pth_favournew, phase, state, attrs,
                   cancelreq, ring, pc>>

\* pth_ctrl(PTH_CTRL_FAVOURNEW, FALSE) and back.
pth_ctrl_favournew(c) ==
    /\ "favournew" \in Calls[c]
    /\ Running(c)
    /\ pth_favournew' = ~pth_favournew
    /\ UNCHANGED <<queues, pth_current, phase, state, attrs, cancelreq, ring,
                   pc>>

pth_cancel_state(c, new) ==
    /\ "cancel_state" \in Calls[c]
    /\ Running(c)
    /\ cancelstate' = [cancelstate EXCEPT ![c] = new]
    /\ UNCHANGED <<queues, pth_current, pth_favournew, phase, state, prio,
                   joinable, cancelreq, ring, pc>>

(* The common end of pth_cancel and pth_abort, for thread u with the       *)
(* cancellation state cs and the join type jn it then has: the request is  *)
(* recorded, and an asynchronous one takes a queued thread out at once.    *)
CancelThread(u, cs, jn) ==
    /\ cancelreq' = [cancelreq EXCEPT ![u] = TRUE]
    /\ IF cs = "async" /\ InStateQueue(u)
         THEN /\ OnStateQueue(Delete, u)
              /\ Bury(u, jn)
         ELSE UNCHANGED <<NQ, RQ, WQ, DQ, state>>
    /\ UNCHANGED <<SQ, pth_current, pth_favournew, phase, prio, ring, pc>>

pth_cancel(c, u) ==
    /\ "cancel" \in Calls[c]
    /\ Running(c)
    /\ u # c /\ Valid(u) /\ state[u] # "dead"
    /\ CancelThread(u, cancelstate[u], joinable[u])
    /\ UNCHANGED <<joinable, cancelstate>>

(* A dead thread is joined, any other one is detached, made cancellable    *)
(* and cancelled, whoever joins it.                                        *)
pth_abort(c, u) ==
    /\ "abort" \in Calls[c]
    /\ Running(c)
    /\ u # c /\ Valid(u)
    /\ IF IsDead(u) /\ joinable[u]
         THEN /\ Reclaim(u)
              /\ UNCHANGED <<NQ, RQ, WQ, SQ, pth_current, pth_favournew, phase,
                             attrs, cancelreq, ring, pc>>
         ELSE /\ joinable' = [joinable EXCEPT ![u] = FALSE]
              /\ cancelstate' = [cancelstate EXCEPT ![u] = "async"]
              /\ CancelThread(u, "async", FALSE)

-----------------------------------------------------------------------------
(*                         Waiting and joining                             *)

\* pth_wait up to the switch: every event pending, the ring linked.
Block(c, evs, k) ==
    /\ events' = [events EXCEPT ![c] = evs]
    /\ occurred' = [occurred EXCEPT ![c] = {}]
    /\ state' = [state EXCEPT ![c] = "waiting"]
    /\ pc' = [pc EXCEPT ![c] = k]
    /\ phase' = "reap"
    /\ UNCHANGED <<queues, pth_current, pth_favournew, attrs>>

pth_wait(c) ==
    /\ "wait" \in Calls[c]
    /\ Running(c)
    /\ Block(c, {EXT}, "wait")
    /\ UNCHANGED cancelreq

\* An external event or the death of u, whichever comes first.
pth_wait_tid(c, u) ==
    /\ "wait_tid" \in Calls[c]
    /\ Running(c)
    /\ Valid(u)
    /\ Block(c, {EXT, TID(u)}, "wait")
    /\ UNCHANGED cancelreq

\* The dead thread a join call takes: tid itself, or the first dead one.
Joinee(tid) == IF tid # NULL THEN tid
               ELSE IF DQ = <<>> THEN NULL ELSE DQ[1].th

\* What pth_join asks for; whether somebody else joins tid is not looked at.
MayJoin(c, tid) ==
    /\ Running(c)
    /\ (IF tid = NULL THEN "join_any" ELSE "join") \in Calls[c]
    /\ tid # c
    /\ tid # NULL => Valid(tid) /\ joinable[tid]
    /\ ThreadCount # 1

pth_join_dead(c, tid) ==
    /\ MayJoin(c, tid)
    /\ IsDead(Joinee(tid))
    /\ Reclaim(Joinee(tid))
    /\ UNCHANGED <<NQ, RQ, WQ, SQ, pth_current, pth_favournew, phase, attrs,
                   cancelreq, ring, pc>>

pth_join_wait(c, tid) ==
    /\ MayJoin(c, tid)
    /\ ~IsDead(Joinee(tid))
    /\ Block(c, {TID(tid)}, "join")
    /\ UNCHANGED cancelreq

-----------------------------------------------------------------------------
(*                              Termination                                *)

\* Mutant: the dead queue is not drained.
pth_kill_LeavesDead ==
    /\ NQ' = <<>> /\ RQ' = <<>> /\ WQ' = <<>> /\ SQ' = <<>>
    /\ state' = [t \in Threads |->
                   IF Valid(t) /\ state[t] # "dead" THEN "freed" ELSE state[t]]
    /\ UNCHANGED <<DQ, pth_current, pth_favournew, attrs, ring>>

\* pth_kill: every thread of every queue is freed, and the program goes on
\* without Pth, or exits.
pth_kill ==
    /\ NQ' = <<>> /\ RQ' = <<>> /\ WQ' = <<>> /\ SQ' = <<>> /\ DQ' = <<>>
    /\ state' = [t \in Threads |-> IF Valid(t) THEN "freed" ELSE state[t]]
    /\ UNCHANGED <<pth_current, pth_favournew, attrs, ring>>

\* pth_exit after the wait of the main thread, if any.
Terminate(c) ==
    IF c = Main
    THEN /\ pth_kill
         /\ phase' = "exited"
         /\ pc' = [pc EXCEPT ![c] = "run"]
    ELSE /\ state' = [state EXCEPT ![c] = "dead"]
         /\ phase' = "reap"
         /\ pc' = [pc EXCEPT ![c] = "run"]
         /\ UNCHANGED <<queues, pth_current, pth_favournew, attrs, ring>>

\* pth_exit: the main thread first waits until it is the last one.
Exit(c) ==
    IF c = Main /\ ~pth_exit_cb
    THEN Block(c, {FUNC}, "exit")
    ELSE Terminate(c)

pth_exit(c) ==
    /\ "exit" \in Calls[c]
    /\ Running(c)
    /\ Exit(c)
    /\ UNCHANGED cancelreq

pth_kill_call(c) ==
    /\ "kill" \in Calls[c]
    /\ Running(c)
    /\ c = Main
    /\ pth_kill
    /\ phase' = "killed"
    /\ UNCHANGED <<cancelreq, pc>>

\* pth_cancel_point, explicit or on return from a wait.
Cancelled(c) == cancelreq[c] /\ Enabled(c)

CancelExit(c) ==
    /\ Cancelled(c)
    /\ cancelreq' = [cancelreq EXCEPT ![c] = FALSE]
    /\ Exit(c)

pth_cancel_point(c) ==
    /\ "cancel_point" \in Calls[c]
    /\ Running(c)
    /\ CancelExit(c)

-----------------------------------------------------------------------------
(*                  Returning from a wait, when dispatched                 *)

WaitCancelled(c) ==
    /\ \E k \in {"wait", "join", "exit"} : Returning(c, k)
    /\ CancelExit(c)

Unlinked(c) ==
    /\ events' = [events EXCEPT ![c] = {}]
    /\ occurred' = [occurred EXCEPT ![c] = {}]
    /\ pc' = [pc EXCEPT ![c] = "run"]

WaitReturns(c) ==
    /\ Returning(c, "wait")
    /\ ~Cancelled(c)
    /\ Unlinked(c)
    /\ UNCHANGED <<queues, pth_current, pth_favournew, phase, state, attrs,
                   cancelreq>>

\* The joined thread is reclaimed if it is dead, else the join fails (EIO).
JoinReturns(c) ==
    LET tid == CHOOSE u \in Threads \cup {NULL} : TID(u) \in events[c]
        u   == Joinee(tid)
    IN  /\ Returning(c, "join")
        /\ ~Cancelled(c)
        /\ tid # NULL => state[tid] # "freed"
        /\ IF IsDead(u) THEN Reclaim(u) ELSE UNCHANGED <<DQ, state>>
        /\ Unlinked(c)
        /\ UNCHANGED <<NQ, RQ, WQ, SQ, pth_current, pth_favournew, phase,
                       attrs, cancelreq>>

(* The control block of the joined thread has been freed in between: the   *)
(* join fails if what it reads there is not the state of a dead thread,    *)
(* else it unlinks and frees the block once more.                          *)
JoinReturnsStale(c) ==
    /\ Returning(c, "join")
    /\ ~Cancelled(c)
    /\ \E u \in Threads : TID(u) \in events[c] /\ state[u] = "freed"
    /\ phase' \in {"thread", "undefined"}
    /\ Unlinked(c)
    /\ UNCHANGED <<queues, pth_current, pth_favournew, state, attrs,
                   cancelreq>>

ExitReturns(c) ==
    /\ Returning(c, "exit")
    /\ ~Cancelled(c)
    /\ Terminate(c)
    /\ UNCHANGED cancelreq

-----------------------------------------------------------------------------
(*                        The scheduler's loop                             *)

(* After the switch back: a dead thread goes to the dead queue or is       *)
(* freed, a waiting one to the waiting queue, any other one back to the    *)
(* ready queue, whose threads have aged in between.                        *)
Reap ==
    LET c == pth_current IN
    /\ phase = "reap"
    /\ phase' = "mark"
    /\ \/ /\ state[c] = "dead"
          /\ Bury(c, joinable[c])
          /\ pth_current' = NULL
          /\ RQ' = Increase(RQ)
          /\ UNCHANGED WQ
       \/ /\ state[c] = "waiting"
          /\ WQ' = Insert(WQ, prio[c], c)
          /\ pth_current' = NULL
          /\ RQ' = Increase(RQ)
          /\ UNCHANGED <<DQ, state>>
       \/ /\ state[c] = "ready"
          /\ RQ' = Insert(Increase(RQ), prio[c], c)
          /\ UNCHANGED <<WQ, DQ, state, pth_current>>
    /\ UNCHANGED <<NQ, SQ, pth_favournew, attrs, cancelreq, ring, pc>>

\* Mutants of Occurs: the thread an event names is not looked at; only the
\* event for any thread is decided.
Occurs_AnyDead(ev) ==
    \/ ev.type = "TID" /\ DQ # <<>>
    \/ ev.type = "FUNC" /\ pth_exit_cb

Occurs_NoTid(ev) ==
    \/ ev.type = "TID" /\ ev.tid = NULL /\ DQ # <<>>
    \/ ev.type = "FUNC" /\ pth_exit_cb

(* Event manager, first loop: the events decided by the library's own      *)
(* state. Events of threads outside the waiting queue are not looked at.   *)
Occurs(ev) ==
    \/ ev.type = "TID" /\ ev.tid = NULL /\ DQ # <<>>
    \/ ev.type = "TID" /\ IsDead(ev.tid)
    \/ ev.type = "FUNC" /\ pth_exit_cb

\* Mutant: function events are not evaluated in the first loop.
Found_NoFunction(t) == {ev \in events[t] : Occurs(ev) /\ ev.type # "FUNC"}

Found(t) == {ev \in events[t] : Occurs(ev)}

AnyOccurred == \E t \in Members(WQ) : cancelreq[t] \/ Found(t) # {}

\* Mutant: the event manager never blocks.
PollReturns_Always(seen) == TRUE

(* pth_exit leaves the recheck period of its function event to chance: the *)
(* arguments pth_event takes it from are not passed. While the event is    *)
(* pending and nothing else goes on, select(2) may refuse that timeout.    *)
TimeoutRefused == \E t \in Members(WQ) : FUNC \in events[t]

PollReturns(seen) ==
    seen # {} \/ RQ # <<>> \/ NQ # <<>> \/ AnyOccurred \/ TimeoutRefused

\* Threads that are waited for, the control blocks of which are freed.
Stale == {u \in Threads :
             state[u] = "freed" /\ \E t \in Members(WQ) : TID(u) \in events[t]}

\* What the event manager notes for t: what has occurred, the external event,
\* and freed control blocks that still read as those of dead threads.
Noted(t, ext, stale) ==
    Found(t) \cup (IF t \in ext THEN {EXT} ELSE {})
             \cup {ev \in events[t] : ev.type = "TID" /\ ev.tid \in stale}

(* ... then select(2), which returns the external events of the threads in *)
(* ext; it blocks until there is one unless there is something else to do. *)
Mark ==
    /\ phase = "mark"
    /\ \E ext \in SUBSET {t \in Members(WQ) : EXT \in events[t]},
          stale \in SUBSET Stale :
          /\ PollReturns(ext \cup stale)
          /\ occurred' = [t \in Threads |->
                IF t \in Members(WQ) THEN Noted(t, ext, stale)
                                     ELSE occurred[t]]
    /\ phase' = "wake"
    /\ UNCHANGED <<queues, pth_current, pth_favournew, state, attrs,
                   cancelreq, events, pc>>

\* Mutant: a cancellation request does not wake.
Wakes_EventsOnly(t) == occurred[t] # {}

\* Event manager, second loop, in queue order: threads with an occurred event
\* or a cancellation request become ready, one priority step up.
Wakes(t) == occurred[t] # {} \/ cancelreq[t]

Wake ==
    /\ phase = "wake"
    /\ \E i \in DOMAIN WQ :
          LET t == WQ[i].th IN
          /\ Wakes(t)
          /\ \A j \in 1 .. i-1 : ~Wakes(WQ[j].th)
          /\ WQ' = Delete(WQ, t)
          /\ RQ' = Insert(RQ, prio[t] + 1, t)
          /\ state' = [state EXCEPT ![t] = "ready"]
    /\ UNCHANGED <<NQ, SQ, DQ, pth_current, pth_favournew, phase, attrs,
                   cancelreq, ring, pc>>

WakeDone ==
    /\ phase = "wake"
    /\ \A t \in Members(WQ) : ~Wakes(t)
    /\ phase' = "new"
    /\ UNCHANGED <<queues, pth_current, pth_favournew, state, attrs,
                   cancelreq, ring, pc>>

NextNew == NQ[Len(NQ)].th

\* Top of the loop: new threads become ready, the last of the queue first.
Admit ==
    /\ phase = "new"
    /\ NQ # <<>>
    /\ LET t == NextNew IN
          /\ NQ' = Delete(NQ, t)
          /\ RQ' = IF pth_favournew THEN PushFavorite(RQ, t)
                                    ELSE Insert(RQ, PRIO_STD, t)
          /\ state' = [state EXCEPT ![t] = "ready"]
    /\ UNCHANGED <<WQ, SQ, DQ, pth_current, pth_favournew, phase, attrs,
                   cancelreq, ring, pc>>

Dispatch ==
    /\ phase = "new"
    /\ NQ = <<>>
    /\ RQ # <<>>
    /\ pth_current' = RQ[1].th
    /\ RQ' = Tail(RQ)
    /\ phase' = "thread"
    /\ UNCHANGED <<NQ, WQ, SQ, DQ, pth_favournew, state, attrs, cancelreq,
                   ring, pc>>

\* "no more thread(s) available to schedule!?!?": the process aborts.
Abort ==
    /\ phase = "new"
    /\ NQ = <<>>
    /\ RQ = <<>>
    /\ phase' = "aborted"
    /\ UNCHANGED <<queues, pth_current, pth_favournew, state, attrs,
                   cancelreq, ring, pc>>

-----------------------------------------------------------------------------
SchedulerStep ==
    Reap \/ Mark \/ Wake \/ WakeDone \/ Admit \/ Dispatch \/ Abort

ReturnStep ==
    \E c \in Threads :
        \/ WaitCancelled(c) \/ WaitReturns(c) \/ ExitReturns(c)
        \/ JoinReturns(c) \/ JoinReturnsStale(c)

GiveUpStep ==
    \E c \in Threads :
        \/ pth_yield(c) \/ pth_wait(c) \/ pth_exit(c) \/ pth_cancel_point(c)
        \/ \E u \in Threads : pth_yield_to(c, u) \/ pth_wait_tid(c, u)
        \/ \E tid \in Threads \cup {NULL} : pth_join_wait(c, tid)

CallStep ==
    \E c \in Threads :
        \/ \E u \in Threads :
              \/ \E attr \in Attrs \cup {Inherited(c)} : pth_spawn(c, u, attr)
              \/ pth_suspend(c, u)
              \/ pth_resume(c, u)
              \/ pth_cancel(c, u)
              \/ pth_abort(c, u)
        \/ \E tid \in Threads \cup {NULL} : pth_join_dead(c, tid)
        \/ \E new \in CancelStates : pth_cancel_state(c, new)
        \/ pth_ctrl_favournew(c)
        \/ pth_kill_call(c)

Next == SchedulerStep \/ ReturnStep \/ GiveUpStep \/ CallStep

Spec == Init /\ [][Next]_vars

(* The scheduler always goes on, and threads are cooperative: one that     *)
(* runs comes back from its wait and sooner or later gives up control.     *)
Fairness ==
    WF_vars(SchedulerStep) /\ WF_vars(ReturnStep) /\ WF_vars(GiveUpStep)

FairSpec == Spec /\ Fairness

-----------------------------------------------------------------------------
(*                             Properties                                  *)

\* The thread that is outside all queues: the one that has the processor.
OnCPU == IF phase \in {"thread", "reap", "undefined"} THEN {pth_current} ELSE {}

(* Types. A thread that is dispatched, or that just came back to the       *)
(* scheduler, is always known: pth_current is never NULL there.            *)
TypeOK ==
    /\ \A q \in {NQ, RQ, WQ, SQ, DQ} : q \in Seq(Entry(Threads))
    /\ pth_current \in Threads \cup {NULL}
    /\ pth_favournew \in BOOLEAN
    /\ phase \in {"thread", "reap", "mark", "wake", "new", "exited", "killed",
                "aborted", "undefined"}
    /\ state \in [Threads -> {"none", "new", "ready", "waiting", "dead", "freed"}]
    /\ prio \in [Threads -> {p \in Int : p <= PRIO_MAX}]
    /\ joinable \in [Threads -> BOOLEAN]
    /\ cancelstate \in [Threads -> CancelStates]
    /\ cancelreq \in [Threads -> BOOLEAN]
    /\ events \in [Threads -> SUBSET Event]
    /\ occurred \in [Threads -> SUBSET Event]
    /\ pc \in [Threads -> {"run", "wait", "join", "exit"}]
    /\ OnCPU \subseteq Threads

Queued == Members(NQ) \cup Members(RQ) \cup Members(WQ) \cup Members(SQ)
              \cup Members(DQ)

\* Queues hold no thread twice.
QueuesDistinct == \A q \in {NQ, RQ, WQ, SQ, DQ} : Distinct(q)

\* A queued thread is in the state its queue stands for; a suspended thread
\* keeps the state it is to be resumed in and is in no other queue.
QueuesMatchStates ==
    \A t \in Threads :
        /\ t \in Members(NQ) => state[t] = "new"
        /\ t \in Members(RQ) => state[t] = "ready"
        /\ t \in Members(WQ) => state[t] = "waiting"
        /\ t \in Members(DQ) => state[t] = "dead" /\ joinable[t]
        /\ t \in Members(SQ) => /\ state[t] \in {"new", "ready", "waiting"}
                               /\ ~InStateQueue(t)

\* Every thread that is alive or waits to be joined is in a queue or running,
\* and the running one is in no queue.
NoThreadLost == \A t \in Threads : Valid(t) <=> t \in OnCPU \cup Queued

RunningIsUnqueued == OnCPU \cap Queued = {}

(* Whatever threads do to one another by cancelling, aborting, suspending, *)
(* resuming, joining and yielding, and however that meets the moves of the *)
(* scheduler, each thread has exactly one place: pth_sched.c, pth_lib.c    *)
(* and pth_cancel.c move control blocks between five queues by hand.       *)
EachThreadInItsPlace ==
    /\ QueuesDistinct
    /\ QueuesMatchStates
    /\ NoThreadLost
    /\ RunningIsUnqueued

(* The abstract view: a thread counts as running until the scheduler has   *)
(* put it away, whatever its state field says already.                     *)
LifeOf(t) ==
    IF t \in OnCPU THEN "running"
    ELSE IF state[t] = "freed" THEN "gone" ELSE state[t]

Life == INSTANCE ThreadLife WITH
            life      <- [t \in Threads |-> LifeOf(t)],
            suspended <- Members(SQ)

(* Refinement: every step of the scheduler and of a library call is a      *)
(* legal move of one thread, or no move.                                   *)
ImplementsThreadLife == Life!Spec

(* The scheduler does not come to its "no more thread(s) available" abort  *)
(* while no main thread waits in pth_exit: the event manager blocks until  *)
(* it can hand over somebody to run, and what makes it go on is not gone   *)
(* again when the threads are moved.                                       *)
SchedulerFindsThread ==
    phase = "new" /\ NQ = <<>> /\ RQ = <<>> => TimeoutRefused

(* When the event manager is through, no thread it looked at is left       *)
(* waiting for something that has already happened: the two loops agree,   *)
(* and what the second one moves does not make the first one's view stale. *)
NoMissedEvent ==
    phase = "new" =>
        \A t \in Members(WQ) : ~cancelreq[t] /\ \A ev \in events[t] : ~Occurs(ev)

\* The control block of a thread that t awaits goes away under its feet.
Dangles(t, u) ==
    /\ Awaits(t, u) /\ state[u] # "freed"
    /\ Awaits(t, u)' /\ state'[u] = "freed"

(* A thread that is waited for or joined goes away before the waiting one  *)
(* has seen it only if it cannot be joined (any more), or if a third one   *)
(* has collected it when it was dead: it is never the scheduler, the end   *)
(* of the thread itself or a cancellation request that frees it.           *)
DanglesByAnother ==
    [][\A t, u \in Threads : Dangles(t, u) =>
          \/ ~joinable'[u]
          \/ /\ state[u] = "dead"
             /\ phase = "thread" /\ pth_current \notin {t, u}]_vars

(* pth_join comes back only after its thread is dead: "it first suspends   *)
(* the current thread until the tid thread has terminated" (pth.pod).      *)
(* Whatever else happens to either of them, with one exception: a          *)
(* cancellation request wakes the joining thread, and pth_join fails       *)
(* unless the thread heeds it. The joined thread is kept until then, but   *)
(* for the cases DanglesByAnother names.                                   *)
JoinWaitsForDeath ==
    /\ DanglesByAnother
    /\ [][\A c \in Threads :
             Returning(c, "join") /\ pc'[c] = "run" /\ ~cancelreq[c] =>
                \A u \in Threads :
                   TID(u) \in events[c] => state[u] \in {"dead", "freed"}]_vars

\* Threads hand the processor to threads of their choice for ever.
DirectedYield  == \E c, u \in Threads : pth_yield_to(c, u)
DirectsForEver == []<><<DirectedYield>>_vars

\* A join has taken a freed control block for a dead thread's.
Undefined == phase = "undefined"

(* Aging prevents a ready thread from starving behind threads of a higher  *)
(* priority (pth.pod: the scheduler increases the priority of all          *)
(* remaining threads to prevent them from starving). Threads that go on    *)
(* for ever to hand the processor to one another by directed yields stay   *)
(* ahead of it: pth_pqueue_favorite puts them on top at any time.          *)
NoStarvation ==
    DirectsForEver \/
    \A t \in Threads : (t \in Members(RQ)) ~> (t \notin Members(RQ) \/ Undefined)

(* A cancellation request reaches a thread that waits and has cancellation *)
(* enabled, and it ends there, unless it is suspended before: it never     *)
(* returns into the application.                                           *)
CancelTakesEffect ==
    DirectsForEver \/
    \A t \in Threads \ {Main} :
        (t \in Members(WQ) /\ cancelreq[t] /\ Enabled(t))
            ~> (state[t] \in {"dead", "freed"} \/ t \in Members(SQ) \/ Undefined)

(* A thread that has died releases one joining it, unless another one      *)
(* collects it first (see DanglesByAnother), or the joining one is         *)
(* cancelled or suspended or the process ends before.                      *)
JoinCompletes ==
    DirectsForEver \/
    \A c, u \in Threads :
        (pc[c] = "join" /\ TID(u) \in events[c] /\ IsDead(u))
            ~> \/ pc[c] # "join" \/ state[c] \in {"dead", "freed"}
               \/ c \in Members(SQ) \/ ~IsDead(u) \/ Undefined

=============================================================================
