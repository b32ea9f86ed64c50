------------------------------- MODULE CoSched --------------------------------
(***************************************************************************)
(* The schedulers of the coroutine library (co/src/co_sched.cpp). Each is  *)
(* a thread of its own with a queue RQ of coroutines ready to run and a    *)
(* list of events under a lock. co_create_co, called by any thread and by  *)
(* the coroutines, picks the schedulers in turn and appends an event to    *)
(* the list of the one it picked.                                          *)
(*                                                                         *)
(* A stay in the lock is one action, and so is each access to the shared   *)
(* next_sched_idx, which no lock protects. All events are of type          *)
(* CO_EVENT_NEW_CO, so an event is its coroutine; the machine context and  *)
(* the list of events it is given are left out. ev_occurred_cnt and an     *)
(* event's ev_next are never initialised: nothing of their size is ever    *)
(* freed, so malloc hands out fresh memory and both begin as 0.            *)
(***************************************************************************)
EXTENDS PrioQueue

CONSTANTS
    NumOfSched,   \* num_of_sched
    Coroutines,   \* those that are ever created
    Outside,      \* the threads outside that create coroutines
    NoCo          \* the null pointer

ASSUME SchedAssumption ==
    NumOfSched \in Nat \ {0} /\ IsFiniteSet(Coroutines) /\ IsFiniteSet(Outside)

Scheds == 0 .. NumOfSched - 1
CO_PRIO_STD == 0

VARIABLES
    g_co_sched_list,    \* the schedulers that have entered themselves
    next_sched_idx,
    ev_queue, ev_occurred_cnt, RQ, co_current,  \* of each scheduler
    ev_taken,           \* the events its event manager took off the list
    pc,                 \* where it is
    creating,           \* of each caller of co_create_co: where it is
    ordered, started    \* history: what a scheduler was given, what it ran

queues == <<ev_queue, ev_occurred_cnt, RQ, ev_taken>>
coVars == <<g_co_sched_list, next_sched_idx, queues, co_current, pc, creating, ordered, started>>

Callers == Outside \cup Scheds    \* a scheduler's current coroutine calls too
Idle == [at |-> "idle", sched |-> 0, idx |-> 0]

CoInit ==
    /\ g_co_sched_list = {} /\ next_sched_idx = 0
    /\ ev_queue = [s \in Scheds |-> <<>>]
    /\ ev_occurred_cnt = [s \in Scheds |-> 0]
    /\ RQ = [s \in Scheds |-> <<>>]
    /\ co_current = [s \in Scheds |-> NoCo]
    /\ ev_taken = [s \in Scheds |-> <<>>]
    /\ pc = [s \in Scheds |-> "create"]
    /\ creating = [c \in Callers |-> Idle]
    /\ ordered = [s \in Scheds |-> <<>>]
    /\ started = [s \in Scheds |-> <<>>]

GoTo(s, label) == pc' = [pc EXCEPT ![s] = label]

-----------------------------------------------------------------------------
(* co_create_co: the scheduler is read, the index advanced, and the event  *)
(* is appended, counted and signalled under the lock. It must not be       *)
(* called before the schedulers are in the list: the library's test sleeps *)
(* a second for that.                                                      *)
Created == UNION {Range(ordered[s]) : s \in Scheds}
Calling(c) == c \in Scheds => pc[c] = "running"
Called == {c \in Callers : creating[c].at # "idle"}
Allocated == CHOOSE t \in Coroutines : t \notin Created

PickScheduler(c) ==
    /\ Calling(c) /\ creating[c].at = "idle"
    /\ g_co_sched_list = Scheds
    /\ Cardinality(Created) + Cardinality(Called) < Cardinality(Coroutines)
    /\ creating' = [creating EXCEPT ![c] =
                   [at |-> "picked", sched |-> next_sched_idx, idx |-> next_sched_idx]]
    /\ UNCHANGED <<g_co_sched_list, next_sched_idx, queues, co_current, pc, ordered, started>>

ReadIndex(c) ==
    /\ creating[c].at = "picked"
    /\ creating' = [creating EXCEPT ![c].at = "read", ![c].idx = next_sched_idx]
    /\ UNCHANGED <<g_co_sched_list, next_sched_idx, queues, co_current, pc, ordered, started>>

AdvanceIndex(c) ==
    /\ creating[c].at = "read"
    /\ next_sched_idx' = (creating[c].idx + 1) % NumOfSched
    /\ creating' = [creating EXCEPT ![c].at = "advanced"]
    /\ UNCHANGED <<g_co_sched_list, queues, co_current, pc, ordered, started>>

\* Mutant: no signal.
PostEvent_Silent(c) ==
    LET s == creating[c].sched
        t == Allocated IN
    /\ creating[c].at = "advanced"
    /\ ev_queue' = [ev_queue EXCEPT ![s] = Append(@, t)]
    /\ ev_occurred_cnt' = [ev_occurred_cnt EXCEPT ![s] = @ + 1]
    /\ ordered' = [ordered EXCEPT ![s] = Append(@, t)]
    /\ creating' = [creating EXCEPT ![c] = Idle]
    /\ UNCHANGED <<g_co_sched_list, next_sched_idx, RQ, ev_taken, pc, co_current, started>>

PostEvent(c) ==
    LET s == creating[c].sched
        t == Allocated IN
    /\ creating[c].at = "advanced"
    /\ ev_queue' = [ev_queue EXCEPT ![s] = Append(@, t)]
    /\ ev_occurred_cnt' = [ev_occurred_cnt EXCEPT ![s] = @ + 1]
    /\ IF pc[s] = "asleep" THEN GoTo(s, "wait") ELSE pc' = pc
    /\ ordered' = [ordered EXCEPT ![s] = Append(@, t)]
    /\ creating' = [creating EXCEPT ![c] = Idle]
    /\ UNCHANGED <<g_co_sched_list, next_sched_idx, RQ, ev_taken, co_current, started>>

co_create_co(c) ==
    PickScheduler(c) \/ ReadIndex(c) \/ AdvanceIndex(c) \/ PostEvent(c)

-----------------------------------------------------------------------------
(* A scheduler's thread enters its scheduler into the list.                *)
_lunch_sched(s) ==
    /\ pc[s] = "create"
    /\ g_co_sched_list' = g_co_sched_list \cup {s}
    /\ GoTo(s, "schedule")
    /\ UNCHANGED <<next_sched_idx, queues, co_current, creating, ordered, started>>

(* The first coroutine of RQ runs, until its function returns and uc_link  *)
(* brings the thread back here.                                            *)
co_schedule_loop(s) ==
    /\ pc[s] = "schedule"
    /\ IF RQ[s] = <<>>
       THEN /\ co_current' = [co_current EXCEPT ![s] = NoCo]
            /\ GoTo(s, "wait") /\ UNCHANGED <<RQ, started>>
       ELSE /\ co_current' = [co_current EXCEPT ![s] = RQ[s][1].th]
            /\ RQ' = [RQ EXCEPT ![s] = Tail(@)]
            /\ started' = [started EXCEPT ![s] = Append(@, RQ[s][1].th)]
            /\ GoTo(s, "running")
    /\ UNCHANGED <<g_co_sched_list, next_sched_idx, ev_queue, ev_occurred_cnt, ev_taken, creating, ordered>>

_co_coroutine_start(s) ==
    /\ pc[s] = "running" /\ creating[s].at = "idle"
    /\ GoTo(s, IF RQ[s] = <<>> THEN "wait" ELSE "poll")
    /\ UNCHANGED <<g_co_sched_list, next_sched_idx, queues, co_current, creating, ordered, started>>

(* The event manager takes the whole list: when it polls, if an event is   *)
(* counted; when it waits, as soon as one is.                              *)
Counted(s) == ev_occurred_cnt[s] > 0
TakeEvents(s) ==
    /\ ev_taken' = [ev_taken EXCEPT ![s] = ev_queue[s]]
    /\ ev_queue' = [ev_queue EXCEPT ![s] = <<>>]

PollEvents(s) ==
    /\ pc[s] = "poll"
    /\ IF Counted(s) THEN TakeEvents(s) ELSE UNCHANGED <<ev_taken, ev_queue>>
    /\ GoTo(s, "events")
    /\ UNCHANGED <<g_co_sched_list, next_sched_idx, ev_occurred_cnt, RQ, co_current, creating, ordered, started>>

WaitForEvents(s) ==
    /\ pc[s] = "wait"
    /\ IF Counted(s) THEN TakeEvents(s) /\ GoTo(s, "events")
       ELSE GoTo(s, "asleep") /\ UNCHANGED <<ev_taken, ev_queue>>
    /\ UNCHANGED <<g_co_sched_list, next_sched_idx, ev_occurred_cnt, RQ, co_current, creating, ordered, started>>

SchedSpuriousWakeup(s) ==
    /\ pc[s] = "asleep" /\ GoTo(s, "wait")
    /\ UNCHANGED <<g_co_sched_list, next_sched_idx, queues, co_current, creating, ordered, started>>

(* Each event that was taken puts its coroutine into RQ, unless it is      *)
(* there, and is then no longer counted.                                   *)
\* Mutant: a new coroutine goes first.
Enqueue_Before(q, t) == <<[th |-> t, pr |-> CO_PRIO_STD + 1]>> \o q

Enqueue(q, t) == IF t \in Members(q) THEN q ELSE Insert(q, CO_PRIO_STD + 1, t)

HandleEvent(s) ==
    /\ pc[s] = "events"
    /\ IF ev_taken[s] = <<>> THEN GoTo(s, "schedule") /\ UNCHANGED <<ev_taken, RQ>>
       ELSE /\ RQ' = [RQ EXCEPT ![s] = Enqueue(@, Head(ev_taken[s]))]
            /\ ev_taken' = [ev_taken EXCEPT ![s] = Tail(@)]
            /\ GoTo(s, "uncount")
    /\ UNCHANGED <<g_co_sched_list, next_sched_idx, ev_queue, ev_occurred_cnt, co_current, creating, ordered, started>>

UncountEvent(s) ==
    /\ pc[s] = "uncount" /\ GoTo(s, "events")
    /\ ev_occurred_cnt' = [ev_occurred_cnt EXCEPT ![s] = @ - 1]
    /\ UNCHANGED <<g_co_sched_list, next_sched_idx, ev_queue, RQ, ev_taken, co_current, creating, ordered, started>>

co_sched_eventmanager(s) ==
    PollEvents(s) \/ WaitForEvents(s) \/ HandleEvent(s) \/ UncountEvent(s)

SchedulerStep(s) ==
    _lunch_sched(s) \/ co_schedule_loop(s) \/ _co_coroutine_start(s) \/ co_sched_eventmanager(s)

CoNext ==
    \/ \E c \in Callers : co_create_co(c)
    \/ \E s \in Scheds : SchedulerStep(s) \/ SchedSpuriousWakeup(s)

(* A thread of the system is not held back for ever; a coroutine's         *)
(* function returns in the end, and a call of co_create_co goes on.        *)
CoFairness ==
    /\ \A s \in Scheds : WF_coVars(SchedulerStep(s))
    /\ \A c \in Callers : WF_coVars(co_create_co(c) /\ creating[c].at # "idle")

CoSpec == CoInit /\ [][CoNext]_coVars /\ CoFairness

-----------------------------------------------------------------------------
(* Every coroutine a scheduler was given is on the list, taken, ready or   *)
(* started, in this order and in the order of creation (and so in one of   *)
(* these places only, and started once): no event is lost or handled twice *)
(* however creation overlaps with the event manager, which takes the list  *)
(* at one moment and counts its events off at others.                      *)
Ready(s) == [i \in DOMAIN RQ[s] |-> RQ[s][i].th]
StartedInOrder ==
    \A s \in Scheds : ordered[s] = started[s] \o Ready(s) \o ev_taken[s] \o ev_queue[s]

(* Every coroutine that was created is run, by the scheduler it was given  *)
(* to.                                                                     *)
EveryCoroutineRuns ==
    \A t \in Coroutines, s \in Scheds :
        t \in Range(ordered[s]) ~> t \in Range(started[s])
=============================================================================
