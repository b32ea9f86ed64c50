------------------------------- MODULE CoTimer --------------------------------
(***************************************************************************)
(* The timer service of the coroutine library (co/src/co_timer.cpp). Any   *)
(* thread schedules timers by pushing them on new_timer_list under a lock; *)
(* one thread, in co_timer_mainloop, moves them to timer_list, sleeps      *)
(* until the first of that list is due or a new one arrives, and calls     *)
(* back those that are due.                                                *)
(*                                                                         *)
(* timer_list is a ring entered at its head, here a sequence. It belongs   *)
(* to the main loop alone; a stay in the lock is one action.               *)
(***************************************************************************)
EXTENDS Integers, Sequences, FiniteSets, SequencesExt

CONSTANTS
    Timers,     \* the entries that are ever allocated
    MaxTime     \* the clock stops here, after the last timeout

ASSUME TimerAssumption == MaxTime \in Nat \ {0}

VARIABLES
    clock,
    timeout,            \* of each entry; -1 as long as it is not scheduled
    new_timer_list,
    timer_list,
    calls,              \* how often an entry has been called back
    loop,               \* where the main loop is
    now                 \* the time it goes by

timerVars == <<clock, timeout, new_timer_list, timer_list, calls, loop, now>>

TimerInit ==
    /\ clock = 0
    /\ timeout = [t \in Timers |-> -1]
    /\ new_timer_list = <<>> /\ timer_list = <<>>
    /\ calls = [t \in Timers |-> 0]
    /\ loop = "clock" /\ now = 0

Tick ==
    /\ clock < MaxTime
    /\ clock' = clock + 1
    /\ UNCHANGED <<timeout, new_timer_list, timer_list, calls, loop, now>>

-----------------------------------------------------------------------------
\* A thread in pthread_cond_wait or _timedwait is woken by the signal.
Sleeps == loop \in {"wait", "timedwait"}

\* Mutant: no signal.
co_timer_schedule_Silent(t, at) ==
    /\ timeout[t] = -1
    /\ timeout' = [timeout EXCEPT ![t] = at]
    /\ new_timer_list' = <<t>> \o new_timer_list
    /\ UNCHANGED <<clock, timer_list, calls, loop, now>>

co_timer_schedule(t, at) ==
    /\ timeout[t] = -1
    /\ timeout' = [timeout EXCEPT ![t] = at]
    /\ new_timer_list' = <<t>> \o new_timer_list
    /\ loop' = IF Sleeps THEN "check" ELSE loop
    /\ UNCHANGED <<clock, timer_list, calls, now>>

-----------------------------------------------------------------------------
ReadClock ==
    /\ loop = "clock"
    /\ now' = clock
    /\ loop' = "emit"
    /\ UNCHANGED <<clock, timeout, new_timer_list, timer_list, calls>>

Due == timer_list # <<>> /\ timeout[Head(timer_list)] < now

\* One turn of emit_timeout's loop, and its end.
emit_timeout ==
    /\ loop = "emit"
    /\ Due
    /\ calls' = [calls EXCEPT ![Head(timer_list)] = @ + 1]
    /\ timer_list' = Tail(timer_list)
    /\ UNCHANGED <<clock, timeout, new_timer_list, loop, now>>

EmitDone ==
    /\ loop = "emit"
    /\ ~Due
    /\ loop' = "check"
    /\ UNCHANGED <<clock, timeout, new_timer_list, timer_list, calls, now>>

\* In the lock: something new, or to sleep until there is.
Check ==
    /\ loop = "check"
    /\ loop' = IF new_timer_list # <<>> THEN "handle"
             ELSE IF timer_list = <<>> THEN "wait" ELSE "timedwait"
    /\ UNCHANGED <<clock, timeout, new_timer_list, timer_list, calls, now>>

TimerSpuriousWakeup ==
    /\ Sleeps
    /\ loop' = "check"
    /\ UNCHANGED <<clock, timeout, new_timer_list, timer_list, calls, now>>

\* ETIMEDOUT, and another look at new_timer_list outside of the lock.
TimedOut ==
    /\ loop = "timedwait"
    /\ clock >= timeout[Head(timer_list)]
    /\ loop' = "timedout"
    /\ UNCHANGED <<clock, timeout, new_timer_list, timer_list, calls, now>>

LookAgain ==
    /\ loop = "timedout"
    /\ loop' = IF new_timer_list # <<>> THEN "handle" ELSE "clock"
    /\ UNCHANGED <<clock, timeout, new_timer_list, timer_list, calls, now>>

(* A new entry goes before the first entry that is not earlier. The head   *)
(* stays the head, so that what goes before it comes last in the list.     *)
NotEarlier(list, t) == {i \in DOMAIN list : timeout[list[i]] >= timeout[t]}

PlaceOfNew(list, t) ==
    LET S == NotEarlier(list, t)
    IN  IF S = {} \/ 1 \in S THEN Len(list) + 1
        ELSE CHOOSE k \in S : \A j \in S : k <= j

InsertTimer(list, t) == InsertAt(list, PlaceOfNew(list, t), t)

(* What the list becomes as the new entries are taken one after the other. *)
Merged(list, new) ==
    LET m[k \in 0 .. Len(new)] ==
          IF k = 0 THEN list ELSE InsertTimer(m[k-1], new[k])
    IN  m[Len(new)]

co_timer_handle_new_timer ==
    /\ loop = "handle"
    /\ timer_list' = Merged(timer_list, new_timer_list)
    /\ new_timer_list' = <<>>
    /\ loop' = "clock"
    /\ UNCHANGED <<clock, timeout, calls, now>>

-----------------------------------------------------------------------------
co_timer_mainloop ==
    \/ ReadClock \/ emit_timeout \/ EmitDone \/ Check
    \/ TimedOut \/ LookAgain \/ co_timer_handle_new_timer

\* What is scheduled becomes due before the clock stops.
Client == \E t \in Timers, at \in 0 .. MaxTime - 1 : co_timer_schedule(t, at)

TimerNext == Tick \/ Client \/ co_timer_mainloop \/ TimerSpuriousWakeup

TimerSpec == TimerInit /\ [][TimerNext]_timerVars

\* Time goes on, and the main loop does whenever it does not sleep; a timeout
\* that has passed ends the sleep however often it is broken off spuriously.
TimerFairness == WF_timerVars(Tick) /\ WF_timerVars(co_timer_mainloop) /\ SF_timerVars(TimedOut)

TimerFairSpec == TimerSpec /\ TimerFairness

-----------------------------------------------------------------------------
(* Every timer scheduled is in one place: new, in the list or called back; *)
(* and it is there once. None is dropped between the two lists or called   *)
(* back twice.                                                             *)
Times(list, t) == Cardinality({i \in DOMAIN list : list[i] = t})

EachInOnePlace ==
    \A t \in Timers :
        Times(new_timer_list, t) + Times(timer_list, t) + calls[t] =
            IF timeout[t] = -1 THEN 0 ELSE 1

(* Every timer scheduled is called back, whether the main loop slept       *)
(* forever, slept for another timer or was busy when it came; and only     *)
(* once.                                                                   *)
AllCalledBack ==
    /\ []EachInOnePlace
    /\ \A t \in Timers : timeout[t] # -1 ~> calls[t] = 1

=============================================================================
