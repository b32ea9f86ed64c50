---------------------------- MODULE PthCondProofs -----------------------------
(***************************************************************************)
(* Proofs about condition variables, in PthBuffer and PthBarrier, for any  *)
(* number of threads and whatever cancels their waits.                     *)
(*                                                                         *)
(* The buffer: who is in the mutex owns it, and no wake-up is lost.        *)
(***************************************************************************)
EXTENDS PthBuffer, PthBarrier, FiniteSetTheorems, TLAPS

\* Places inside of pth_cond_await.
InCall == {"await", "reacquire", "cleanup"}

Types ==
    /\ pth_current \in Threads \cup {NULL}
    /\ state \in [Threads -> {"ready", "waiting", "dead"}]
    /\ waitfor \in [Threads -> SUBSET Event]
    /\ pc \in [Threads -> {"run", "acquire"} \cup InCall]
    /\ at \in [Threads -> {"out", "in", "put", "left"}]
    /\ mx_owner \in [Mutexes -> Threads \cup {NULL}]
    /\ mx_count \in [Mutexes -> Int]
    /\ cn_signaled \in [Conds -> BOOLEAN]
    /\ cn_waiters \in [Conds -> Int]
    /\ items \in Int

CurrentIsReady == pth_current # NULL => state[pth_current] = "ready"

\* A thread waits, or comes back from a wait, inside of a call only.
Waits ==
    \A t \in Threads :
        /\ waitfor[t] # {} <=> pc[t] # "run"
        /\ state[t] = "waiting" => pc[t] # "run"
        /\ state[t] = "dead" => pc[t] = "run" /\ at[t] = "out"
        /\ COND(cn) \in waitfor[t] => pc[t] = "await"

Places ==
    \A t \in Threads :
        /\ pc[t] = "acquire" => at[t] = "out"
        /\ pc[t] \in InCall => at[t] = "in" /\ t \in Consumers

OwnerInside ==
    /\ \A t \in Threads : mx_owner[mx] = t <=> pc[t] = "run" /\ at[t] \in {"in", "put"}
    /\ Locked(mx) => mx_count[mx] = 1

\* Waiters that are cancelled while they reacquire the mutex stay counted.
Sleepers == {t \in Threads : pc[t] \in InCall}

WaitersCounted == cn_waiters[cn] >= Cardinality(Sleepers)

\* The inductive invariant of the mutex ...
MInv == Types /\ CurrentIsReady /\ Waits /\ Places /\ OwnerInside

\* ... and of the condition variable.
IInv == MInv /\ WaitersCounted /\ NoLostWakeup

-----------------------------------------------------------------------------
(*                              Lemmas                                     *)

LEMMA Objects ==
    /\ mx \in Mutexes /\ cn \in Conds /\ NULL \notin Threads
    /\ MUTEX(mx) \in Event /\ COND(cn) \in Event /\ EXTRA \in Event
    /\ MUTEX(mx) # COND(cn)
<1>1. mx \in Mutexes /\ cn \in Conds /\ NULL \notin Threads
  BY CondAssumption, SyncAssumption
<1>2. MUTEX(mx) # COND(cn)
  BY DEF MUTEX, COND
<1> QED BY <1>1, <1>2 DEF Event

\* A thread in a wait has not got the mutex, wherever in a call it is.
LEMMA WhoRuns ==
    ASSUME MInv, NEW c \in Threads
    PROVE  /\ Running(c) => pc[c] = "run" /\ state[c] = "ready" /\ pth_current = c
           /\ Back(c) => pc[c] # "run" /\ state[c] = "ready" /\ pth_current = c
           /\ Back(c) => mx_owner[mx] # c
BY Objects DEF MInv, Types, Waits, CurrentIsReady, OwnerInside, Running, Back

\* Steps of a thread that goes on, from the call or from its wait.
LEMMA GoesOn ==
    ASSUME MInv, NEW c \in Threads, Running(c) \/ Back(c),
           Running(c) => UNCHANGED sched \/ Unlink(c),
           Back(c) => Unlink(c),
           Goto(c, "run")
    PROVE  /\ pth_current' \in Threads \cup {NULL}
           /\ state' \in [Threads -> {"ready", "waiting", "dead"}]
           /\ waitfor' \in [Threads -> SUBSET Event]
           /\ pc' \in [Threads -> {"run", "acquire"} \cup InCall]
           /\ CurrentIsReady'
           /\ state' = state /\ pc'[c] = "run" /\ waitfor'[c] = {}
           /\ \A t \in Threads \ {c} : waitfor'[t] = waitfor[t] /\ pc'[t] = pc[t]
BY WhoRuns DEF MInv, Types, CurrentIsReady, Unlink, sched, Goto, Running, Back

LEMMA GoesToSleep ==
    ASSUME MInv, NEW c \in Threads, NEW evs \in SUBSET Event, evs # {}, Wait(c, evs),
           NEW k \in {"acquire"} \cup InCall, Goto(c, k)
    PROVE  /\ pth_current' \in Threads \cup {NULL}
           /\ state' \in [Threads -> {"ready", "waiting", "dead"}]
           /\ waitfor' \in [Threads -> SUBSET Event]
           /\ pc' \in [Threads -> {"run", "acquire"} \cup InCall]
           /\ CurrentIsReady'
           /\ waitfor'[c] = evs /\ pc'[c] = k /\ state'[c] = "waiting"
           /\ \A t \in Threads \ {c} :
                waitfor'[t] = waitfor[t] /\ state'[t] = state[t] /\ pc'[t] = pc[t]
BY DEF MInv, Types, CurrentIsReady, Wait, Goto

\* The count of those who are in pth_cond_await.
LEMMA SleepersFinite == IsFiniteSet(Sleepers) /\ Cardinality(Sleepers) \in Nat
<1>1. Sleepers \subseteq Threads /\ IsFiniteSet(Threads)
  BY BufferAssumption DEF Sleepers
<1> QED BY <1>1, FS_Subset, FS_CardinalityType

LEMMA SleeperComes ==
    ASSUME MInv, NEW c \in Threads, pc[c] = "run", NEW k \in InCall, Goto(c, k)
    PROVE  Cardinality(Sleepers') = Cardinality(Sleepers) + 1
<1>1. Sleepers' = Sleepers \cup {c} /\ c \notin Sleepers
  BY DEF Sleepers, Goto, InCall, MInv, Types
<1> QED BY <1>1, SleepersFinite, FS_AddElement

LEMMA SleeperGoes ==
    ASSUME MInv, NEW c \in Threads, pc[c] \in InCall, Goto(c, "run")
    PROVE  Cardinality(Sleepers') = Cardinality(Sleepers) - 1
<1>1. Sleepers' = Sleepers \ {c} /\ c \in Sleepers
  BY DEF Sleepers, Goto, InCall, MInv, Types
<1> QED BY <1>1, SleepersFinite, FS_RemoveElement

\* Nothing of this is touched by a step.
LEMMA StillOK ==
    ASSUME MInv, UNCHANGED <<pth_current, state, waitfor, mx_owner, mx_count, pc, at>>,
           cn_signaled' \in [Conds -> BOOLEAN], cn_waiters' \in [Conds -> Int], items' \in Int
    PROVE  MInv'
BY DEF MInv, Types, CurrentIsReady, Waits, Places, OwnerInside, Locked

LEMMA LockTypes ==
    ASSUME MInv, NEW c \in Threads, Lock(c, mx)
    PROVE  /\ mx_owner' \in [Mutexes -> Threads \cup {NULL}] /\ mx_count' \in [Mutexes -> Int]
           /\ mx_owner[mx] = NULL /\ mx_owner'[mx] = c /\ mx_count'[mx] = 1
<1>1. /\ mx_owner' = [mx_owner EXCEPT ![mx] = c]
      /\ mx_count' = [mx_count EXCEPT ![mx] = 1]
      /\ mx_owner[mx] = NULL
  BY DEF Lock, Locked
<1> QED BY <1>1, Objects DEF MInv, Types

LEMMA ReleaseTypes ==
    ASSUME MInv, NEW c \in Threads, pth_mutex_release(c, mx)
    PROVE  /\ mx_owner' \in [Mutexes -> Threads \cup {NULL}] /\ mx_count' \in [Mutexes -> Int]
           /\ mx_owner[mx] = c /\ mx_owner'[mx] = NULL
<1>1. mx_owner[mx] = c /\ mx_count[mx] = 1
  BY Objects DEF pth_mutex_release, MInv, OwnerInside, Locked
<1>2. /\ mx_owner' = [mx_owner EXCEPT ![mx] = NULL]
      /\ mx_count' = [mx_count EXCEPT ![mx] = @ - 1]
  BY <1>1 DEF pth_mutex_release
<1> QED BY <1>1, <1>2, Objects DEF MInv, Types

LEMMA MovesTypes ==
    ASSUME MInv, NEW c \in Threads, NEW from, NEW to \in {"out", "in", "put", "left"},
           Moves(c, from, to)
    PROVE  /\ at' \in [Threads -> {"out", "in", "put", "left"}]
           /\ at[c] = from /\ at'[c] = to
           /\ \A t \in Threads \ {c} : at'[t] = at[t]
BY DEF Moves, MInv, Types

-----------------------------------------------------------------------------
(*               Who is in the mutex owns it: the steps                    *)

LEMMA EnterM == ASSUME MInv, NEW c \in Threads, Enter(c) PROVE MInv'
<1>1. /\ Running(c) \/ (Back(c) /\ pc[c] = "acquire")
      /\ Lock(c, mx) /\ Moves(c, "out", "in") /\ Goto(c, "run")
      /\ IF Running(c) THEN UNCHANGED sched ELSE Unlink(c)
      /\ UNCHANGED <<conds, items>>
  BY DEF Enter, AcquireNow
<1>2. ~(Running(c) /\ Back(c))
  BY DEF Running, Back
<1>3. /\ pth_current' \in Threads \cup {NULL}
      /\ state' \in [Threads -> {"ready", "waiting", "dead"}]
      /\ waitfor' \in [Threads -> SUBSET Event]
      /\ pc' \in [Threads -> {"run", "acquire"} \cup InCall]
      /\ CurrentIsReady'
      /\ state' = state /\ pc'[c] = "run" /\ waitfor'[c] = {}
      /\ \A t \in Threads \ {c} : waitfor'[t] = waitfor[t] /\ pc'[t] = pc[t]
  BY <1>1, <1>2, GoesOn
<1>4. /\ mx_owner' \in [Mutexes -> Threads \cup {NULL}] /\ mx_count' \in [Mutexes -> Int]
      /\ mx_owner[mx] = NULL /\ mx_owner'[mx] = c /\ mx_count'[mx] = 1
  BY <1>1, LockTypes
<1>5. /\ at' \in [Threads -> {"out", "in", "put", "left"}]
      /\ at[c] = "out" /\ at'[c] = "in"
      /\ \A t \in Threads \ {c} : at'[t] = at[t]
  BY <1>1, MovesTypes
<1>6. state[c] = "ready"
  BY <1>1, WhoRuns
<1>7. Types'
  BY <1>1, <1>3, <1>4, <1>5 DEF MInv, Types, conds
<1>8. Waits'
  BY <1>3, <1>5, <1>6 DEF MInv, Waits
<1>9. Places'
  BY <1>3, <1>5 DEF MInv, Places, InCall
<1>10. OwnerInside'
  BY <1>3, <1>4, <1>5, Objects DEF MInv, OwnerInside
<1> QED BY <1>3, <1>7, <1>8, <1>9, <1>10 DEF MInv

\* Any step in which a thread that has not got the mutex goes to sleep.
LEMMA SleepM ==
    ASSUME MInv, NEW c \in Threads, NEW k \in {"acquire"} \cup InCall,
           mx_owner[mx] # c, Wait(c, {MUTEX(mx)}), Goto(c, k), k # "await",
           k = "acquire" => at[c] = "out",
           k \in InCall => at[c] = "in" /\ c \in Consumers,
           UNCHANGED <<mutexes, conds, items, at>>
    PROVE  MInv'
<1>1. {MUTEX(mx)} \in SUBSET Event /\ {MUTEX(mx)} # {} /\ COND(cn) \notin {MUTEX(mx)}
  BY Objects
<1>2. /\ pth_current' \in Threads \cup {NULL}
      /\ state' \in [Threads -> {"ready", "waiting", "dead"}]
      /\ waitfor' \in [Threads -> SUBSET Event]
      /\ pc' \in [Threads -> {"run", "acquire"} \cup InCall]
      /\ CurrentIsReady'
      /\ waitfor'[c] = {MUTEX(mx)} /\ pc'[c] = k /\ state'[c] = "waiting"
      /\ \A t \in Threads \ {c} :
           waitfor'[t] = waitfor[t] /\ state'[t] = state[t] /\ pc'[t] = pc[t]
  <2> HIDE DEF MUTEX
  <2> QED BY <1>1, GoesToSleep
<1>3. Types'
  BY <1>2 DEF MInv, Types, mutexes, conds
<1>4. Waits'
  <2> HIDE DEF MUTEX, COND
  <2>1. k # "run"
    BY DEF InCall
  <2> QED BY <1>1, <1>2, <2>1 DEF MInv, Waits
<1>5. Places'
  BY <1>2 DEF MInv, Places
<1>6. OwnerInside'
  <2>1. k # "run"
    BY DEF InCall
  <2> QED BY <1>2, <2>1 DEF MInv, OwnerInside, mutexes, Locked
<1> QED BY <1>2, <1>3, <1>4, <1>5, <1>6 DEF MInv

LEMMA EnterWaitM == ASSUME MInv, NEW c \in Threads, EnterWait(c) PROVE MInv'
<1>1. mx_owner[mx] # c /\ Wait(c, {MUTEX(mx)}) /\ Goto(c, "acquire") /\ at[c] = "out"
      /\ UNCHANGED <<mutexes, conds, items, at>>
  BY DEF EnterWait, AcquireWait, Busy
<1>2. "acquire" \notin InCall
  BY DEF InCall
<1> QED BY <1>1, <1>2, SleepM

LEMMA LeaveM == ASSUME MInv, NEW c \in Threads, Leave(c) PROVE MInv'
<1>1. /\ Running(c) /\ pth_mutex_release(c, mx)
      /\ Moves(c, "in", "out") \/ Moves(c, "put", "left")
      /\ UNCHANGED <<sched, conds, pc, items>>
  BY DEF Leave
<1>2. /\ mx_owner' \in [Mutexes -> Threads \cup {NULL}] /\ mx_count' \in [Mutexes -> Int]
      /\ mx_owner[mx] = c /\ mx_owner'[mx] = NULL
  BY <1>1, ReleaseTypes
<1>3. /\ at' \in [Threads -> {"out", "in", "put", "left"}]
      /\ at'[c] \in {"out", "left"}
      /\ \A t \in Threads \ {c} : at'[t] = at[t]
  BY <1>1, MovesTypes
<1>4. pc[c] = "run" /\ state[c] = "ready"
  BY <1>1, WhoRuns
<1>5. Types' /\ CurrentIsReady'
  BY <1>1, <1>2, <1>3 DEF MInv, Types, CurrentIsReady, sched, conds
<1>6. Waits' /\ Places'
  BY <1>1, <1>3, <1>4 DEF MInv, Waits, Places, sched, InCall
<1>7. OwnerInside'
  BY <1>1, <1>2, <1>3, Objects DEF MInv, OwnerInside, Locked
<1> QED BY <1>5, <1>6, <1>7 DEF MInv

\* Moves of the client that do not cross the border of the mutex.
LEMMA MovesM ==
    ASSUME MInv, NEW c \in Threads, Running(c) \/ pth_current = c, pc[c] = "run",
           state[c] = "ready",
           \/ Moves(c, "in", "put") \/ Moves(c, "put", "in") \/ Moves(c, "left", "out"),
           pth_current' \in {pth_current, NULL}, UNCHANGED <<state, waitfor, mutexes, pc>>,
           cn_signaled' \in [Conds -> BOOLEAN], UNCHANGED cn_waiters, items' \in Int
    PROVE  MInv'
<1>1. /\ at' \in [Threads -> {"out", "in", "put", "left"}]
      /\ at[c] \in {"in", "put"} <=> at'[c] \in {"in", "put"}
      /\ \A t \in Threads \ {c} : at'[t] = at[t]
  BY MovesTypes
<1>2. Types' /\ CurrentIsReady'
  BY <1>1 DEF MInv, Types, CurrentIsReady, mutexes
<1>3. Waits' /\ Places'
  BY <1>1 DEF MInv, Waits, Places, InCall
<1>4. OwnerInside'
  BY <1>1 DEF MInv, OwnerInside, Locked, mutexes
<1> QED BY <1>2, <1>3, <1>4 DEF MInv

LEMMA PutM == ASSUME MInv, NEW c \in Threads, Put(c) PROVE MInv'
<1>1. /\ Running(c) /\ items' = items + 1 /\ Moves(c, "in", "put")
      /\ UNCHANGED <<sched, mutexes, conds, pc>>
  BY DEF Put
<1>2. /\ cn_signaled' \in [Conds -> BOOLEAN] /\ items' \in Int
      /\ pth_current' \in {pth_current, NULL} /\ UNCHANGED <<state, waitfor, cn_waiters>>
  BY <1>1 DEF MInv, Types, conds, sched
<1> QED BY <1>1, <1>2, MovesM, WhoRuns

LEMMA NotifyOneM == ASSUME MInv, NEW c \in Threads, NotifyOne(c) PROVE MInv'
<1>1. /\ Running(c) /\ (Moves(c, "put", "in") \/ Moves(c, "left", "out"))
      /\ UNCHANGED <<mutexes, pc, items>>
  BY DEF NotifyOne, Notify
<1>2. /\ cn_signaled' \in [Conds -> BOOLEAN] /\ items' \in Int /\ Running(c)
      /\ pth_current' \in {pth_current, NULL} /\ UNCHANGED <<state, waitfor, cn_waiters>>
  BY DEF NotifyOne, Notify, Signal, pth_yield, MInv, Types, conds, sched
<1> QED BY <1>1, <1>2, MovesM, WhoRuns

LEMMA TakeM == ASSUME MInv, NEW c \in Threads, Take(c) PROVE MInv'
<1>1. items' = items - 1 /\ UNCHANGED <<sched, mutexes, conds, pc, at>>
  BY DEF Take
<1>2. /\ cn_signaled' \in [Conds -> BOOLEAN] /\ cn_waiters' \in [Conds -> Int] /\ items' \in Int
      /\ UNCHANGED <<pth_current, state, waitfor, mx_owner, mx_count>>
  BY <1>1 DEF MInv, Types, conds, sched, mutexes
<1> QED BY <1>1, <1>2, StillOK

\* The consumer gives the mutex up for the time of its wait.
LEMMA AwaitM ==
    ASSUME MInv, NEW c \in Consumers, NEW extra \in Extras, at[c] = "in", Await(c, extra),
           UNCHANGED <<items, at>>
    PROVE  MInv'
<1> c \in Threads
  BY BufferAssumption
<1>1. /\ cn_waiters' = [cn_waiters EXCEPT ![cn] = @ + 1]
      /\ pth_mutex_release(c, mx) /\ Wait(c, {COND(cn)} \cup extra) /\ Goto(c, "await")
      /\ UNCHANGED cn_signaled
  BY DEF Await
<1>2. {COND(cn)} \cup extra \in SUBSET Event /\ {COND(cn)} \cup extra # {}
  BY Objects DEF Extras
<1>3. /\ pth_current' \in Threads \cup {NULL}
      /\ state' \in [Threads -> {"ready", "waiting", "dead"}]
      /\ waitfor' \in [Threads -> SUBSET Event]
      /\ pc' \in [Threads -> {"run", "acquire"} \cup InCall]
      /\ CurrentIsReady'
      /\ waitfor'[c] # {} /\ pc'[c] = "await" /\ state'[c] = "waiting"
      /\ \A t \in Threads \ {c} :
           waitfor'[t] = waitfor[t] /\ state'[t] = state[t] /\ pc'[t] = pc[t]
  <2>1. "await" \in {"acquire"} \cup InCall
    BY DEF InCall
  <2> HIDE DEF COND
  <2> QED BY <1>1, <1>2, <2>1, GoesToSleep
<1>4. /\ mx_owner' \in [Mutexes -> Threads \cup {NULL}] /\ mx_count' \in [Mutexes -> Int]
      /\ mx_owner[mx] = c /\ mx_owner'[mx] = NULL
  BY <1>1, ReleaseTypes
<1>5. Types'
  <2>1. cn_waiters' \in [Conds -> Int]
    BY <1>1, Objects DEF MInv, Types
  <2> QED BY <1>1, <1>3, <1>4, <2>1 DEF MInv, Types
<1>6. Waits'
  BY <1>3 DEF MInv, Waits
<1>7. Places'
  BY <1>3 DEF MInv, Places, InCall
<1>8. OwnerInside'
  BY <1>3, <1>4, Objects DEF MInv, OwnerInside, Locked
<1> QED BY <1>3, <1>5, <1>6, <1>7, <1>8 DEF MInv

LEMMA ShortCircuitM ==
    ASSUME MInv, NEW c \in Threads, ShortCircuit(c), UNCHANGED <<items, at>>
    PROVE  MInv'
<1>1. /\ UNCHANGED <<pth_current, state, waitfor, mx_owner, mx_count, pc>>
      /\ cn_waiters' \in [Conds -> Int] /\ items' \in Int
      /\ cn_signaled' \in [Conds -> BOOLEAN]
  BY DEF ShortCircuit, sched, mutexes, MInv, Types
<1> QED BY <1>1, StillOK

LEMMA AwaitItemM == ASSUME MInv, NEW c \in Threads, AwaitItem(c) PROVE MInv'
<1>1. /\ c \in Consumers /\ at[c] = "in" /\ UNCHANGED <<items, at>>
      /\ ShortCircuit(c) \/ \E extra \in Extras : Await(c, extra)
  BY DEF AwaitItem
<1> QED BY <1>1, AwaitM, ShortCircuitM

LEMMA AwaitReturnsM == ASSUME MInv, NEW c \in Threads, AwaitReturns(c) PROVE MInv'
<1>1. InAwait(c) /\ UNCHANGED <<items, at>> /\ (AwaitDone(c) \/ Reacquire(c))
  BY DEF AwaitReturns, AwaitDone, Reacquire
<1>2. Back(c) /\ pc[c] \in InCall
  BY <1>1 DEF InAwait, InCall
<1>3. at[c] = "in" /\ c \in Consumers /\ state[c] = "ready" /\ ~Running(c)
  BY <1>2, WhoRuns DEF MInv, Places, Running, Back
<1>4. CASE Reacquire(c)
  <2>1. Busy(c, mx) /\ Wait(c, {MUTEX(mx)}) /\ Goto(c, "reacquire") /\ UNCHANGED <<mutexes, conds>>
    BY <1>4 DEF Reacquire
  <2>2. "reacquire" \in {"acquire"} \cup InCall /\ mx_owner[mx] # c
    BY <2>1 DEF InCall, Busy
  <2> QED BY <1>1, <1>3, <2>1, <2>2, SleepM
<1>5. CASE AwaitDone(c)
  <2>1. /\ Lock(c, mx) /\ Unlink(c) /\ Goto(c, "run") /\ UNCHANGED cn_signaled
        /\ cn_waiters' = [cn_waiters EXCEPT ![cn] = @ - 1]
    BY <1>5 DEF AwaitDone
  <2>2. /\ pth_current' \in Threads \cup {NULL}
        /\ state' \in [Threads -> {"ready", "waiting", "dead"}]
        /\ waitfor' \in [Threads -> SUBSET Event]
        /\ pc' \in [Threads -> {"run", "acquire"} \cup InCall]
        /\ CurrentIsReady'
        /\ state' = state /\ pc'[c] = "run" /\ waitfor'[c] = {}
        /\ \A t \in Threads \ {c} : waitfor'[t] = waitfor[t] /\ pc'[t] = pc[t]
    BY <1>2, <1>3, <2>1, GoesOn
  <2>3. /\ mx_owner' \in [Mutexes -> Threads \cup {NULL}] /\ mx_count' \in [Mutexes -> Int]
        /\ mx_owner[mx] = NULL /\ mx_owner'[mx] = c /\ mx_count'[mx] = 1
    BY <2>1, LockTypes
  <2>4. Types'
    <3>1. cn_waiters' \in [Conds -> Int]
      BY <2>1, Objects DEF MInv, Types
    <3> QED BY <1>1, <2>1, <2>2, <2>3, <3>1 DEF MInv, Types
  <2>5. Waits'
    BY <1>1, <1>3, <2>2 DEF MInv, Waits
  <2>6. Places'
    BY <1>1, <2>2 DEF MInv, Places, InCall
  <2>7. OwnerInside'
    BY <1>1, <1>3, <2>2, <2>3, Objects DEF MInv, OwnerInside
  <2> QED BY <2>2, <2>4, <2>5, <2>6, <2>7 DEF MInv
<1> QED BY <1>1, <1>4, <1>5

\* What the client knows of where its threads are.
LEMMA AfterCancellation ==
    ASSUME MInv, state' \in [Threads -> {"ready", "waiting", "dead"}],
           at' = [t \in Threads |-> IF state'[t] = "dead" THEN "out" ELSE at[t]]
    PROVE  /\ at' \in [Threads -> {"out", "in", "put", "left"}]
           /\ \A t \in Threads : at'[t] = IF state'[t] = "dead" THEN "out" ELSE at[t]
BY DEF MInv, Types

\* The thread that ends was in a wait, and does not have the mutex.
LEMMA DiesM ==
    ASSUME MInv, NEW c \in Threads, pc[c] # "run", Die(c), Goto(c, "run"),
           at' = [t \in Threads |-> IF state'[t] = "dead" THEN "out" ELSE at[t]],
           UNCHANGED <<mutexes, items, cn_signaled>>, cn_waiters' \in [Conds -> Int]
    PROVE  MInv'
<1>1. /\ state' = [state EXCEPT ![c] = "dead"] /\ waitfor' = [waitfor EXCEPT ![c] = {}]
      /\ pth_current' = NULL /\ pc' = [pc EXCEPT ![c] = "run"]
  BY DEF Die, Goto
<1>2. /\ state' \in [Threads -> {"ready", "waiting", "dead"}]
      /\ waitfor' \in [Threads -> SUBSET Event]
      /\ pc' \in [Threads -> {"run", "acquire"} \cup InCall]
      /\ state'[c] = "dead" /\ waitfor'[c] = {} /\ pc'[c] = "run"
      /\ \A t \in Threads \ {c} :
           waitfor'[t] = waitfor[t] /\ state'[t] = state[t] /\ pc'[t] = pc[t]
  BY <1>1 DEF MInv, Types
<1>3. /\ at' \in [Threads -> {"out", "in", "put", "left"}]
      /\ \A t \in Threads : at'[t] = IF state'[t] = "dead" THEN "out" ELSE at[t]
  BY <1>2, AfterCancellation
<1>4. at'[c] = "out" /\ \A t \in Threads \ {c} : at'[t] = at[t]
  BY <1>2, <1>3 DEF MInv, Waits
<1>5. Types' /\ CurrentIsReady'
  BY <1>1, <1>2, <1>3 DEF MInv, Types, CurrentIsReady, mutexes
<1>6. Waits'
  BY <1>2, <1>4 DEF MInv, Waits
<1>7. Places'
  BY <1>2, <1>4 DEF MInv, Places, InCall
<1>8. OwnerInside'
  BY <1>2, <1>4 DEF MInv, OwnerInside, Locked, mutexes
<1> QED BY <1>5, <1>6, <1>7, <1>8 DEF MInv

\* As long as nobody ends all are where they were.
LEMMA NobodyDies ==
    ASSUME MInv,
           \A t \in Threads : state'[t] = "dead" => state[t] = "dead",
           at' = [t \in Threads |-> IF state'[t] = "dead" THEN "out" ELSE at[t]]
    PROVE  at' = at
<1>1. \A t \in Threads : at'[t] = at[t]
  BY DEF MInv, Waits
<1> QED BY <1>1 DEF MInv, Types

\* Whoever cancels, waits in its handler or ends.
LEMMA CancellationKinds ==
    ASSUME MInv, NEW c \in Threads, Cancellation(c)
    PROVE  \/ /\ pc[c] # "run" /\ Die(c) /\ Goto(c, "run")
              /\ at' = [t \in Threads |-> IF state'[t] = "dead" THEN "out" ELSE at[t]]
              /\ UNCHANGED <<mutexes, items, cn_signaled>>
              /\ \/ UNCHANGED cn_waiters
                 \/ cn_waiters' = [cn_waiters EXCEPT ![cn] = @ - 1] /\ pc[c] \in InCall
           \/ /\ pc[c] \in InCall /\ mx_owner[mx] # c
              /\ Wait(c, {MUTEX(mx)}) /\ Goto(c, "cleanup")
              /\ UNCHANGED <<mutexes, conds, items, at>>
           \/ UNCHANGED <<sched, mutexes, conds, pc, items, at>>
<1>1. /\ CancellationStep(c) /\ UNCHANGED items
      /\ at' = [t \in Threads |-> IF state'[t] = "dead" THEN "out" ELSE at[t]]
  BY DEF Cancellation
<1>2. CASE CancelledAwait(c) \/ CleanupDone(c)
  BY <1>1, <1>2 DEF CancelledAwait, CleanupDone, WaiterGone, InCall
<1>3. CASE CancelledElsewhere(c)
  BY <1>1, <1>3, WhoRuns DEF CancelledElsewhere, conds
<1>4. CASE CancelledAwaitBusy(c) \/ CleanupAgain(c)
  <2>1. /\ pc[c] \in InCall /\ Busy(c, mx) /\ Wait(c, {MUTEX(mx)})
        /\ UNCHANGED <<mutexes, conds>>
        /\ Goto(c, "cleanup") \/ (pc[c] = "cleanup" /\ UNCHANGED pc)
    BY <1>4 DEF CancelledAwaitBusy, CleanupAgain, InCall
  <2>2. Goto(c, "cleanup")
    BY <2>1 DEF Goto, MInv, Types
  <2>3. \A t \in Threads : state'[t] = "dead" => state[t] = "dead"
    BY <2>1 DEF Wait, MInv, Types
  <2>4. at' = at
    BY <1>1, <2>3, NobodyDies
  <2> QED BY <1>1, <2>1, <2>2, <2>4 DEF Busy
<1>5. ASSUME NEW u \in Threads, CancelDeferred(c, u)
      PROVE  UNCHANGED <<sched, mutexes, conds, pc, items, at>>
  <2>1. UNCHANGED <<sched, mutexes, conds, pc>>
    BY <1>5 DEF CancelDeferred
  <2>2. at' = at
    BY <1>1, <2>1, NobodyDies DEF sched
  <2> QED BY <1>1, <2>1, <2>2
<1> QED BY <1>1, <1>2, <1>3, <1>4, <1>5 DEF CancellationStep

LEMMA CancellationM == ASSUME MInv, NEW c \in Threads, Cancellation(c) PROVE MInv'
<1>1. CASE /\ pc[c] # "run" /\ Die(c) /\ Goto(c, "run")
           /\ at' = [t \in Threads |-> IF state'[t] = "dead" THEN "out" ELSE at[t]]
           /\ UNCHANGED <<mutexes, items, cn_signaled>>
           /\ \/ UNCHANGED cn_waiters
              \/ cn_waiters' = [cn_waiters EXCEPT ![cn] = @ - 1] /\ pc[c] \in InCall
  <2>1. cn_waiters' \in [Conds -> Int]
    BY <1>1, Objects DEF MInv, Types
  <2> QED BY <1>1, <2>1, DiesM
<1>2. CASE /\ pc[c] \in InCall /\ mx_owner[mx] # c
           /\ Wait(c, {MUTEX(mx)}) /\ Goto(c, "cleanup")
           /\ UNCHANGED <<mutexes, conds, items, at>>
  <2>1. at[c] = "in" /\ c \in Consumers /\ "cleanup" \in {"acquire"} \cup InCall
    BY <1>2 DEF MInv, Places, InCall
  <2> QED BY <1>2, <2>1, SleepM
<1>3. CASE UNCHANGED <<sched, mutexes, conds, pc, items, at>>
  <2>1. /\ UNCHANGED <<pth_current, state, waitfor, mx_owner, mx_count, pc, at>>
        /\ cn_signaled' \in [Conds -> BOOLEAN] /\ cn_waiters' \in [Conds -> Int]
        /\ items' \in Int
    BY <1>3 DEF sched, mutexes, conds, MInv, Types
  <2> QED BY <2>1, StillOK
<1> QED BY <1>1, <1>2, <1>3, CancellationKinds

LEMMA YieldM == ASSUME MInv, NEW c \in Threads, Yield(c) PROVE MInv'
BY DEF Yield, pth_yield, MInv, Types, CurrentIsReady, Waits, Places, OwnerInside, Locked,
       mutexes, conds

(* A round of the scheduler: some waiting threads become ready, among them *)
(* whoever has taken the signal.                                           *)
LEMMA RoundWakes ==
    ASSUME MInv, NEW next \in Threads, Dispatch(next)
    PROVE  /\ pth_current' = next
           /\ state' \in [Threads -> {"ready", "waiting", "dead"}]
           /\ state'[next] = "ready"
           /\ \A t \in Threads : \/ state'[t] = state[t]
                                 \/ state[t] = "waiting" /\ state'[t] = "ready"
           /\ cn_signaled' \in [Conds -> BOOLEAN]
           /\ \/ cn_signaled'[cn] = cn_signaled[cn]
              \/ \E t \in Threads : state'[t] = "ready" /\ COND(cn) \in waitfor[t]
           /\ UNCHANGED <<waitfor, mutexes, cn_waiters, pc, items, at>>
<1>1. Schedule(next) /\ UNCHANGED <<pc, items, at>>
  BY DEF Dispatch
<1>2. PICK ext, taker : Round(next, ext, taker)
  BY <1>1 DEF Schedule
<1> DEFINE occ   == Occurring(ext, taker)
           woken == WokenBy(occ)
           spent == SpentBy(occ)
<1>3. /\ next \in Ready \cup woken /\ pth_current' = next
      /\ state' = [t \in Threads |-> IF t \in woken THEN "ready" ELSE state[t]]
      /\ cn_signaled' = [n \in Conds |-> cn_signaled[n] /\ n \notin spent]
  BY <1>2 DEF Round
<1>4. \A t \in woken : t \in Threads /\ state[t] = "waiting"
  BY DEF Waiting, WokenBy
<1>5. \A n \in spent : n \in Conds /\ \E t \in woken : COND(n) \in waitfor[t]
  <2> SUFFICES ASSUME NEW n \in spent
               PROVE  n \in Conds /\ \E t \in woken : COND(n) \in waitfor[t]
    OBVIOUS
  <2>1. PICK t \in Waiting : COND(n) \in occ[t]
    BY DEF SpentBy
  <2>2. t \in Threads /\ COND(n) \in waitfor[t] /\ t \in woken
    BY <2>1 DEF Waiting, WokenBy, Occurring
  <2> QED BY <2>2 DEF SpentBy
<1> HIDE DEF occ, woken, spent
<1>6. /\ state' \in [Threads -> {"ready", "waiting", "dead"}]
      /\ \A t \in Threads : state'[t] = IF t \in woken THEN "ready" ELSE state[t]
  BY <1>3 DEF MInv, Types
<1>7. state'[next] = "ready"
  BY <1>3, <1>6 DEF Ready
<1>8. cn_signaled' \in [Conds -> BOOLEAN]
  BY <1>3 DEF MInv, Types
<1>9. \/ cn_signaled'[cn] = cn_signaled[cn]
      \/ \E t \in Threads : state'[t] = "ready" /\ COND(cn) \in waitfor[t]
  <2>1. CASE cn \in spent
    BY <2>1, <1>4, <1>5, <1>6
  <2>2. CASE cn \notin spent
    BY <2>2, <1>3, Objects DEF MInv, Types
  <2> QED BY <2>1, <2>2
<1>10. UNCHANGED <<waitfor, mutexes, cn_waiters, pc, items, at>>
  BY <1>1 DEF Schedule
<1> QED BY <1>3, <1>4, <1>6, <1>7, <1>8, <1>9, <1>10

LEMMA DispatchM == ASSUME MInv, NEW next \in Threads, Dispatch(next) PROVE MInv'
<1>1. /\ pth_current' = next
      /\ state' \in [Threads -> {"ready", "waiting", "dead"}]
      /\ state'[next] = "ready"
      /\ \A t \in Threads : \/ state'[t] = state[t]
                            \/ state[t] = "waiting" /\ state'[t] = "ready"
      /\ cn_signaled' \in [Conds -> BOOLEAN]
      /\ UNCHANGED <<waitfor, mutexes, cn_waiters, pc, items, at>>
  BY RoundWakes
<1>2. Types' /\ CurrentIsReady'
  BY <1>1 DEF MInv, Types, CurrentIsReady, mutexes
<1>3. Waits'
  BY <1>1 DEF MInv, Waits
<1>4. Places' /\ OwnerInside'
  BY <1>1 DEF MInv, Places, OwnerInside, Locked, mutexes
<1> QED BY <1>2, <1>3, <1>4 DEF MInv

LEMMA InitM == Init => MInv
<1> SUFFICES ASSUME Init PROVE MInv
  OBVIOUS
<1>1. Types
  BY DEF Init, SyncInit, Types
<1>2. CurrentIsReady /\ Waits /\ Places
  BY DEF Init, SyncInit, CurrentIsReady, Waits, Places, InCall
<1>3. OwnerInside
  BY Objects DEF Init, SyncInit, OwnerInside, Locked
<1> QED BY <1>1, <1>2, <1>3 DEF MInv

LEMMA NextM == MInv /\ [Next]_vars => MInv'
<1> SUFFICES ASSUME MInv, [Next]_vars PROVE MInv'
  OBVIOUS
<1>1. CASE UNCHANGED vars
  <2>1. /\ UNCHANGED <<pth_current, state, waitfor, mx_owner, mx_count, pc, at>>
        /\ cn_signaled' \in [Conds -> BOOLEAN] /\ cn_waiters' \in [Conds -> Int]
        /\ items' \in Int
    BY <1>1 DEF vars, sched, mutexes, conds, MInv, Types
  <2> QED BY <2>1, StillOK
<1>2. CASE Next
  BY <1>2, EnterM, EnterWaitM, LeaveM, PutM, NotifyOneM, TakeM, AwaitItemM, AwaitReturnsM,
     CancellationM, YieldM, DispatchM DEF Next
<1> QED BY <1>1, <1>2

(* pth_cond_await releases the mutex for the time of its wait and returns  *)
(* with it, whatever the wait was ended by: the condition, an event that   *)
(* the caller added, or a cancellation, which the handler prepares for by  *)
(* acquiring it. So a thread that runs where it has the mutex owns it.     *)
THEOREM InsideIsOwner == Spec => []InsideOwns
<1>1. MInv => InsideOwns
  BY DEF MInv, OwnerInside, InsideOwns, Alive
<1> QED BY <1>1, InitM, NextM, PTL DEF Spec

-----------------------------------------------------------------------------
(*                     No wake-up is lost: the steps                       *)

\* Steps that leave a sleeper asleep, a notification due, a signal set.
LEMMA NobodyFallsAsleep ==
    ASSUME IInv, items' > 0 => items > 0,
           Consumers \subseteq Alive' => Consumers \subseteq Alive,
           cn_signaled[cn] => cn_signaled'[cn],
           \A t \in Producers : at[t] \in {"put", "left"} => at'[t] \in {"put", "left"},
           \A t \in Consumers : Asleep(t)' => Asleep(t)
    PROVE  NoLostWakeup'
BY DEF IInv, NoLostWakeup

LEMMA SomebodyUp ==
    ASSUME NEW c \in Consumers, state'[c] # "waiting" \/ pc'[c] # "await"
    PROVE  NoLostWakeup'
BY DEF NoLostWakeup, Asleep, Waiting

\* A step of a running thread that changes only what it says.
LEMMA RunnerKeeps ==
    ASSUME IInv, UNCHANGED <<state, pc, cn_waiters>>, items' > 0 => items > 0,
           cn_signaled[cn] => cn_signaled'[cn],
           \A t \in Producers : at[t] \in {"put", "left"} => at'[t] \in {"put", "left"}
    PROVE  WaitersCounted' /\ NoLostWakeup'
<1>1. WaitersCounted'
  BY DEF IInv, WaitersCounted, Sleepers
<1>2. /\ Consumers \subseteq Alive' => Consumers \subseteq Alive
      /\ \A t \in Consumers : Asleep(t)' => Asleep(t)
  BY DEF Alive, Asleep, Waiting
<1> QED BY <1>1, <1>2, NobodyFallsAsleep

LEMMA EnterN == ASSUME IInv, NEW c \in Threads, Enter(c) PROVE WaitersCounted' /\ NoLostWakeup'
<1>1. /\ Running(c) \/ (Back(c) /\ pc[c] = "acquire")
      /\ Moves(c, "out", "in") /\ Goto(c, "run") /\ state' = state
      /\ UNCHANGED <<conds, items>>
  BY DEF Enter, AcquireNow, sched, Unlink
<1>2. pc[c] \notin InCall
  BY <1>1, WhoRuns DEF IInv, InCall
<1>3. Sleepers' = Sleepers
  BY <1>1, <1>2 DEF Sleepers, Goto, InCall, IInv, MInv, Types
<1>4. WaitersCounted'
  BY <1>1, <1>3 DEF IInv, WaitersCounted, conds
<1>5. /\ Consumers \subseteq Alive' => Consumers \subseteq Alive
      /\ \A t \in Consumers : Asleep(t)' => Asleep(t)
  BY <1>1 DEF Alive, Asleep, Waiting, Goto, IInv, MInv, Types
<1>6. \A t \in Producers : at[t] \in {"put", "left"} => at'[t] \in {"put", "left"}
  BY <1>1, BufferAssumption, MovesTypes DEF IInv
<1>7. cn_signaled' = cn_signaled /\ items' = items
  BY <1>1 DEF conds
<1> QED BY <1>4, <1>5, <1>6, <1>7, NobodyFallsAsleep

LEMMA EnterWaitN ==
    ASSUME IInv, NEW c \in Threads, EnterWait(c) PROVE WaitersCounted' /\ NoLostWakeup'
<1>1. /\ Running(c) \/ (Back(c) /\ pc[c] = "acquire")
      /\ Goto(c, "acquire") /\ Wait(c, {MUTEX(mx)})
      /\ UNCHANGED <<conds, items, at>>
  BY DEF EnterWait, AcquireWait
<1>2. pc[c] \notin InCall /\ state[c] = "ready"
  BY <1>1, WhoRuns DEF IInv, InCall
<1>3. Sleepers' = Sleepers
  BY <1>1, <1>2 DEF Sleepers, Goto, InCall, IInv, MInv, Types
<1>4. WaitersCounted'
  BY <1>1, <1>3 DEF IInv, WaitersCounted, conds
<1>5. /\ Consumers \subseteq Alive' => Consumers \subseteq Alive
      /\ \A t \in Consumers : Asleep(t)' => Asleep(t)
  BY <1>1, <1>2 DEF Alive, Asleep, Waiting, Goto, Wait, IInv, MInv, Types
<1>6. cn_signaled' = cn_signaled /\ items' = items /\ at' = at
  BY <1>1 DEF conds
<1> QED BY <1>4, <1>5, <1>6, NobodyFallsAsleep

LEMMA LeaveN == ASSUME IInv, NEW c \in Threads, Leave(c) PROVE WaitersCounted' /\ NoLostWakeup'
<1>1. /\ Moves(c, "in", "out") \/ Moves(c, "put", "left")
      /\ UNCHANGED <<sched, conds, pc, items>>
  BY DEF Leave
<1>2. \A t \in Producers : at[t] \in {"put", "left"} => at'[t] \in {"put", "left"}
  BY <1>1, BufferAssumption, MovesTypes DEF IInv
<1>3. UNCHANGED <<state, pc, cn_waiters, cn_signaled, items>>
  BY <1>1 DEF sched, conds
<1> QED BY <1>2, <1>3, RunnerKeeps

\* From here to its notification the producer has it due.
LEMMA PutN == ASSUME IInv, NEW c \in Threads, Put(c) PROVE WaitersCounted' /\ NoLostWakeup'
<1>1. /\ c \in Producers /\ Moves(c, "in", "put") /\ UNCHANGED <<conds, pc>>
  BY DEF Put
<1>2. WaitersCounted'
  BY <1>1 DEF IInv, WaitersCounted, Sleepers, conds
<1>3. at'[c] = "put"
  BY <1>1 DEF Moves, IInv, MInv, Types
<1> QED BY <1>1, <1>2, <1>3 DEF NoLostWakeup

\* The signal is set if there is anybody to take it.
LEMMA NotifyOneN ==
    ASSUME IInv, NEW c \in Threads, NotifyOne(c) PROVE WaitersCounted' /\ NoLostWakeup'
<1>1. /\ UNCHANGED <<state, pc, cn_waiters, items>>
      /\ cn_waiters[cn] > 0 => cn_signaled' = [cn_signaled EXCEPT ![cn] = TRUE]
  BY DEF NotifyOne, Notify, Signal, pth_yield, sched, conds
<1>2. WaitersCounted'
  BY <1>1 DEF IInv, WaitersCounted, Sleepers
<1>3. CASE cn_waiters[cn] > 0
  <2>1. cn_signaled'[cn]
    BY <1>1, <1>3, Objects DEF IInv, MInv, Types
  <2> QED BY <1>2, <2>1 DEF NoLostWakeup
<1>4. CASE ~(cn_waiters[cn] > 0)
  <2>1. Cardinality(Sleepers) = 0
    BY <1>4, SleepersFinite, Objects DEF IInv, WaitersCounted, MInv, Types
  <2>2. Sleepers = {}
    BY <2>1, SleepersFinite, FS_EmptySet
  <2>3. PICK t \in Consumers : t \in Threads
    BY BufferAssumption
  <2>4. pc'[t] # "await"
    BY <1>1, <2>2, <2>3 DEF Sleepers, InCall
  <2> QED BY <1>2, <2>3, <2>4, SomebodyUp
<1> QED BY <1>3, <1>4

LEMMA TakeN == ASSUME IInv, NEW c \in Threads, Take(c) PROVE WaitersCounted' /\ NoLostWakeup'
<1>1. items > 0 /\ UNCHANGED <<sched, conds, pc, at>>
  BY DEF Take
<1> QED BY <1>1, RunnerKeeps DEF sched, conds

\* Nobody goes to sleep but on an empty buffer.
LEMMA AwaitItemN ==
    ASSUME IInv, NEW c \in Threads, AwaitItem(c) PROVE WaitersCounted' /\ NoLostWakeup'
<1>1. Running(c) /\ items = 0 /\ items' = items
  BY DEF AwaitItem
<1>2. NoLostWakeup'
  BY <1>1 DEF NoLostWakeup
<1>3. CASE ShortCircuit(c)
  BY <1>2, <1>3 DEF ShortCircuit, IInv, WaitersCounted, Sleepers
<1>4. ASSUME NEW extra \in Extras, Await(c, extra) PROVE WaitersCounted'
  <2>1. pc[c] = "run" /\ Goto(c, "await") /\ "await" \in InCall
    BY <1>1, <1>4, WhoRuns DEF IInv, Await, InCall
  <2>2. Cardinality(Sleepers') = Cardinality(Sleepers) + 1
    BY <2>1, SleeperComes DEF IInv
  <2>3. cn_waiters'[cn] = cn_waiters[cn] + 1
    BY <1>4, Objects DEF Await, IInv, MInv, Types
  <2>4. cn_waiters[cn] \in Int
    BY Objects DEF IInv, MInv, Types
  <2> QED BY <2>2, <2>3, <2>4, SleepersFinite DEF IInv, WaitersCounted
<1> QED BY <1>2, <1>3, <1>4 DEF AwaitItem

LEMMA AwaitReturnsN ==
    ASSUME IInv, NEW c \in Threads, AwaitReturns(c) PROVE WaitersCounted' /\ NoLostWakeup'
<1>1. Back(c) /\ pc[c] \in InCall /\ (AwaitDone(c) \/ Reacquire(c))
  BY DEF AwaitReturns, AwaitDone, Reacquire, InAwait, InCall
<1>2. c \in Consumers
  BY <1>1 DEF IInv, MInv, Places
<1>3. CASE Reacquire(c)
  <2>1. Goto(c, "reacquire") /\ UNCHANGED conds
    BY <1>3 DEF Reacquire
  <2>2. Sleepers' = Sleepers /\ pc'[c] = "reacquire"
    BY <1>1, <2>1 DEF Sleepers, Goto, InCall, IInv, MInv, Types
  <2>3. WaitersCounted'
    BY <2>1, <2>2 DEF IInv, WaitersCounted, conds
  <2> QED BY <1>2, <2>2, <2>3, SomebodyUp
<1>4. CASE AwaitDone(c)
  <2>1. Goto(c, "run") /\ cn_waiters' = [cn_waiters EXCEPT ![cn] = @ - 1]
    BY <1>4 DEF AwaitDone
  <2>2. Cardinality(Sleepers') = Cardinality(Sleepers) - 1
    BY <1>1, <2>1, SleeperGoes DEF IInv
  <2>3. cn_waiters'[cn] = cn_waiters[cn] - 1 /\ cn_waiters[cn] \in Int
    BY <2>1, Objects DEF IInv, MInv, Types
  <2>4. WaitersCounted'
    BY <2>2, <2>3, SleepersFinite DEF IInv, WaitersCounted
  <2>5. pc'[c] = "run"
    BY <2>1 DEF Goto, IInv, MInv, Types
  <2> QED BY <1>2, <2>4, <2>5, SomebodyUp
<1> QED BY <1>1, <1>3, <1>4

LEMMA CancellationN ==
    ASSUME IInv, NEW c \in Threads, Cancellation(c) PROVE WaitersCounted' /\ NoLostWakeup'
<1>1. CASE /\ pc[c] # "run" /\ Die(c) /\ Goto(c, "run")
           /\ at' = [t \in Threads |-> IF state'[t] = "dead" THEN "out" ELSE at[t]]
           /\ UNCHANGED <<mutexes, items, cn_signaled>>
           /\ \/ UNCHANGED cn_waiters
              \/ cn_waiters' = [cn_waiters EXCEPT ![cn] = @ - 1] /\ pc[c] \in InCall
  <2>1. cn_waiters[cn] \in Int
    BY Objects DEF IInv, MInv, Types
  <2>2. CASE pc[c] \in InCall
    <3>1. Cardinality(Sleepers') = Cardinality(Sleepers) - 1
      BY <1>1, <2>2, SleeperGoes DEF IInv
    <3>2. cn_waiters'[cn] >= cn_waiters[cn] - 1
      BY <1>1, <2>1, Objects DEF IInv, MInv, Types
    <3>3. cn_waiters'[cn] \in Int
      BY <1>1, <2>1, Objects DEF IInv, MInv, Types
    <3>4. WaitersCounted'
      BY <2>1, <3>1, <3>2, <3>3, SleepersFinite DEF IInv, WaitersCounted
    <3>5. c \in Consumers /\ state'[c] = "dead"
      BY <1>1, <2>2 DEF Die, IInv, MInv, Types, Places
    <3> QED BY <3>4, <3>5, SomebodyUp
  <2>3. CASE pc[c] \notin InCall
    <3>1. at[c] = "out"
      BY <1>1, <2>3 DEF IInv, MInv, Types, Places
    <3>2. Sleepers' = Sleepers /\ UNCHANGED cn_waiters
      BY <1>1, <2>3 DEF Sleepers, Goto, InCall, IInv, MInv, Types
    <3>3. WaitersCounted'
      BY <3>2 DEF IInv, WaitersCounted
    <3>4. \A t \in Threads : t # c => state'[t] = state[t] /\ pc'[t] = pc[t]
      BY <1>1 DEF Die, Goto, IInv, MInv, Types
    <3>5. /\ state'[c] = "dead" /\ \A t \in Threads : at'[t] = IF state'[t] = "dead" THEN "out" ELSE at[t]
      BY <1>1 DEF Die, IInv, MInv, Types
    <3>6. \A t \in Threads : at'[t] = at[t]
      BY <3>1, <3>4, <3>5 DEF IInv, MInv, Waits
    <3>7. /\ Consumers \subseteq Alive' => Consumers \subseteq Alive
          /\ \A t \in Consumers : Asleep(t)' => Asleep(t)
      BY <3>4, <3>5, BufferAssumption DEF Alive, Asleep, Waiting
    <3>8. \A t \in Producers : at[t] \in {"put", "left"} => at'[t] \in {"put", "left"}
      BY <3>6, BufferAssumption
    <3> QED BY <1>1, <3>3, <3>7, <3>8, NobodyFallsAsleep
  <2> QED BY <2>2, <2>3
<1>2. CASE /\ pc[c] \in InCall /\ mx_owner[mx] # c
           /\ Wait(c, {MUTEX(mx)}) /\ Goto(c, "cleanup")
           /\ UNCHANGED <<mutexes, conds, items, at>>
  <2>1. c \in Consumers
    BY <1>2 DEF IInv, MInv, Places
  <2>2. Sleepers' = Sleepers /\ pc'[c] = "cleanup"
    BY <1>2 DEF Sleepers, Goto, InCall, IInv, MInv, Types
  <2>3. WaitersCounted'
    BY <1>2, <2>2 DEF IInv, WaitersCounted, conds
  <2> QED BY <2>1, <2>2, <2>3, SomebodyUp
<1>3. CASE UNCHANGED <<sched, mutexes, conds, pc, items, at>>
  BY <1>3, RunnerKeeps DEF sched, conds
<1> QED BY <1>1, <1>2, <1>3, CancellationKinds DEF IInv

\* A signal is cleared for a consumer that has got it, and is up by then.
LEMMA DispatchN ==
    ASSUME IInv, NEW next \in Threads, Dispatch(next) PROVE WaitersCounted' /\ NoLostWakeup'
<1>1. /\ state' \in [Threads -> {"ready", "waiting", "dead"}]
      /\ \A t \in Threads : \/ state'[t] = state[t]
                            \/ state[t] = "waiting" /\ state'[t] = "ready"
      /\ \/ cn_signaled'[cn] = cn_signaled[cn]
         \/ \E t \in Threads : state'[t] = "ready" /\ COND(cn) \in waitfor[t]
      /\ UNCHANGED <<cn_waiters, pc, items, at>>
  BY RoundWakes DEF IInv
<1>2. WaitersCounted'
  BY <1>1 DEF IInv, WaitersCounted, Sleepers
<1>3. CASE cn_signaled'[cn] = cn_signaled[cn]
  <2>1. /\ Consumers \subseteq Alive' => Consumers \subseteq Alive
        /\ \A t \in Consumers : Asleep(t)' => Asleep(t)
    BY <1>1, BufferAssumption DEF Alive, Asleep, Waiting
  <2> QED BY <1>1, <1>2, <1>3, <2>1, NobodyFallsAsleep
<1>4. ASSUME NEW t \in Threads, state'[t] = "ready", COND(cn) \in waitfor[t]
      PROVE  NoLostWakeup'
  <2>1. t \in Consumers
    BY <1>4 DEF IInv, MInv, Waits, Places, InCall
  <2> QED BY <1>4, <2>1, SomebodyUp
<1> QED BY <1>1, <1>2, <1>3, <1>4

LEMMA InitN == Init => WaitersCounted /\ NoLostWakeup
<1> SUFFICES ASSUME Init PROVE WaitersCounted /\ NoLostWakeup
  OBVIOUS
<1>1. Sleepers = {} /\ cn_waiters[cn] = 0
  BY Objects DEF Init, SyncInit, Sleepers, InCall
<1>2. Cardinality(Sleepers) = 0
  BY <1>1, FS_EmptySet
<1> QED BY <1>1, <1>2 DEF Init, WaitersCounted, NoLostWakeup

LEMMA NextN == IInv /\ [Next]_vars => IInv'
<1> SUFFICES ASSUME IInv, [Next]_vars PROVE IInv'
  OBVIOUS
<1>1. MInv'
  BY NextM DEF IInv
<1>2. CASE UNCHANGED vars
  BY <1>2, RunnerKeeps, <1>1 DEF vars, sched, conds, IInv
<1>3. ASSUME NEW c \in Threads, Yield(c) PROVE WaitersCounted' /\ NoLostWakeup'
  BY <1>3, RunnerKeeps DEF Yield, pth_yield, conds
<1>4. CASE Next
  BY <1>1, <1>3, <1>4, EnterN, EnterWaitN, LeaveN, PutN, NotifyOneN, TakeN, AwaitItemN,
     AwaitReturnsN, CancellationN, DispatchN DEF Next, IInv
<1> QED BY <1>2, <1>4

(* pth_cond_await, pth_cond_notify and the scheduler's event manager: a    *)
(* notification wakes one who waits for it or finds nobody who waits. It   *)
(* is not lost between the two, also not when the waits of others end by   *)
(* their own events or are cancelled, which leaves the number of waiters   *)
(* too high but never too low. Where cancelled consumers have ended there  *)
(* is no such promise.                                                     *)
THEOREM NoWakeupIsLost == Spec => []NoLostWakeup
<1>1. Init => IInv
  BY InitM, InitN DEF IInv
<1>2. IInv => NoLostWakeup
  BY DEF IInv
<1> QED BY <1>1, <1>2, NextN, PTL DEF Spec

-----------------------------------------------------------------------------
(* The barrier: a round is complete when as many threads as the barrier is *)
(* for have come, and not before that does one of them leave.              *)

BarrierTypes ==
    /\ pc \in [Threads -> {"run", "acquire", "await", "reacquire", "notify"}]
    /\ place \in [Threads -> {"out", "in", "last"}]
    /\ passed \in [Threads -> BOOLEAN]
    /\ cycle \in [Threads -> BOOLEAN] /\ br_cycle \in BOOLEAN
    /\ br_threshold \in Nat \ {0} /\ br_count \in 1 .. br_threshold

BarrierPlaces ==
    \A t \in Threads :
        /\ place[t] = "in" <=> pc[t] \in {"await", "reacquire"}
        /\ place[t] = "last" <=> pc[t] = "notify"
        /\ place[t] = "last" => passed[t]

\* Who waits in a round that is not complete would see its end.
CyclesAgree == \A t \in Threads : place[t] = "in" /\ ~passed[t] => cycle[t] = br_cycle

\* The threads that have come for this round, without its last one.
Arrived == {t \in Threads : place[t] = "in" /\ ~passed[t]}

ArrivedCounted == br_count = br_threshold - Cardinality(Arrived)

\* The inductive invariant.
BarrierInv == BarrierTypes /\ BarrierPlaces /\ CyclesAgree /\ ArrivedCounted

-----------------------------------------------------------------------------
LEMMA ArrivedFinite == IsFiniteSet(Arrived) /\ Cardinality(Arrived) \in Nat
<1>1. Arrived \subseteq Threads /\ IsFiniteSet(Threads)
  BY BarrierAssumption DEF Arrived
<1> QED BY <1>1, FS_Subset, FS_CardinalityType

\* Steps that leave the barrier as it is, and the thread outside or inside.
LEMMA QuietKeeps ==
    ASSUME BarrierInv, UNCHANGED <<br_threshold, br_count, br_cycle, cycle, place, passed>>,
           NEW c \in Threads,
           \/ UNCHANGED pc
           \/ \E k \in {"run", "acquire"} : pc[c] \in {"run", "acquire"} /\ Goto(c, k)
           \/ \E k \in {"await", "reacquire"} : pc[c] \in {"await", "reacquire"} /\ Goto(c, k)
    PROVE  BarrierInv'
<1>1. BarrierTypes'
  BY DEF BarrierInv, BarrierTypes, Goto
<1>2. BarrierPlaces'
  BY DEF BarrierInv, BarrierTypes, BarrierPlaces, Goto
<1>3. CyclesAgree' /\ ArrivedCounted'
  BY DEF BarrierInv, CyclesAgree, ArrivedCounted, Arrived
<1> QED BY <1>1, <1>2, <1>3 DEF BarrierInv

LEMMA ReachAndWaitKeeps ==
    ASSUME BarrierInv, NEW c \in Threads, ReachAndWait(c)
    PROVE  BarrierInv'
<1>1. /\ place[c] = "out" /\ br_count # 1 /\ br_count' = br_count - 1
      /\ cycle' = [cycle EXCEPT ![c] = br_cycle] /\ pc' = [pc EXCEPT ![c] = "await"]
      /\ place' = [place EXCEPT ![c] = "in"] /\ passed' = [passed EXCEPT ![c] = FALSE]
      /\ UNCHANGED <<br_threshold, br_cycle>>
  BY DEF ReachAndWait, Reach, MayReach, Goto
<1>2. BarrierTypes'
  BY <1>1 DEF BarrierInv, BarrierTypes
<1>3. BarrierPlaces' /\ CyclesAgree'
  BY <1>1 DEF BarrierInv, BarrierTypes, BarrierPlaces, CyclesAgree
<1>4. ArrivedCounted'
  <2>1. Arrived' = Arrived \cup {c} /\ c \notin Arrived
    BY <1>1 DEF BarrierInv, BarrierTypes, Arrived
  <2>2. Cardinality(Arrived') = Cardinality(Arrived) + 1
    BY <2>1, ArrivedFinite, FS_AddElement
  <2> QED BY <1>1, <2>2, ArrivedFinite DEF BarrierInv, BarrierTypes, ArrivedCounted
<1> QED BY <1>2, <1>3, <1>4 DEF BarrierInv

\* The last thread of a round lets all go that are inside.
LEMMA ReachLastKeeps ==
    ASSUME BarrierInv, NEW c \in Threads, ReachLast(c)
    PROVE  BarrierInv'
<1>1. /\ place[c] = "out" /\ br_count = 1 /\ br_count' = br_threshold
      /\ cycle' = [cycle EXCEPT ![c] = br_cycle] /\ br_cycle' = ~br_cycle
      /\ passed' = [t \in Threads |-> t \in Inside \cup {c} \/ passed[t]]
      /\ UNCHANGED br_threshold
      /\ \/ pc' = [pc EXCEPT ![c] = "notify"] /\ place' = [place EXCEPT ![c] = "last"]
         \/ pc' = [pc EXCEPT ![c] = "run"] /\ UNCHANGED place
  BY DEF ReachLast, Reach, MayReach, Completes, NotifyWaiters, PassAlone, Goto
<1>2. BarrierTypes'
  BY <1>1 DEF BarrierInv, BarrierTypes
<1>3. \A t \in Threads : place'[t] # "out" => passed'[t]
  BY <1>1 DEF BarrierInv, BarrierTypes, Inside
<1>4. BarrierPlaces'
  <2>1. pc[c] \in {"run", "acquire"}
    BY <1>1 DEF BarrierInv, BarrierTypes, BarrierPlaces
  <2> QED BY <1>1, <1>3, <2>1 DEF BarrierInv, BarrierTypes, BarrierPlaces
<1>5. CyclesAgree' /\ Arrived' = {}
  BY <1>3 DEF CyclesAgree, Arrived
<1>6. ArrivedCounted'
  <2>1. Cardinality(Arrived') = 0
    BY <1>5, FS_EmptySet
  <2> QED BY <1>1, <2>1 DEF BarrierInv, BarrierTypes, ArrivedCounted
<1> QED BY <1>2, <1>4, <1>5, <1>6 DEF BarrierInv

\* Only a thread whose round is complete leaves.
LEMMA LeaversPassed ==
    ASSUME BarrierInv, NEW c \in Threads, LeaveLast(c) \/ LeaveOther(c)
    PROVE  passed[c]
BY DEF LeaveLast, LeaveOther, InAwait, BarrierInv, BarrierTypes, BarrierPlaces, CyclesAgree

LEMMA LeaveKeeps ==
    ASSUME BarrierInv, NEW c \in Threads, LeaveLast(c) \/ LeaveOther(c)
    PROVE  BarrierInv'
<1>1. /\ pc' = [pc EXCEPT ![c] = "run"] /\ place' = [place EXCEPT ![c] = "out"]
      /\ UNCHANGED <<br_threshold, br_count, br_cycle, cycle, passed>>
  BY DEF LeaveLast, LeaveOther, Goto
<1>2. BarrierTypes' /\ BarrierPlaces' /\ CyclesAgree'
  BY <1>1 DEF BarrierInv, BarrierTypes, BarrierPlaces, CyclesAgree
<1>3. Arrived' = Arrived
  BY <1>1, LeaversPassed DEF BarrierInv, BarrierTypes, Arrived
<1> QED BY <1>1, <1>2, <1>3 DEF BarrierInv, ArrivedCounted

LEMMA OtherStepsKeep ==
    ASSUME BarrierInv, NEW c \in Threads,
           \/ BarrierDispatch(c) \/ BarrierYield(c) \/ WaitAgain(c) \/ AwaitAgain(c)
           \/ ReachWait(c) \/ CancelledInAcquire(c) \/ \E u \in Threads : CancelRequest(c, u)
    PROVE  /\ BarrierInv'
           /\ UNCHANGED <<br_threshold, br_count, br_cycle, cycle, place, passed>>
<1>1. UNCHANGED <<br_threshold, br_count, br_cycle, cycle, place, passed>>
  <2>1. CASE AwaitAgain(c)
    BY <2>1 DEF AwaitAgain
  <2>2. CASE ~AwaitAgain(c)
    <3>1. UNCHANGED barrier
      BY <2>2 DEF BarrierDispatch, BarrierYield, WaitAgain, ReachWait, CancelledInAcquire, CancelRequest
    <3> QED BY <3>1 DEF barrier
  <2> QED BY <2>1, <2>2
<1>2. CASE BarrierDispatch(c) \/ BarrierYield(c) \/ \E u \in Threads : CancelRequest(c, u)
  <2>1. UNCHANGED pc
    BY <1>2 DEF BarrierDispatch, BarrierYield, CancelRequest, CancelDeferred
  <2> QED BY <1>1, <2>1, QuietKeeps
<1>3. CASE WaitAgain(c) \/ AwaitAgain(c)
  <2>1. \E k \in {"await", "reacquire"} : pc[c] \in {"await", "reacquire"} /\ Goto(c, k)
    BY <1>3 DEF WaitAgain, AwaitAgain, Reacquire, InAwait
  <2> QED BY <1>1, <2>1, QuietKeeps
<1>4. CASE ReachWait(c) \/ CancelledInAcquire(c)
  <2>1. place[c] = "out" \/ pc[c] = "acquire"
    BY <1>4 DEF ReachWait, MayReach, CancelledInAcquire
  <2>2. pc[c] \in {"run", "acquire"}
    BY <2>1 DEF BarrierInv, BarrierTypes, BarrierPlaces
  <2>3. \E k \in {"run", "acquire"} : Goto(c, k)
    BY <1>4 DEF ReachWait, AcquireWait, CancelledInAcquire, CancelledElsewhere
  <2> QED BY <1>1, <2>2, <2>3, QuietKeeps
<1> QED BY <1>1, <1>2, <1>3, <1>4

LEMMA StutterKeeps == ASSUME BarrierInv, UNCHANGED barrierVars PROVE BarrierInv'
BY DEF BarrierInv, BarrierTypes, BarrierPlaces, CyclesAgree, ArrivedCounted, Arrived, barrierVars, barrier

LEMMA BarrierInitOK == BarrierInit => BarrierInv
<1> SUFFICES ASSUME BarrierInit PROVE BarrierInv
  OBVIOUS
<1>1. br_threshold \in Nat \ {0} /\ br_count = br_threshold
  BY BarrierAssumption DEF BarrierInit
<1>2. BarrierTypes /\ BarrierPlaces /\ CyclesAgree
  <2>1. br_count \in 1 .. br_threshold
    BY <1>1
  <2>2. BarrierTypes
    BY <1>1, <2>1 DEF BarrierInit, BarrierTypes
  <2>3. BarrierPlaces /\ CyclesAgree
    BY DEF BarrierInit, BarrierPlaces, CyclesAgree
  <2> QED BY <2>2, <2>3
<1>3. ArrivedCounted
  <2>1. Arrived = {}
    BY DEF BarrierInit, Arrived
  <2>2. Cardinality(Arrived) = 0
    BY <2>1, FS_EmptySet
  <2> QED BY <1>1, <2>2 DEF ArrivedCounted
<1> QED BY <1>2, <1>3 DEF BarrierInv

LEMMA BarrierNextOK == BarrierInv /\ [BarrierNext]_barrierVars => BarrierInv'
<1>1. ASSUME BarrierInv, BarrierNext PROVE BarrierInv'
  BY <1>1, ReachAndWaitKeeps, ReachLastKeeps, LeaveKeeps, OtherStepsKeep DEF BarrierNext, GoesOnStep
<1> QED BY <1>1, StutterKeeps

(* pth_barrier_reach: whatever ends its wait, the broadcast, a request of  *)
(* cancellation or another round, a thread stays in the barrier until the  *)
(* round it has come for is complete.                                      *)
THEOREM NobodyLeavesEarly == BarrierSpec => LeavesTogether
<1> DEFINE Leaves == \A t \in Threads : place[t] # "out" /\ place'[t] = "out" => passed[t]
<1>1. BarrierInv /\ [BarrierNext]_barrierVars => [Leaves]_barrierVars
  <2> SUFFICES ASSUME BarrierInv, BarrierNext, NEW t \in Threads, place[t] # "out", place'[t] = "out"
               PROVE  passed[t]
    OBVIOUS
  <2>1. PICK c \in Threads :
           \/ ReachAndWait(c) \/ ReachLast(c) \/ LeaveLast(c) \/ LeaveOther(c)
           \/ UNCHANGED place
    BY OtherStepsKeep DEF BarrierNext, GoesOnStep
  <2>2. LeaveLast(c) \/ LeaveOther(c)
    BY <2>1 DEF ReachAndWait, ReachLast, NotifyWaiters, PassAlone, BarrierInv, BarrierTypes
  <2>3. t = c
    BY <2>2 DEF LeaveLast, LeaveOther, BarrierInv, BarrierTypes
  <2> QED BY <2>2, <2>3, LeaversPassed
<1> QED BY <1>1, BarrierInitOK, BarrierNextOK, PTL DEF BarrierSpec, LeavesTogether

(* ... and a round is complete, for which br_cycle is turned over, with    *)
(* the arrival of as many threads as the barrier was initialised for: one  *)
(* more than are waiting in it, those that are about to leave it aside.    *)
RoundFull == br_cycle' # br_cycle => Cardinality(Arrived) + 1 = br_threshold

THEOREM RoundsAreFull == BarrierSpec => [][RoundFull]_barrierVars
<1>1. BarrierInv /\ [BarrierNext]_barrierVars => [RoundFull]_barrierVars
  <2> SUFFICES ASSUME BarrierInv, BarrierNext, br_cycle' # br_cycle
               PROVE  Cardinality(Arrived) + 1 = br_threshold
    BY DEF RoundFull
  <2>1. PICK c \in Threads :
           \/ ReachAndWait(c) \/ ReachLast(c) \/ LeaveLast(c) \/ LeaveOther(c)
           \/ UNCHANGED br_cycle
    BY OtherStepsKeep DEF BarrierNext, GoesOnStep
  <2>2. br_count = 1
    BY <2>1 DEF ReachAndWait, ReachLast, LeaveLast, LeaveOther
  <2> QED BY <2>2, ArrivedFinite DEF BarrierInv, BarrierTypes, ArrivedCounted
<1> QED BY <1>1, BarrierInitOK, BarrierNextOK, PTL DEF BarrierSpec

=============================================================================
