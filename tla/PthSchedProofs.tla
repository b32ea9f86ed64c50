--------------------------- MODULE PthSchedProofs ----------------------------
(***************************************************************************)
(* Proofs about PthSched, for every set of threads, every choice of        *)
(* priorities and attributes, and every set of calls the application makes:*)
(* the inductive invariant, the lives of threads, their events, joins.     *)
(***************************************************************************)
EXTENDS PthSched, PrioQueueProofs

\* The thread that has the processor has not been cancelled, suspended or
\* killed by anybody else; only its own call has changed its state.
RunningIsReady ==
    /\ phase = "thread" => state[pth_current] = "ready"
    /\ phase = "reap" => state[pth_current] \in {"ready", "waiting", "dead"}

\* A thread inside pth_join has its thread event linked.
JoinHasEvent ==
    \A t \in Threads :
        pc[t] = "join" => \E u \in Threads \cup {NULL} : TID(u) \in events[t]

\* From the poll to the dispatch there is somebody to run, or somebody about
\* to be woken or admitted, unless select has been given a random timeout.
SomebodyToRun ==
    /\ phase = "wake" => \/ RQ # <<>>
                         \/ NQ # <<>>
                         \/ \E t \in Members(WQ) : Wakes(t)
                         \/ TimeoutRefused
    /\ phase = "new" => RQ # <<>> \/ NQ # <<>> \/ TimeoutRefused

\* The inductive invariant.
IInv ==
    /\ TypeOK
    /\ EachThreadInItsPlace
    /\ RunningIsReady
    /\ JoinHasEvent
    /\ SomebodyToRun

-----------------------------------------------------------------------------
(*                        Parts of the invariant                           *)

\* A sequence of entries in which no thread occurs twice.
IsQueue(q) == q \in Seq(Entry(Threads)) /\ Distinct(q)

AreQueues == IsQueue(NQ) /\ IsQueue(RQ) /\ IsQueue(WQ) /\ IsQueue(SQ) /\ IsQueue(DQ)

\* The place of one thread.
Placed(t) ==
    /\ t \in Members(NQ) => state[t] = "new"
    /\ t \in Members(RQ) => state[t] = "ready"
    /\ t \in Members(WQ) => state[t] = "waiting"
    /\ t \in Members(DQ) => state[t] = "dead" /\ joinable[t]
    /\ t \in Members(SQ) => state[t] \in {"new", "ready", "waiting"} /\ ~InStateQueue(t)
    /\ Valid(t) <=> (t \in OnCPU \/ t \in Queued)
    /\ ~(t \in OnCPU /\ t \in Queued)

\* The types of the variables other than the queues.
RestOK ==
    /\ pth_current \in Threads \cup {NULL}
    /\ pth_favournew \in BOOLEAN
    /\ phase \in {"thread", "reap", "mark", "wake", "new", "exited", "killed",
                "aborted", "undefined"}
    /\ state \in [Threads -> {"none", "new", "ready", "waiting", "dead", "freed"}]
    /\ prio \in [Threads -> {p \in Int : p <= PRIO_MAX}]
    /\ joinable \in [Threads -> BOOLEAN]
    /\ cancelstate \in [Threads -> CancelStates]
    /\ cancelreq \in [Threads -> BOOLEAN]
    /\ events \in [Threads -> SUBSET Event]
    /\ occurred \in [Threads -> SUBSET Event]
    /\ pc \in [Threads -> {"run", "wait", "join", "exit"}]
    /\ phase \in {"thread", "reap", "undefined"} => pth_current \in Threads

\* The same invariant, thread by thread.
Inv ==
    /\ AreQueues
    /\ RestOK
    /\ \A t \in Threads : Placed(t)
    /\ RunningIsReady
    /\ JoinHasEvent
    /\ SomebodyToRun

LEMMA InvIsIInv == Inv <=> IInv
<1>1. AreQueues <=> /\ \A q \in {NQ, RQ, WQ, SQ, DQ} : q \in Seq(Entry(Threads))
                    /\ QueuesDistinct
  BY DEF AreQueues, IsQueue, QueuesDistinct
<1>2. TypeOK <=> /\ \A q \in {NQ, RQ, WQ, SQ, DQ} : q \in Seq(Entry(Threads))
                 /\ RestOK
  BY DEF TypeOK, RestOK, OnCPU
<1>3. ASSUME RestOK
      PROVE  (\A t \in Threads : Placed(t))
               <=> QueuesMatchStates /\ NoThreadLost /\ RunningIsUnqueued
  <2>1. OnCPU \subseteq Threads
    BY <1>3 DEF OnCPU, RestOK
  <2>2. RunningIsUnqueued <=> \A t \in Threads : ~(t \in OnCPU /\ t \in Queued)
    BY <2>1 DEF RunningIsUnqueued
  <2> QED BY <2>2 DEF Placed, QueuesMatchStates, NoThreadLost
<1> QED
  BY <1>1, <1>2, <1>3 DEF Inv, IInv, EachThreadInItsPlace

-----------------------------------------------------------------------------
(*               Queue operations on the scheduler's queues                *)

LEMMA InsertQueue ==
    ASSUME NEW q, IsQueue(q), NEW u \in Threads, u \notin Members(q), NEW p \in Int
    PROVE  /\ IsQueue(Insert(q, p, u))
           /\ Members(Insert(q, p, u)) = Members(q) \cup {u}
           /\ Insert(q, p, u) # <<>>
<1>1. q \in Seq(Entry(Threads)) /\ Distinct(q)
  BY DEF IsQueue
<1>2. Insert(q, p, u) \in Seq(Entry(Threads))
  BY <1>1, InsertProps
<1>5. Insert(q, p, u) # <<>>
  BY <1>1, InsertProps
<1>3. Members(Insert(q, p, u)) = Members(q) \cup {u}
  BY <1>1, InsertProps
<1>4. Distinct(Insert(q, p, u))
  BY <1>1, InsertProps
<1> QED BY <1>2, <1>3, <1>4, <1>5 DEF IsQueue

LEMMA DeleteQueue ==
    ASSUME NEW q, IsQueue(q), NEW u \in Members(q)
    PROVE  /\ IsQueue(Delete(q, u))
           /\ Members(Delete(q, u)) = Members(q) \ {u}
<1>1. q \in Seq(Entry(Threads)) /\ Distinct(q)
  BY DEF IsQueue
<1>2. Delete(q, u) \in Seq(Entry(Threads)) /\ Distinct(Delete(q, u))
  BY <1>1, DeleteProps
<1>3. Members(Delete(q, u)) = Members(q) \ {u}
  BY <1>1, DeleteProps
<1> QED BY <1>2, <1>3 DEF IsQueue

LEMMA FavoriteQueue ==
    ASSUME NEW q, IsQueue(q), NEW u \in Members(q)
    PROVE  /\ IsQueue(Favorite(q, u))
           /\ Members(Favorite(q, u)) = Members(q)
<1>1. q \in Seq(Entry(Threads)) /\ Distinct(q)
  BY DEF IsQueue
<1>2. Favorite(q, u) \in Seq(Entry(Threads)) /\ Distinct(Favorite(q, u))
  BY <1>1, FavoriteProps
<1>3. Members(Favorite(q, u)) = Members(q)
  BY <1>1, FavoriteProps
<1> QED BY <1>2, <1>3 DEF IsQueue

LEMMA PushFavoriteQueue ==
    ASSUME NEW q, IsQueue(q), NEW u \in Threads, u \notin Members(q)
    PROVE  /\ IsQueue(PushFavorite(q, u))
           /\ Members(PushFavorite(q, u)) = Members(q) \cup {u}
           /\ PushFavorite(q, u) # <<>>
<1>1. q \in Seq(Entry(Threads)) /\ Distinct(q)
  BY DEF IsQueue
<1>2. PushFavorite(q, u) \in Seq(Entry(Threads)) /\ PushFavorite(q, u) # <<>>
  BY <1>1, PushFavoriteProps
<1>3. Members(PushFavorite(q, u)) = Members(q) \cup {u}
  BY <1>1, PushFavoriteProps
<1>4. Distinct(PushFavorite(q, u))
  BY <1>1, PushFavoriteProps
<1> QED BY <1>2, <1>3, <1>4 DEF IsQueue

LEMMA IncreaseQueue ==
    ASSUME NEW q, IsQueue(q)
    PROVE  /\ IsQueue(Increase(q))
           /\ Members(Increase(q)) = Members(q)
<1>1. q \in Seq(Entry(Threads)) /\ Distinct(q)
  BY DEF IsQueue
<1>2. Increase(q) \in Seq(Entry(Threads)) /\ Distinct(Increase(q))
  BY <1>1, IncreaseProps
<1>3. Members(Increase(q)) = Members(q)
  BY <1>1, IncreaseProps
<1> QED BY <1>2, <1>3 DEF IsQueue

LEMMA TailQueue ==
    ASSUME NEW q, IsQueue(q), q # <<>>
    PROVE  /\ IsQueue(Tail(q))
           /\ Members(Tail(q)) = Members(q) \ {q[1].th}
           /\ q[1].th \in Members(q) /\ q[1].th \in Threads
           /\ q[Len(q)].th \in Members(q) /\ q[Len(q)].th \in Threads
<1>1. q \in Seq(Entry(Threads)) /\ Distinct(q)
  BY DEF IsQueue
<1>2. Tail(q) \in Seq(Entry(Threads)) /\ Distinct(Tail(q))
  BY <1>1, TailProps
<1>3. Members(Tail(q)) = Members(q) \ {q[1].th}
  BY <1>1, TailProps
<1>4. /\ q[1].th \in Members(q) /\ q[1].th \in Threads
      /\ q[Len(q)].th \in Members(q) /\ q[Len(q)].th \in Threads
  BY <1>1, EndsAreMembers
<1> QED BY <1>2, <1>3, <1>4 DEF IsQueue

LEMMA EmptyQueue == IsQueue(<<>>) /\ Members(<<>>) = {}
BY EmptyQueueProps DEF IsQueue

LEMMA QueueOfThreads ==
    ASSUME NEW q, IsQueue(q)
    PROVE  Members(q) \subseteq Threads
BY MembersAreThreads DEF IsQueue

-----------------------------------------------------------------------------
(*              The queue that a thread's state selects                    *)

\* Deleting a thread from its queue takes it out of all three queues.
LEMMA StateQueueDelete ==
    ASSUME Inv, NEW u \in Threads, InStateQueue(u), OnStateQueue(Delete, u)
    PROVE  /\ IsQueue(NQ)' /\ IsQueue(RQ)' /\ IsQueue(WQ)'
           /\ Members(NQ)' = Members(NQ) \ {u}
           /\ Members(RQ)' = Members(RQ) \ {u}
           /\ Members(WQ)' = Members(WQ) \ {u}
<1>1. Placed(u) /\ IsQueue(NQ) /\ IsQueue(RQ) /\ IsQueue(WQ)
  BY DEF Inv, AreQueues
<1>2. ASSUME NEW q, IsQueue(q), u \in Members(q)
      PROVE  IsQueue(Delete(q, u)) /\ Members(Delete(q, u)) = Members(q) \ {u}
  <2>1. q \in Seq(Entry(Threads)) /\ Distinct(q)
    BY <1>2 DEF IsQueue
  <2>2. Delete(q, u) \in Seq(Entry(Threads)) /\ Distinct(Delete(q, u))
    BY <1>2, <2>1, DeleteProps
  <2>3. Members(Delete(q, u)) = Members(q) \ {u}
    BY <1>2, <2>1, DeleteProps
  <2> QED BY <2>2, <2>3 DEF IsQueue
<1>3. CASE state[u] = "new"
  <2>1. /\ u \in Members(NQ) /\ u \notin Members(RQ) /\ u \notin Members(WQ)
        /\ NQ' = Delete(NQ, u) /\ RQ' = RQ /\ WQ' = WQ
    BY <1>1, <1>3 DEF OnStateQueue, InStateQueue, Placed
  <2> QED BY <1>1, <1>2, <2>1
<1>4. CASE state[u] = "ready"
  <2>1. /\ u \in Members(RQ) /\ u \notin Members(NQ) /\ u \notin Members(WQ)
        /\ RQ' = Delete(RQ, u) /\ NQ' = NQ /\ WQ' = WQ
    BY <1>1, <1>4 DEF OnStateQueue, InStateQueue, Placed
  <2> QED BY <1>1, <1>2, <2>1
<1>5. CASE state[u] = "waiting"
  <2>1. /\ u \in Members(WQ) /\ u \notin Members(NQ) /\ u \notin Members(RQ)
        /\ WQ' = Delete(WQ, u) /\ NQ' = NQ /\ RQ' = RQ
    BY <1>1, <1>5 DEF OnStateQueue, InStateQueue, Placed
  <2> QED BY <1>1, <1>2, <2>1
<1> QED
  BY <1>3, <1>4, <1>5 DEF InStateQueue

\* Favouring a thread in its queue moves nobody.
LEMMA StateQueueFavorite ==
    ASSUME Inv, NEW u \in Threads, InStateQueue(u), OnStateQueue(Favorite, u)
    PROVE  /\ IsQueue(NQ)' /\ IsQueue(RQ)' /\ IsQueue(WQ)'
           /\ Members(NQ)' = Members(NQ)
           /\ Members(RQ)' = Members(RQ)
           /\ Members(WQ)' = Members(WQ)
<1>1. IsQueue(NQ) /\ IsQueue(RQ) /\ IsQueue(WQ)
  BY DEF Inv, AreQueues
<1>2. /\ state[u] = "new" => u \in Members(NQ)
      /\ state[u] = "ready" => u \in Members(RQ)
      /\ state[u] = "waiting" => u \in Members(WQ)
  BY DEF InStateQueue
<1>3. /\ NQ' = NQ \/ (u \in Members(NQ) /\ NQ' = Favorite(NQ, u))
      /\ RQ' = RQ \/ (u \in Members(RQ) /\ RQ' = Favorite(RQ, u))
      /\ WQ' = WQ \/ (u \in Members(WQ) /\ WQ' = Favorite(WQ, u))
  BY <1>2 DEF OnStateQueue
<1> QED
  BY <1>1, <1>3, FavoriteQueue

\* Putting a suspended thread back into the queue that its state selects.
LEMMA StateQueueRequeue ==
    ASSUME Inv, NEW u \in Members(SQ), OnStateQueue(Requeue, u)
    PROVE  /\ IsQueue(NQ)' /\ IsQueue(RQ)' /\ IsQueue(WQ)'
           /\ Members(NQ)' = Members(NQ) \cup (IF state[u] = "new" THEN {u} ELSE {})
           /\ Members(RQ)' = Members(RQ) \cup (IF state[u] = "ready" THEN {u} ELSE {})
           /\ Members(WQ)' = Members(WQ) \cup (IF state[u] = "waiting" THEN {u} ELSE {})
<1>1. IsQueue(NQ) /\ IsQueue(RQ) /\ IsQueue(WQ) /\ IsQueue(SQ)
  BY DEF Inv, AreQueues
<1>2. u \in Threads
  BY <1>1, QueueOfThreads
<1>3. /\ state[u] = "new" => u \notin Members(NQ)
      /\ state[u] = "ready" => u \notin Members(RQ)
      /\ state[u] = "waiting" => u \notin Members(WQ)
  BY <1>2 DEF Inv, Placed, InStateQueue
<1>4. ASSUME NEW q, IsQueue(q), u \notin Members(q)
      PROVE  IsQueue(Requeue(q, u)) /\ Members(Requeue(q, u)) = Members(q) \cup {u}
  BY <1>2, <1>4, InsertQueue, SchedAssumption DEF Requeue
<1>5. /\ IsQueue(NQ)'
      /\ Members(NQ)' = Members(NQ) \cup (IF state[u] = "new" THEN {u} ELSE {})
  <2>1. NQ' = IF state[u] = "new" THEN Requeue(NQ, u) ELSE NQ
    BY DEF OnStateQueue
  <2> QED BY <1>1, <1>3, <1>4, <2>1
<1>6. /\ IsQueue(RQ)'
      /\ Members(RQ)' = Members(RQ) \cup (IF state[u] = "ready" THEN {u} ELSE {})
  <2>1. RQ' = IF state[u] = "ready" THEN Requeue(RQ, u) ELSE RQ
    BY DEF OnStateQueue
  <2> QED BY <1>1, <1>3, <1>4, <2>1
<1>7. /\ IsQueue(WQ)'
      /\ Members(WQ)' = Members(WQ) \cup (IF state[u] = "waiting" THEN {u} ELSE {})
  <2>1. WQ' = IF state[u] = "waiting" THEN Requeue(WQ, u) ELSE WQ
    BY DEF OnStateQueue
  <2> QED BY <1>1, <1>3, <1>4, <2>1
<1> QED
  BY <1>5, <1>6, <1>7

-----------------------------------------------------------------------------
(*                          The initial state                              *)

LEMMA InitInv == Init => Inv
<1> SUFFICES ASSUME Init PROVE Inv
  OBVIOUS
<1>1. AreQueues
  BY EmptyQueue DEF Init, AreQueues
<1>2. RestOK
  BY SchedAssumption DEF Init, RestOK, CancelStates
<1>3. ASSUME NEW t \in Threads PROVE Placed(t)
  BY EmptyQueue, SchedAssumption DEF Init, Placed, Valid, OnCPU, Queued
<1>4. RunningIsReady /\ JoinHasEvent /\ SomebodyToRun
  BY SchedAssumption DEF Init, RunningIsReady, JoinHasEvent, SomebodyToRun
<1> QED
  BY <1>1, <1>2, <1>3, <1>4 DEF Inv

-----------------------------------------------------------------------------
(*                      Calls of the running thread                        *)

\* What a call that keeps the processor leaves to be shown.
LEMMA CallKeepsRest ==
    ASSUME Inv, NEW c \in Threads, Running(c), phase' = phase,
           pth_current' = pth_current, pc' = pc, events' = events,
           state'[c] = state[c]
    PROVE  RunningIsReady' /\ JoinHasEvent' /\ SomebodyToRun'
BY DEF Inv, Running, RunningIsReady, JoinHasEvent, SomebodyToRun

LEMMA SpawnStep ==
    ASSUME Inv, NEW c \in Threads, NEW u \in Threads,
           NEW attr \in Attrs \cup {Inherited(c)}, pth_spawn(c, u, attr)
    PROVE  Inv'
<1>1. /\ attr.prio \in Int /\ attr.prio <= PRIO_MAX
      /\ attr.joinable \in BOOLEAN /\ attr.cancelstate \in CancelStates
  BY SchedAssumption DEF Inherited, Inv, RestOK
<1>2. u \notin Members(NQ) /\ u # c
  BY DEF pth_spawn, Running, Inv, Placed, RunningIsReady
<1>3. IsQueue(NQ)' /\ Members(NQ)' = Members(NQ) \cup {u}
  <2>1. NQ' = Insert(NQ, attr.prio, u)
    BY DEF pth_spawn
  <2> QED BY <1>1, <1>2, <2>1, InsertQueue DEF Inv, AreQueues
<1>4. AreQueues'
  BY <1>3 DEF pth_spawn, Inv, AreQueues
<1>5. RestOK'
  BY <1>1 DEF pth_spawn, Inv, RestOK, ring
<1>6. ASSUME NEW t \in Threads PROVE Placed(t)'
  BY <1>2, <1>3 DEF pth_spawn, Inv, RestOK, Placed, Valid, OnCPU, Queued, InStateQueue
<1>7. RunningIsReady' /\ JoinHasEvent' /\ SomebodyToRun'
  BY <1>2, CallKeepsRest DEF pth_spawn, Inv, RestOK, ring
<1> QED
  BY <1>4, <1>5, <1>6, <1>7 DEF Inv

LEMMA YieldStep ==
    ASSUME Inv, NEW c \in Threads, pth_yield(c)
    PROVE  Inv'
<1>1. AreQueues'
  BY DEF pth_yield, queues, Inv, AreQueues
<1>2. RestOK'
  BY DEF pth_yield, Running, queues, attrs, ring, Inv, RestOK
<1>3. ASSUME NEW t \in Threads PROVE Placed(t)'
  BY DEF pth_yield, Running, queues, attrs, Inv, Placed, Valid, OnCPU, Queued, InStateQueue
<1>4. RunningIsReady' /\ JoinHasEvent' /\ SomebodyToRun'
  BY DEF pth_yield, Running, ring, Inv, RunningIsReady, JoinHasEvent, SomebodyToRun
<1> QED
  BY <1>1, <1>2, <1>3, <1>4 DEF Inv

LEMMA YieldToStep ==
    ASSUME Inv, NEW c \in Threads, NEW u \in Threads, pth_yield_to(c, u)
    PROVE  Inv'
<1>1. InStateQueue(u) /\ OnStateQueue(Favorite, u)
  BY DEF pth_yield_to
<1>2. /\ IsQueue(NQ)' /\ IsQueue(RQ)' /\ IsQueue(WQ)'
      /\ Members(NQ)' = Members(NQ)
      /\ Members(RQ)' = Members(RQ)
      /\ Members(WQ)' = Members(WQ)
  BY <1>1, StateQueueFavorite
<1>3. AreQueues'
  BY <1>2 DEF pth_yield_to, Inv, AreQueues
<1>4. RestOK'
  BY DEF pth_yield_to, Running, attrs, ring, Inv, RestOK
<1>5. ASSUME NEW t \in Threads PROVE Placed(t)'
  BY <1>2 DEF pth_yield_to, Running, attrs, Inv, Placed, Valid, OnCPU, Queued, InStateQueue
<1>6. RunningIsReady' /\ JoinHasEvent' /\ SomebodyToRun'
  BY DEF pth_yield_to, Running, ring, Inv, RunningIsReady, JoinHasEvent, SomebodyToRun
<1> QED
  BY <1>3, <1>4, <1>5, <1>6 DEF Inv

LEMMA SuspendStep ==
    ASSUME Inv, NEW c \in Threads, NEW u \in Threads, pth_suspend(c, u)
    PROVE  Inv'
<1>1. InStateQueue(u) /\ OnStateQueue(Delete, u) /\ SQ' = Insert(SQ, PRIO_STD, u)
  BY DEF pth_suspend
<1>2. /\ IsQueue(NQ)' /\ IsQueue(RQ)' /\ IsQueue(WQ)'
      /\ Members(NQ)' = Members(NQ) \ {u}
      /\ Members(RQ)' = Members(RQ) \ {u}
      /\ Members(WQ)' = Members(WQ) \ {u}
  BY <1>1, StateQueueDelete
<1>3. u \notin Members(SQ)
  BY <1>1 DEF Inv, Placed
<1>4. IsQueue(SQ)' /\ Members(SQ)' = Members(SQ) \cup {u}
  BY <1>1, <1>3, InsertQueue, SchedAssumption DEF Inv, AreQueues
<1>5. AreQueues'
  BY <1>2, <1>4 DEF pth_suspend, Inv, AreQueues
<1>6. RestOK'
  BY DEF pth_suspend, attrs, ring, Inv, RestOK
<1>7. ASSUME NEW t \in Threads PROVE Placed(t)'
  BY <1>1, <1>2, <1>4
  DEF pth_suspend, attrs, Inv, Placed, Valid, OnCPU, Queued, InStateQueue
<1>8. RunningIsReady' /\ JoinHasEvent' /\ SomebodyToRun'
  BY CallKeepsRest DEF pth_suspend, ring
<1> QED
  BY <1>5, <1>6, <1>7, <1>8 DEF Inv

LEMMA ResumeStep ==
    ASSUME Inv, NEW c \in Threads, NEW u \in Threads, pth_resume(c, u)
    PROVE  Inv'
<1>1. u \in Members(SQ) /\ OnStateQueue(Requeue, u) /\ SQ' = Delete(SQ, u)
  BY DEF pth_resume
<1>2. /\ IsQueue(NQ)' /\ IsQueue(RQ)' /\ IsQueue(WQ)'
      /\ Members(NQ)' = Members(NQ) \cup (IF state[u] = "new" THEN {u} ELSE {})
      /\ Members(RQ)' = Members(RQ) \cup (IF state[u] = "ready" THEN {u} ELSE {})
      /\ Members(WQ)' = Members(WQ) \cup (IF state[u] = "waiting" THEN {u} ELSE {})
  BY <1>1, StateQueueRequeue
<1>3. IsQueue(SQ)' /\ Members(SQ)' = Members(SQ) \ {u}
  BY <1>1, DeleteQueue DEF Inv, AreQueues
<1>4. AreQueues'
  BY <1>2, <1>3 DEF pth_resume, Inv, AreQueues
<1>5. RestOK'
  BY DEF pth_resume, attrs, ring, Inv, RestOK
<1>6. ASSUME NEW t \in Threads PROVE Placed(t)'
  BY <1>1, <1>2, <1>3
  DEF pth_resume, attrs, Inv, Placed, Valid, OnCPU, Queued, InStateQueue
<1>7. RunningIsReady' /\ JoinHasEvent' /\ SomebodyToRun'
  BY CallKeepsRest DEF pth_resume, ring
<1> QED
  BY <1>4, <1>5, <1>6, <1>7 DEF Inv

LEMMA FavournewStep ==
    ASSUME Inv, NEW c \in Threads, pth_ctrl_favournew(c)
    PROVE  Inv'
<1>1. AreQueues'
  BY DEF pth_ctrl_favournew, queues, Inv, AreQueues
<1>2. RestOK'
  BY DEF pth_ctrl_favournew, attrs, ring, Inv, RestOK
<1>3. ASSUME NEW t \in Threads PROVE Placed(t)'
  BY DEF pth_ctrl_favournew, queues, attrs, Inv, Placed, Valid, OnCPU, Queued, InStateQueue
<1>4. RunningIsReady' /\ JoinHasEvent' /\ SomebodyToRun'
  BY CallKeepsRest DEF pth_ctrl_favournew, ring
<1> QED
  BY <1>1, <1>2, <1>3, <1>4 DEF Inv

LEMMA CancelStateStep ==
    ASSUME Inv, NEW c \in Threads, NEW new \in CancelStates, pth_cancel_state(c, new)
    PROVE  Inv'
<1>1. AreQueues'
  BY DEF pth_cancel_state, queues, Inv, AreQueues
<1>2. RestOK'
  BY DEF pth_cancel_state, ring, Inv, RestOK
<1>3. ASSUME NEW t \in Threads PROVE Placed(t)'
  BY DEF pth_cancel_state, queues, Inv, Placed, Valid, OnCPU, Queued, InStateQueue
<1>4. RunningIsReady' /\ JoinHasEvent' /\ SomebodyToRun'
  BY CallKeepsRest DEF pth_cancel_state, ring
<1> QED
  BY <1>1, <1>2, <1>3, <1>4 DEF Inv

\* The common end of pth_cancel and pth_abort, on a thread that is not dead.
\* A queued thread that dies into the dead queue must be joinable there.
LEMMA CancelThreadStep ==
    ASSUME Inv, NEW c \in Threads, NEW u \in Threads, Running(c), u # c,
           Valid(u), state[u] # "dead",
           NEW cs \in CancelStates, NEW jn \in BOOLEAN,
           CancelThread(u, cs, jn),
           joinable' = [joinable EXCEPT ![u] = jn],
           cancelstate' = [cancelstate EXCEPT ![u] = cs]
    PROVE  Inv'
<1>1. ASSUME cs = "async", InStateQueue(u)
      PROVE  AreQueues' /\ \A t \in Threads : Placed(t)'
  <2>1. /\ OnStateQueue(Delete, u)
        /\ state' = [state EXCEPT ![u] = IF jn THEN "dead" ELSE "freed"]
        /\ DQ' = IF jn THEN Insert(DQ, PRIO_STD, u) ELSE DQ
        /\ SQ' = SQ /\ phase' = phase /\ pth_current' = pth_current
    BY <1>1 DEF CancelThread, Bury
  <2>2. /\ IsQueue(NQ)' /\ IsQueue(RQ)' /\ IsQueue(WQ)'
        /\ Members(NQ)' = Members(NQ) \ {u}
        /\ Members(RQ)' = Members(RQ) \ {u}
        /\ Members(WQ)' = Members(WQ) \ {u}
    BY <1>1, <2>1, StateQueueDelete
  <2>3. u \notin Members(DQ) /\ u \notin Members(SQ)
    BY <1>1 DEF Inv, Placed
  <2>4. /\ IsQueue(DQ)'
        /\ Members(DQ)' = Members(DQ) \cup (IF jn THEN {u} ELSE {})
    BY <2>1, <2>3, InsertQueue, SchedAssumption DEF Inv, AreQueues
  <2>5. AreQueues'
    BY <2>1, <2>2, <2>4 DEF Inv, AreQueues
  <2>6. ASSUME NEW t \in Threads PROVE Placed(t)'
    <3>1. CASE t = u
      BY <2>1, <2>2, <2>3, <2>4, <3>1
      DEF Inv, RestOK, Running, Placed, Valid, OnCPU, Queued, InStateQueue
    <3>2. CASE t # u
      BY <2>1, <2>2, <2>3, <2>4, <3>2
      DEF Inv, RestOK, Placed, Valid, OnCPU, Queued, InStateQueue
    <3> QED BY <3>1, <3>2
  <2> QED BY <2>5, <2>6
<1>2. ASSUME ~(cs = "async" /\ InStateQueue(u))
      PROVE  AreQueues' /\ \A t \in Threads : Placed(t)'
  <2>1. UNCHANGED <<NQ, RQ, WQ, SQ, DQ, state, phase, pth_current>>
    BY <1>2 DEF CancelThread
  <2>2. u \notin Members(DQ)
    BY DEF Inv, Placed
  <2>3. AreQueues'
    BY <2>1 DEF Inv, AreQueues
  <2>4. ASSUME NEW t \in Threads PROVE Placed(t)'
    BY <2>1, <2>2 DEF Inv, RestOK, Placed, Valid, OnCPU, Queued, InStateQueue
  <2> QED BY <2>3, <2>4
<1>3. RestOK'
  <2>1. state' \in [Threads -> {"none", "new", "ready", "waiting", "dead", "freed"}]
    BY DEF CancelThread, Bury, Inv, RestOK
  <2> QED BY <2>1 DEF CancelThread, ring, Inv, RestOK
<1>4. RunningIsReady' /\ JoinHasEvent' /\ SomebodyToRun'
  <2>1. state'[c] = state[c]
    BY DEF CancelThread, Bury, Inv, RestOK
  <2> QED BY <2>1, CallKeepsRest DEF CancelThread, ring
<1> QED
  BY <1>1, <1>2, <1>3, <1>4 DEF Inv

LEMMA CancelStep ==
    ASSUME Inv, NEW c \in Threads, NEW u \in Threads, pth_cancel(c, u)
    PROVE  Inv'
<1>1. /\ Running(c) /\ u # c /\ Valid(u) /\ state[u] # "dead"
      /\ CancelThread(u, cancelstate[u], joinable[u])
  BY DEF pth_cancel
<1>2. /\ cancelstate[u] \in CancelStates /\ joinable[u] \in BOOLEAN
      /\ joinable' = [joinable EXCEPT ![u] = joinable[u]]
      /\ cancelstate' = [cancelstate EXCEPT ![u] = cancelstate[u]]
  BY DEF pth_cancel, Inv, RestOK
<1> QED
  BY <1>1, <1>2, CancelThreadStep

\* A dead thread that the running thread can see is in the dead queue.
LEMMA DeadIsQueued ==
    ASSUME Inv, phase = "thread", NEW u \in Threads, state[u] = "dead"
    PROVE  u \in Members(DQ)
BY DEF Inv, RunningIsReady, Placed, Valid, OnCPU, Queued

LEMMA ReclaimStep ==
    ASSUME Inv, phase = "thread", NEW u \in Threads, state[u] = "dead", Reclaim(u),
           UNCHANGED <<NQ, RQ, WQ, SQ, pth_current, phase, joinable>>
    PROVE  /\ AreQueues'
           /\ \A t \in Threads : Placed(t)'
           /\ state' \in [Threads -> {"none", "new", "ready", "waiting", "dead", "freed"}]
           /\ state'[pth_current] = state[pth_current]
<1>1. u \in Members(DQ)
  BY DeadIsQueued
<1>2. IsQueue(DQ)' /\ Members(DQ)' = Members(DQ) \ {u}
  BY <1>1, DeleteQueue DEF Reclaim, Inv, AreQueues
<1>3. AreQueues'
  BY <1>2 DEF Inv, AreQueues
<1>4. ASSUME NEW t \in Threads PROVE Placed(t)'
  BY <1>1, <1>2 DEF Reclaim, Inv, RestOK, Placed, Valid, OnCPU, Queued, InStateQueue
<1> QED
  BY <1>3, <1>4 DEF Reclaim, Inv, RestOK, RunningIsReady

LEMMA AbortStep ==
    ASSUME Inv, NEW c \in Threads, NEW u \in Threads, pth_abort(c, u)
    PROVE  Inv'
<1>1. CASE IsDead(u) /\ joinable[u]
  <2>1. /\ Reclaim(u) /\ state[u] = "dead" /\ phase = "thread" /\ pth_current = c
        /\ Running(c)
        /\ UNCHANGED <<NQ, RQ, WQ, SQ, pth_current, pth_favournew, phase, attrs,
                       cancelreq, ring, pc>>
    BY <1>1 DEF pth_abort, IsDead, Running
  <2>2. /\ AreQueues'
        /\ \A t \in Threads : Placed(t)'
        /\ state' \in [Threads -> {"none", "new", "ready", "waiting", "dead", "freed"}]
        /\ state'[pth_current] = state[pth_current]
    BY <2>1, ReclaimStep DEF attrs
  <2>3. RestOK'
    BY <2>1, <2>2 DEF attrs, ring, Inv, RestOK
  <2>4. RunningIsReady' /\ JoinHasEvent' /\ SomebodyToRun'
    BY <2>1, <2>2, CallKeepsRest DEF ring
  <2> QED BY <2>2, <2>3, <2>4 DEF Inv
<1>2. CASE ~(IsDead(u) /\ joinable[u])
  <2>1. /\ Running(c) /\ u # c /\ Valid(u) /\ phase = "thread"
        /\ CancelThread(u, "async", FALSE)
        /\ joinable' = [joinable EXCEPT ![u] = FALSE]
        /\ cancelstate' = [cancelstate EXCEPT ![u] = "async"]
    BY <1>2 DEF pth_abort, Running
  <2>2. state[u] # "dead"
    BY <1>2, <2>1, DeadIsQueued, SchedAssumption DEF Inv, Placed, IsDead
  <2>3. "async" \in CancelStates /\ FALSE \in BOOLEAN
    BY DEF CancelStates
  <2> QED BY <2>1, <2>2, <2>3, CancelThreadStep
<1> QED
  BY <1>1, <1>2

-----------------------------------------------------------------------------
(*                    Waiting, joining and termination                     *)

\* The running thread blocks, on its own call or on that of its exit.
LEMMA BlockStep ==
    ASSUME Inv, NEW c \in Threads, phase = "thread", pth_current = c,
           NEW evs \in SUBSET Event, NEW k \in {"wait", "join", "exit"},
           k = "join" => \E u \in Threads \cup {NULL} : TID(u) \in evs,
           Block(c, evs, k), cancelreq' \in [Threads -> BOOLEAN]
    PROVE  Inv'
<1>1. AreQueues'
  BY DEF Block, queues, Inv, AreQueues
<1>2. RestOK'
  BY DEF Block, queues, attrs, Inv, RestOK
<1>3. ASSUME NEW t \in Threads PROVE Placed(t)'
  BY DEF Block, queues, attrs, Inv, RestOK, Placed, Valid, OnCPU, Queued, InStateQueue
<1>4. RunningIsReady' /\ SomebodyToRun'
  BY DEF Block, Inv, RestOK, RunningIsReady, SomebodyToRun
<1>5. JoinHasEvent'
  <2> SUFFICES ASSUME NEW t \in Threads, pc'[t] = "join"
               PROVE  \E u \in Threads \cup {NULL} : TID(u) \in events'[t]
    BY DEF JoinHasEvent, TID
  <2>1. CASE t = c
    BY <2>1 DEF Block, Inv, RestOK
  <2>2. CASE t # c
    BY <2>2 DEF Block, Inv, RestOK, JoinHasEvent
  <2> QED BY <2>1, <2>2
<1> QED
  BY <1>1, <1>2, <1>3, <1>4, <1>5 DEF Inv

LEMMA WaitStep ==
    ASSUME Inv, NEW c \in Threads, pth_wait(c)
    PROVE  Inv'
<1>1. phase = "thread" /\ pth_current = c /\ Block(c, {EXT}, "wait")
  BY DEF pth_wait, Running
<1>2. {EXT} \in SUBSET Event /\ cancelreq' \in [Threads -> BOOLEAN]
  BY DEF pth_wait, Event, Inv, RestOK
<1> QED
  BY <1>1, <1>2, BlockStep

LEMMA WaitTidStep ==
    ASSUME Inv, NEW c \in Threads, NEW u \in Threads, pth_wait_tid(c, u)
    PROVE  Inv'
<1>1. phase = "thread" /\ pth_current = c /\ Block(c, {EXT, TID(u)}, "wait")
  BY DEF pth_wait_tid, Running
<1>2. {EXT, TID(u)} \in SUBSET Event /\ cancelreq' \in [Threads -> BOOLEAN]
  BY DEF pth_wait_tid, Event, Inv, RestOK
<1> QED
  BY <1>1, <1>2, BlockStep

LEMMA JoinWaitStep ==
    ASSUME Inv, NEW c \in Threads, NEW tid \in Threads \cup {NULL}, pth_join_wait(c, tid)
    PROVE  Inv'
<1>1. phase = "thread" /\ pth_current = c /\ Block(c, {TID(tid)}, "join")
  BY DEF pth_join_wait, MayJoin, Running
<1>2. {TID(tid)} \in SUBSET Event /\ cancelreq' \in [Threads -> BOOLEAN]
  BY DEF pth_join_wait, Event, Inv, RestOK
<1>3. \E u \in Threads \cup {NULL} : TID(u) \in {TID(tid)}
  OBVIOUS
<1> QED
  BY <1>1, <1>2, <1>3, BlockStep

\* The joined thread is a control block of its own.
LEMMA JoineeIsThread ==
    ASSUME Inv, NEW tid \in Threads \cup {NULL}
    PROVE  Joinee(tid) \in Threads \cup {NULL}
<1>1. DQ # <<>> => DQ[1].th \in Threads
  BY TailQueue DEF Inv, AreQueues
<1> QED
  BY <1>1 DEF Joinee

LEMMA JoinDeadStep ==
    ASSUME Inv, NEW c \in Threads, NEW tid \in Threads \cup {NULL}, pth_join_dead(c, tid)
    PROVE  Inv'
<1> DEFINE u == Joinee(tid)
<1>1. u \in Threads /\ state[u] = "dead"
  BY JoineeIsThread DEF pth_join_dead, IsDead
<1>2. /\ phase = "thread" /\ pth_current = c /\ Running(c) /\ Reclaim(u)
      /\ UNCHANGED <<NQ, RQ, WQ, SQ, pth_current, pth_favournew, phase, attrs,
                     cancelreq, ring, pc>>
  BY DEF pth_join_dead, MayJoin, Running
<1> HIDE DEF u
<1>3. /\ AreQueues'
      /\ \A t \in Threads : Placed(t)'
      /\ state' \in [Threads -> {"none", "new", "ready", "waiting", "dead", "freed"}]
      /\ state'[pth_current] = state[pth_current]
  BY <1>1, <1>2, ReclaimStep DEF attrs
<1>4. RestOK'
  BY <1>2, <1>3 DEF attrs, ring, Inv, RestOK
<1>5. RunningIsReady' /\ JoinHasEvent' /\ SomebodyToRun'
  BY <1>2, <1>3, CallKeepsRest DEF ring
<1> QED
  BY <1>3, <1>4, <1>5 DEF Inv

\* When the library is shut down no thread is left anywhere.
LEMMA KillStep ==
    ASSUME Inv, phase = "thread", pth_kill, phase' \in {"exited", "killed"},
           cancelreq' \in [Threads -> BOOLEAN],
           pc' = pc \/ \E c \in Threads : pc' = [pc EXCEPT ![c] = "run"]
    PROVE  Inv'
<1>1. AreQueues'
  BY EmptyQueue DEF pth_kill, AreQueues
<1>2. state' \in [Threads -> {"none", "new", "ready", "waiting", "dead", "freed"}]
  BY DEF pth_kill, Inv, RestOK
<1>3. RestOK'
  BY <1>2 DEF pth_kill, attrs, ring, Inv, RestOK
<1>4. \A t \in Threads : state'[t] \in {"none", "freed"}
  BY DEF pth_kill, Valid
<1>5. ASSUME NEW t \in Threads PROVE Placed(t)'
  BY <1>4, EmptyQueue DEF pth_kill, Placed, Valid, OnCPU, Queued
<1>6. RunningIsReady' /\ JoinHasEvent' /\ SomebodyToRun'
  BY DEF pth_kill, ring, Inv, RestOK, RunningIsReady, JoinHasEvent, SomebodyToRun
<1> QED
  BY <1>1, <1>3, <1>5, <1>6 DEF Inv

LEMMA KillCallStep ==
    ASSUME Inv, NEW c \in Threads, pth_kill_call(c)
    PROVE  Inv'
<1>1. /\ phase = "thread" /\ pth_kill /\ phase' \in {"exited", "killed"} /\ pc' = pc
      /\ cancelreq' \in [Threads -> BOOLEAN]
  BY DEF pth_kill_call, Running, Inv, RestOK
<1> QED
  BY <1>1, KillStep

LEMMA TerminateStep ==
    ASSUME Inv, NEW c \in Threads, phase = "thread", pth_current = c,
           Terminate(c), cancelreq' \in [Threads -> BOOLEAN]
    PROVE  Inv'
<1>1. CASE c = Main
  <2>1. /\ pth_kill /\ phase' \in {"exited", "killed"}
        /\ pc' = [pc EXCEPT ![c] = "run"]
    BY <1>1 DEF Terminate
  <2> QED BY <2>1, KillStep
<1>2. CASE c # Main
  <2>1. /\ state' = [state EXCEPT ![c] = "dead"]
        /\ phase' = "reap"
        /\ pc' = [pc EXCEPT ![c] = "run"]
        /\ UNCHANGED <<queues, pth_current, pth_favournew, attrs, ring>>
    BY <1>2 DEF Terminate
  <2>2. AreQueues'
    BY <2>1 DEF queues, Inv, AreQueues
  <2>3. RestOK'
    BY <2>1 DEF attrs, ring, Inv, RestOK
  <2>4. ASSUME NEW t \in Threads PROVE Placed(t)'
    BY <2>1 DEF queues, attrs, Inv, RestOK, Placed, Valid, OnCPU, Queued, InStateQueue
  <2>5. RunningIsReady' /\ JoinHasEvent' /\ SomebodyToRun'
    BY <2>1 DEF ring, Inv, RestOK, RunningIsReady, JoinHasEvent, SomebodyToRun
  <2> QED BY <2>2, <2>3, <2>4, <2>5 DEF Inv
<1> QED
  BY <1>1, <1>2

LEMMA ExitStep ==
    ASSUME Inv, NEW c \in Threads, phase = "thread", pth_current = c,
           Exit(c), cancelreq' \in [Threads -> BOOLEAN]
    PROVE  Inv'
<1>1. CASE c = Main /\ ~pth_exit_cb
  <2>1. Block(c, {FUNC}, "exit") /\ {FUNC} \in SUBSET Event
    BY <1>1 DEF Exit, Event
  <2> QED BY <2>1, BlockStep
<1>2. CASE ~(c = Main /\ ~pth_exit_cb)
  BY <1>2, TerminateStep DEF Exit
<1> QED
  BY <1>1, <1>2

LEMMA CancelExitStep ==
    ASSUME Inv, NEW c \in Threads, phase = "thread", pth_current = c, CancelExit(c)
    PROVE  Inv'
<1>1. Exit(c) /\ cancelreq' \in [Threads -> BOOLEAN]
  BY DEF CancelExit, Inv, RestOK
<1> QED
  BY <1>1, ExitStep

LEMMA ExitCallStep ==
    ASSUME Inv, NEW c \in Threads, pth_exit(c) \/ pth_cancel_point(c)
    PROVE  Inv'
<1>1. phase = "thread" /\ pth_current = c
  BY DEF pth_exit, pth_cancel_point, Running
<1>2. CASE pth_exit(c)
  BY <1>1, <1>2, ExitStep DEF pth_exit, Inv, RestOK
<1>3. CASE pth_cancel_point(c)
  BY <1>1, <1>3, CancelExitStep DEF pth_cancel_point
<1> QED
  BY <1>2, <1>3

-----------------------------------------------------------------------------
(*                        Returning from a wait                            *)

LEMMA UnlinkedKeeps ==
    ASSUME Inv, NEW c \in Threads, phase = "thread", pth_current = c, Unlinked(c),
           UNCHANGED <<phase, pth_current>>, state'[c] = state[c]
    PROVE  /\ events' \in [Threads -> SUBSET Event]
           /\ occurred' \in [Threads -> SUBSET Event]
           /\ pc' \in [Threads -> {"run", "wait", "join", "exit"}]
           /\ RunningIsReady' /\ JoinHasEvent' /\ SomebodyToRun'
<1>1. /\ events' \in [Threads -> SUBSET Event]
      /\ occurred' \in [Threads -> SUBSET Event]
      /\ pc' \in [Threads -> {"run", "wait", "join", "exit"}]
  BY DEF Unlinked, Inv, RestOK
<1>2. RunningIsReady' /\ SomebodyToRun'
  BY DEF Inv, RunningIsReady, SomebodyToRun
<1>3. JoinHasEvent'
  BY DEF Unlinked, Inv, RestOK, JoinHasEvent, TID
<1> QED
  BY <1>1, <1>2, <1>3

LEMMA WaitReturnsStep ==
    ASSUME Inv, NEW c \in Threads, WaitReturns(c)
    PROVE  Inv'
<1>1. /\ phase = "thread" /\ pth_current = c /\ Unlinked(c)
      /\ UNCHANGED <<queues, pth_current, pth_favournew, phase, state, attrs,
                     cancelreq>>
  BY DEF WaitReturns, Returning
<1>2. /\ events' \in [Threads -> SUBSET Event]
      /\ occurred' \in [Threads -> SUBSET Event]
      /\ pc' \in [Threads -> {"run", "wait", "join", "exit"}]
      /\ RunningIsReady' /\ JoinHasEvent' /\ SomebodyToRun'
  BY <1>1, UnlinkedKeeps
<1>3. AreQueues'
  BY <1>1 DEF queues, Inv, AreQueues
<1>4. RestOK'
  BY <1>1, <1>2 DEF attrs, Inv, RestOK
<1>5. ASSUME NEW t \in Threads PROVE Placed(t)'
  BY <1>1 DEF queues, attrs, Inv, Placed, Valid, OnCPU, Queued, InStateQueue
<1> QED
  BY <1>2, <1>3, <1>4, <1>5 DEF Inv

LEMMA JoinReturnsStep ==
    ASSUME Inv, NEW c \in Threads, JoinReturns(c)
    PROVE  Inv'
<1> DEFINE tid == CHOOSE u \in Threads \cup {NULL} : TID(u) \in events[c]
           u == Joinee(tid)
<1>1. /\ phase = "thread" /\ pth_current = c /\ pc[c] = "join" /\ Unlinked(c)
      /\ IF IsDead(u) THEN Reclaim(u) ELSE UNCHANGED <<DQ, state>>
      /\ UNCHANGED <<NQ, RQ, WQ, SQ, pth_current, pth_favournew, phase,
                     attrs, cancelreq>>
  BY DEF JoinReturns, Returning
<1>2. tid \in Threads \cup {NULL}
  <2>1. \E v \in Threads \cup {NULL} : TID(v) \in events[c]
    BY <1>1 DEF Inv, JoinHasEvent
  <2> QED BY <2>1
<1> HIDE DEF tid
<1>3. IsDead(u) => u \in Threads /\ state[u] = "dead"
  BY <1>2, JoineeIsThread DEF IsDead
<1> HIDE DEF u
<1>4. /\ AreQueues'
      /\ \A t \in Threads : Placed(t)'
      /\ state' \in [Threads -> {"none", "new", "ready", "waiting", "dead", "freed"}]
      /\ state'[c] = state[c]
  <2>1. CASE IsDead(u)
    BY <1>1, <1>3, <2>1, ReclaimStep DEF attrs
  <2>2. CASE ~IsDead(u)
    <3>1. UNCHANGED <<NQ, RQ, WQ, SQ, DQ, state, pth_current, phase, joinable>>
      BY <1>1, <2>2 DEF attrs
    <3>2. AreQueues'
      BY <3>1 DEF Inv, AreQueues
    <3>3. ASSUME NEW t \in Threads PROVE Placed(t)'
      BY <3>1 DEF Inv, Placed, Valid, OnCPU, Queued, InStateQueue
    <3> QED BY <3>1, <3>2, <3>3 DEF Inv, RestOK
  <2> QED BY <2>1, <2>2
<1>5. /\ events' \in [Threads -> SUBSET Event]
      /\ occurred' \in [Threads -> SUBSET Event]
      /\ pc' \in [Threads -> {"run", "wait", "join", "exit"}]
      /\ RunningIsReady' /\ JoinHasEvent' /\ SomebodyToRun'
  BY <1>1, <1>4, UnlinkedKeeps
<1>6. RestOK'
  BY <1>1, <1>4, <1>5 DEF attrs, Inv, RestOK
<1> QED
  BY <1>4, <1>5, <1>6 DEF Inv

\* A join that reads a freed control block changes no state and no queue.
LEMMA JoinReturnsStaleStep ==
    ASSUME Inv, NEW c \in Threads, JoinReturnsStale(c)
    PROVE  Inv'
<1>1. /\ phase = "thread" /\ pth_current = c /\ Unlinked(c)
      /\ phase' \in {"thread", "undefined"}
      /\ UNCHANGED <<NQ, RQ, WQ, SQ, DQ, pth_current, pth_favournew, state,
                     prio, joinable, cancelstate, cancelreq>>
  BY DEF JoinReturnsStale, Returning, queues, attrs
<1>2. OnCPU' = OnCPU
  BY <1>1 DEF OnCPU
<1>3. AreQueues'
  BY <1>1 DEF Inv, AreQueues
<1>4. ASSUME NEW t \in Threads PROVE Placed(t)'
  BY <1>1, <1>2 DEF Inv, Placed, Valid, Queued, InStateQueue
<1>5. /\ events' \in [Threads -> SUBSET Event]
      /\ occurred' \in [Threads -> SUBSET Event]
      /\ pc' \in [Threads -> {"run", "wait", "join", "exit"}]
      /\ JoinHasEvent'
  BY <1>1 DEF Unlinked, Inv, RestOK, JoinHasEvent
<1>6. RunningIsReady' /\ SomebodyToRun'
  BY <1>1 DEF Inv, RunningIsReady, SomebodyToRun
<1>7. RestOK'
  BY <1>1, <1>2, <1>5 DEF Inv, RestOK
<1> QED
  BY <1>3, <1>4, <1>5, <1>6, <1>7 DEF Inv

LEMMA ReturnInv ==
    ASSUME Inv, ReturnStep
    PROVE  Inv'
<1>1. PICK c \in Threads :
         \/ WaitCancelled(c) \/ WaitReturns(c) \/ ExitReturns(c)
         \/ JoinReturns(c) \/ JoinReturnsStale(c)
  BY DEF ReturnStep
<1>2. CASE WaitCancelled(c)
  BY <1>2, CancelExitStep DEF WaitCancelled, Returning
<1>3. CASE WaitReturns(c)
  BY <1>3, WaitReturnsStep
<1>4. CASE JoinReturns(c) \/ JoinReturnsStale(c)
  BY <1>4, JoinReturnsStep, JoinReturnsStaleStep
<1>5. CASE ExitReturns(c)
  <2>1. /\ phase = "thread" /\ pth_current = c /\ Terminate(c)
        /\ cancelreq' \in [Threads -> BOOLEAN]
    BY <1>5 DEF ExitReturns, Returning, Inv, RestOK
  <2> QED BY <2>1, TerminateStep
<1> QED
  BY <1>1, <1>2, <1>3, <1>4, <1>5

-----------------------------------------------------------------------------
(*                        The scheduler's loop                             *)

LEMMA ReapStep ==
    ASSUME Inv, Reap
    PROVE  Inv'
<1> DEFINE c == pth_current
<1>1. /\ phase = "reap" /\ phase' = "mark" /\ c \in Threads
      /\ UNCHANGED <<NQ, SQ, pth_favournew, attrs, cancelreq, ring, pc>>
  BY DEF Reap, Inv, RestOK
<1>2. c \in OnCPU /\ Placed(c)
  BY <1>1 DEF OnCPU, Inv
<1>3. /\ c \notin Members(NQ) /\ c \notin Members(RQ) /\ c \notin Members(WQ)
      /\ c \notin Members(SQ) /\ c \notin Members(DQ)
  BY <1>2 DEF Placed, Queued
<1>4. IsQueue(Increase(RQ)) /\ Members(Increase(RQ)) = Members(RQ)
  BY IncreaseQueue DEF Inv, AreQueues
<1>5. /\ RunningIsReady' /\ JoinHasEvent' /\ SomebodyToRun'
  BY <1>1 DEF ring, Inv, RunningIsReady, JoinHasEvent, SomebodyToRun
<1>6. ASSUME state[c] = "dead", pth_current' = NULL, RQ' = Increase(RQ), WQ' = WQ,
             state' = [state EXCEPT ![c] = IF joinable[c] THEN "dead" ELSE "freed"],
             DQ' = IF joinable[c] THEN Insert(DQ, PRIO_STD, c) ELSE DQ
      PROVE  Inv'
  <2>1. /\ IsQueue(DQ)'
        /\ Members(DQ)' = Members(DQ) \cup (IF joinable[c] THEN {c} ELSE {})
    BY <1>1, <1>3, <1>6, InsertQueue, SchedAssumption DEF Inv, AreQueues
  <2>2. AreQueues'
    BY <1>1, <1>4, <1>6, <2>1 DEF Inv, AreQueues
  <2>3. RestOK'
    BY <1>1, <1>6 DEF attrs, ring, Inv, RestOK
  <2>4. ASSUME NEW t \in Threads PROVE Placed(t)'
    <3>1. CASE t = c
      BY <1>1, <1>3, <1>4, <1>6, <2>1, <3>1
      DEF attrs, Inv, RestOK, Placed, Valid, OnCPU, Queued, InStateQueue
    <3>2. CASE t # c
      BY <1>1, <1>3, <1>4, <1>6, <2>1, <3>2
      DEF attrs, Inv, RestOK, Placed, Valid, OnCPU, Queued, InStateQueue
    <3> QED BY <3>1, <3>2
  <2> QED BY <1>5, <2>2, <2>3, <2>4 DEF Inv
<1>7. ASSUME state[c] = "waiting", WQ' = Insert(WQ, prio[c], c), pth_current' = NULL,
             RQ' = Increase(RQ), UNCHANGED <<DQ, state>>
      PROVE  Inv'
  <2>1. prio[c] \in Int
    BY <1>1 DEF Inv, RestOK
  <2>2. IsQueue(WQ)' /\ Members(WQ)' = Members(WQ) \cup {c}
    BY <1>1, <1>3, <1>7, <2>1, InsertQueue DEF Inv, AreQueues
  <2>3. AreQueues'
    BY <1>1, <1>4, <1>7, <2>2 DEF Inv, AreQueues
  <2>4. RestOK'
    BY <1>1, <1>7 DEF attrs, ring, Inv, RestOK
  <2>5. ASSUME NEW t \in Threads PROVE Placed(t)'
    BY <1>1, <1>3, <1>4, <1>7, <2>2
    DEF attrs, Inv, RestOK, Placed, Valid, OnCPU, Queued, InStateQueue
  <2> QED BY <1>5, <2>3, <2>4, <2>5 DEF Inv
<1>8. ASSUME state[c] = "ready", RQ' = Insert(Increase(RQ), prio[c], c),
             UNCHANGED <<WQ, DQ, state, pth_current>>
      PROVE  Inv'
  <2>1. prio[c] \in Int
    BY <1>1 DEF Inv, RestOK
  <2>2. IsQueue(RQ)' /\ Members(RQ)' = Members(RQ) \cup {c}
    BY <1>1, <1>3, <1>4, <1>8, <2>1, InsertQueue
  <2>3. AreQueues'
    BY <1>1, <1>8, <2>2 DEF Inv, AreQueues
  <2>4. RestOK'
    BY <1>1, <1>8 DEF attrs, ring, Inv, RestOK
  <2>5. ASSUME NEW t \in Threads PROVE Placed(t)'
    BY <1>1, <1>3, <1>8, <2>2
    DEF attrs, Inv, RestOK, Placed, Valid, OnCPU, Queued, InStateQueue
  <2> QED BY <1>5, <2>3, <2>4, <2>5 DEF Inv
<1> QED
  BY <1>6, <1>7, <1>8 DEF Reap, Bury

LEMMA MarkStep ==
    ASSUME Inv, Mark
    PROVE  Inv'
<1>1. /\ phase = "mark" /\ phase' = "wake"
      /\ UNCHANGED <<queues, pth_current, pth_favournew, state, attrs,
                     cancelreq, events, pc>>
  BY DEF Mark
<1>2. PICK ext \in SUBSET {t \in Members(WQ) : EXT \in events[t]},
           stale \in SUBSET Stale :
         /\ \/ ext \cup stale # {} \/ RQ # <<>> \/ NQ # <<>>
            \/ AnyOccurred \/ TimeoutRefused
         /\ occurred' = [t \in Threads |->
               IF t \in Members(WQ) THEN Noted(t, ext, stale) ELSE occurred[t]]
  BY DEF Mark, PollReturns
<1>3. AreQueues'
  BY <1>1 DEF queues, Inv, AreQueues
<1>4. \A t \in Threads : Noted(t, ext, stale) \in SUBSET Event
  BY DEF Noted, Found, Event, Inv, RestOK
<1>5. occurred' \in [Threads -> SUBSET Event]
  BY <1>2, <1>4 DEF Inv, RestOK
<1>6. RestOK'
  BY <1>1, <1>5 DEF attrs, Inv, RestOK
<1>7. ASSUME NEW t \in Threads PROVE Placed(t)'
  BY <1>1 DEF queues, attrs, Inv, Placed, Valid, OnCPU, Queued, InStateQueue
<1>8. RunningIsReady' /\ JoinHasEvent'
  BY <1>1 DEF Inv, RunningIsReady, JoinHasEvent
<1>9. SomebodyToRun'
  <2> SUFFICES ASSUME RQ = <<>>, NQ = <<>>, ~TimeoutRefused
               PROVE  \E t \in Members(WQ) : occurred'[t] # {} \/ cancelreq[t]
    BY <1>1 DEF SomebodyToRun, queues, Wakes, TimeoutRefused
  <2>1. Members(WQ) \subseteq Threads
    BY QueueOfThreads DEF Inv, AreQueues
  <2>2. CASE ext # {}
    <3>1. PICK t \in ext : t \in Members(WQ) /\ t \in Threads
      BY <2>1, <2>2
    <3>2. EXT \in occurred'[t]
      BY <1>2, <3>1 DEF Noted
    <3> QED BY <3>1, <3>2
  <2>4. CASE stale # {}
    <3>1. PICK u \in stale : \E t \in Members(WQ) : TID(u) \in events[t]
      BY <2>4 DEF Stale
    <3>2. PICK t \in Members(WQ) : TID(u) \in events[t]
      BY <3>1
    <3>3. TID(u) \in Noted(t, ext, stale)
      BY <3>1, <3>2 DEF Noted, TID
    <3>4. TID(u) \in occurred'[t]
      BY <1>2, <2>1, <3>3
    <3> QED BY <3>2, <3>4
  <2>3. CASE AnyOccurred
    <3>1. PICK t \in Members(WQ) : cancelreq[t] \/ Found(t) # {}
      BY <2>3 DEF AnyOccurred
    <3>2. t \in Threads /\ Found(t) \subseteq occurred'[t]
      BY <1>2, <2>1, <3>1 DEF Noted
    <3> QED BY <3>1, <3>2
  <2> QED BY <1>2, <2>2, <2>3, <2>4
<1> QED
  BY <1>3, <1>6, <1>7, <1>8, <1>9 DEF Inv

LEMMA WakeStep ==
    ASSUME Inv, Wake
    PROVE  Inv'
<1>1. PICK i \in DOMAIN WQ :
         /\ WQ' = Delete(WQ, WQ[i].th)
         /\ RQ' = Insert(RQ, prio[WQ[i].th] + 1, WQ[i].th)
         /\ state' = [state EXCEPT ![WQ[i].th] = "ready"]
  BY DEF Wake
<1> DEFINE t == WQ[i].th
<1>2. /\ phase = "wake" /\ phase' = "wake"
      /\ UNCHANGED <<NQ, SQ, DQ, pth_current, pth_favournew, phase, attrs,
                     cancelreq, ring, pc>>
  BY DEF Wake
<1>3. t \in Members(WQ)
  BY DEF Members
<1> HIDE DEF t
<1>4. WQ' = Delete(WQ, t) /\ RQ' = Insert(RQ, prio[t] + 1, t)
      /\ state' = [state EXCEPT ![t] = "ready"]
  BY <1>1 DEF t
<1>5. t \in Threads
  BY <1>3, QueueOfThreads DEF Inv, AreQueues
<1>6. state[t] = "waiting" /\ t \notin Members(RQ)
  BY <1>3, <1>5 DEF Inv, Placed
<1>7. IsQueue(WQ)' /\ Members(WQ)' = Members(WQ) \ {t}
  BY <1>3, <1>4, DeleteQueue DEF Inv, AreQueues
<1>8. IsQueue(RQ)' /\ Members(RQ)' = Members(RQ) \cup {t} /\ RQ' # <<>>
  <2>1. prio[t] + 1 \in Int
    BY <1>5 DEF Inv, RestOK
  <2>2. IsQueue(RQ)
    BY DEF Inv, AreQueues
  <2> QED BY <1>4, <1>5, <1>6, <2>1, <2>2, InsertQueue
<1>9. AreQueues'
  BY <1>2, <1>7, <1>8 DEF Inv, AreQueues
<1>10. RestOK'
  BY <1>2, <1>4, <1>5 DEF attrs, ring, Inv, RestOK
<1>11. ASSUME NEW u \in Threads PROVE Placed(u)'
  BY <1>2, <1>3, <1>4, <1>5, <1>6, <1>7, <1>8
  DEF attrs, Inv, RestOK, Placed, Valid, OnCPU, Queued, InStateQueue
<1>12. RunningIsReady' /\ JoinHasEvent' /\ SomebodyToRun'
  BY <1>2, <1>8 DEF ring, Inv, RunningIsReady, JoinHasEvent, SomebodyToRun
<1> QED
  BY <1>9, <1>10, <1>11, <1>12 DEF Inv

LEMMA WakeDoneStep ==
    ASSUME Inv, WakeDone
    PROVE  Inv'
<1>1. AreQueues'
  BY DEF WakeDone, queues, Inv, AreQueues
<1>2. RestOK'
  BY DEF WakeDone, attrs, ring, Inv, RestOK
<1>3. ASSUME NEW t \in Threads PROVE Placed(t)'
  BY DEF WakeDone, queues, attrs, Inv, Placed, Valid, OnCPU, Queued, InStateQueue
<1>4. RunningIsReady' /\ JoinHasEvent' /\ SomebodyToRun'
  BY DEF WakeDone, queues, ring, Inv, RunningIsReady, JoinHasEvent, SomebodyToRun,
     TimeoutRefused
<1> QED
  BY <1>1, <1>2, <1>3, <1>4 DEF Inv

LEMMA AdmitStep ==
    ASSUME Inv, Admit
    PROVE  Inv'
<1> DEFINE t == NextNew
<1>1. /\ phase = "new" /\ NQ # <<>>
      /\ NQ' = Delete(NQ, t)
      /\ RQ' = IF pth_favournew THEN PushFavorite(RQ, t) ELSE Insert(RQ, PRIO_STD, t)
      /\ state' = [state EXCEPT ![t] = "ready"]
      /\ UNCHANGED <<WQ, SQ, DQ, pth_current, pth_favournew, phase, attrs,
                     cancelreq, ring, pc>>
  BY DEF Admit
<1>2. t \in Members(NQ) /\ t \in Threads
  BY <1>1, TailQueue DEF NextNew, Inv, AreQueues
<1> HIDE DEF t
<1>3. state[t] = "new" /\ t \notin Members(RQ)
  BY <1>2 DEF Inv, Placed
<1>4. IsQueue(NQ)' /\ Members(NQ)' = Members(NQ) \ {t}
  BY <1>1, <1>2, DeleteQueue DEF Inv, AreQueues
<1>5. IsQueue(RQ)' /\ Members(RQ)' = Members(RQ) \cup {t} /\ RQ' # <<>>
  <2>1. IsQueue(RQ) /\ PRIO_STD \in Int
    BY SchedAssumption DEF Inv, AreQueues
  <2>2. CASE pth_favournew
    BY <1>1, <1>2, <1>3, <2>1, <2>2, PushFavoriteQueue
  <2>3. CASE ~pth_favournew
    BY <1>1, <1>2, <1>3, <2>1, <2>3, InsertQueue
  <2> QED BY <2>2, <2>3
<1>6. AreQueues'
  BY <1>1, <1>4, <1>5 DEF Inv, AreQueues
<1>7. RestOK'
  BY <1>1, <1>2 DEF attrs, ring, Inv, RestOK
<1>8. ASSUME NEW u \in Threads PROVE Placed(u)'
  BY <1>1, <1>2, <1>3, <1>4, <1>5
  DEF attrs, Inv, RestOK, Placed, Valid, OnCPU, Queued, InStateQueue
<1>9. RunningIsReady' /\ JoinHasEvent' /\ SomebodyToRun'
  BY <1>1, <1>5 DEF ring, Inv, RunningIsReady, JoinHasEvent, SomebodyToRun
<1> QED
  BY <1>6, <1>7, <1>8, <1>9 DEF Inv

LEMMA DispatchStep ==
    ASSUME Inv, Dispatch
    PROVE  Inv'
<1> DEFINE t == RQ[1].th
<1>1. /\ phase = "new" /\ NQ = <<>> /\ RQ # <<>> /\ phase' = "thread"
      /\ pth_current' = t /\ RQ' = Tail(RQ)
      /\ UNCHANGED <<NQ, WQ, SQ, DQ, pth_favournew, state, attrs, cancelreq,
                     ring, pc>>
  BY DEF Dispatch
<1>2. /\ t \in Members(RQ) /\ t \in Threads
      /\ IsQueue(Tail(RQ)) /\ Members(Tail(RQ)) = Members(RQ) \ {t}
  BY <1>1, TailQueue DEF Inv, AreQueues
<1> HIDE DEF t
<1>3. state[t] = "ready"
  BY <1>2 DEF Inv, Placed
<1>4. AreQueues'
  BY <1>1, <1>2 DEF Inv, AreQueues
<1>5. RestOK'
  BY <1>1, <1>2 DEF attrs, ring, Inv, RestOK
<1>6. ASSUME NEW u \in Threads PROVE Placed(u)'
  BY <1>1, <1>2, <1>3 DEF attrs, Inv, RestOK, Placed, Valid, OnCPU, Queued, InStateQueue
<1>7. RunningIsReady' /\ JoinHasEvent' /\ SomebodyToRun'
  BY <1>1, <1>3 DEF ring, Inv, RunningIsReady, JoinHasEvent, SomebodyToRun
<1> QED
  BY <1>4, <1>5, <1>6, <1>7 DEF Inv

LEMMA AbortProcessStep ==
    ASSUME Inv, Abort
    PROVE  Inv'
<1>1. AreQueues'
  BY DEF Abort, queues, Inv, AreQueues
<1>2. RestOK'
  BY DEF Abort, attrs, ring, Inv, RestOK
<1>3. ASSUME NEW t \in Threads PROVE Placed(t)'
  BY DEF Abort, queues, attrs, Inv, Placed, Valid, OnCPU, Queued, InStateQueue
<1>4. RunningIsReady' /\ JoinHasEvent' /\ SomebodyToRun'
  BY DEF Abort, ring, Inv, RunningIsReady, JoinHasEvent, SomebodyToRun
<1> QED
  BY <1>1, <1>2, <1>3, <1>4 DEF Inv

LEMMA SchedulerInv ==
    ASSUME Inv, SchedulerStep
    PROVE  Inv'
BY ReapStep, MarkStep, WakeStep, WakeDoneStep, AdmitStep, DispatchStep,
   AbortProcessStep DEF SchedulerStep

-----------------------------------------------------------------------------
(*                            The theorems                                 *)

LEMMA GiveUpInv ==
    ASSUME Inv, GiveUpStep
    PROVE  Inv'
<1>1. PICK c \in Threads :
        \/ pth_yield(c) \/ pth_wait(c) \/ pth_exit(c) \/ pth_cancel_point(c)
        \/ \E u \in Threads : pth_yield_to(c, u) \/ pth_wait_tid(c, u)
        \/ \E tid \in Threads \cup {NULL} : pth_join_wait(c, tid)
  BY DEF GiveUpStep
<1> QED
  BY <1>1, YieldStep, WaitStep, ExitCallStep, YieldToStep, WaitTidStep, JoinWaitStep

LEMMA CallInv ==
    ASSUME Inv, CallStep
    PROVE  Inv'
<1>1. PICK c \in Threads :
        \/ \E u \in Threads :
              \/ \E attr \in Attrs \cup {Inherited(c)} : pth_spawn(c, u, attr)
              \/ pth_suspend(c, u)
              \/ pth_resume(c, u)
              \/ pth_cancel(c, u)
              \/ pth_abort(c, u)
        \/ \E tid \in Threads \cup {NULL} : pth_join_dead(c, tid)
        \/ \E new \in CancelStates : pth_cancel_state(c, new)
        \/ pth_ctrl_favournew(c)
        \/ pth_kill_call(c)
  BY DEF CallStep
<1> QED
  BY <1>1, SpawnStep, SuspendStep, ResumeStep, CancelStep, AbortStep, JoinDeadStep,
     CancelStateStep, FavournewStep, KillCallStep

LEMMA StutterInv ==
    ASSUME Inv, UNCHANGED vars
    PROVE  Inv'
<1>1. AreQueues' /\ RestOK'
  BY DEF vars, queues, attrs, ring, Inv, AreQueues, RestOK
<1>2. ASSUME NEW t \in Threads PROVE Placed(t)'
  BY DEF vars, queues, attrs, ring, Inv, Placed, Valid, OnCPU, Queued, InStateQueue
<1>3. RunningIsReady' /\ JoinHasEvent'
  BY DEF vars, queues, attrs, ring, Inv, RunningIsReady, JoinHasEvent
<1>4. SomebodyToRun'
  BY DEF vars, queues, attrs, ring, Inv, SomebodyToRun, Wakes, TimeoutRefused
<1> QED
  BY <1>1, <1>2, <1>3, <1>4 DEF Inv

\* The inductive invariant holds throughout.
THEOREM Invariance == Spec => []IInv
<1>1. Init => Inv
  BY InitInv
<1>2. Inv /\ [Next]_vars => Inv'
  <2> SUFFICES ASSUME Inv, [Next]_vars PROVE Inv'
    OBVIOUS
  <2>1. CASE SchedulerStep
    BY <2>1, SchedulerInv
  <2>2. CASE ReturnStep
    BY <2>2, ReturnInv
  <2>3. CASE GiveUpStep
    BY <2>3, GiveUpInv
  <2>4. CASE CallStep
    BY <2>4, CallInv
  <2>5. CASE UNCHANGED vars
    BY <2>5, StutterInv
  <2> QED BY <2>1, <2>2, <2>3, <2>4, <2>5 DEF Next
<1>3. Inv => IInv
  BY InvIsIInv
<1> QED
  BY <1>1, <1>2, <1>3, PTL DEF Spec

\* Types: in particular pth_current, which becomes NULL when a thread blocks
\* or ends, is known whenever a thread runs or has just come back.
THEOREM TypeCorrect == Spec => []TypeOK
<1>1. IInv => TypeOK
  BY DEF IInv
<1> QED
  BY <1>1, Invariance, PTL

\* Every thread that is alive or waits to be joined is in exactly one place:
\* the queue its state stands for, the suspended queue, or the processor.
THEOREM ThreadsInTheirPlaces == Spec => []EachThreadInItsPlace
<1>1. IInv => EachThreadInItsPlace
  BY DEF IInv
<1> QED
  BY <1>1, Invariance, PTL

\* The scheduler always has a thread to dispatch when it comes to dispatch,
\* unless the main thread waits in pth_exit: apart from that, its "no more
\* thread(s) available to schedule" abort is unreachable.
THEOREM SchedulerNeverEmpty == Spec => []SchedulerFindsThread
<1>1. IInv => SchedulerFindsThread
  BY DEF IInv, SomebodyToRun, SchedulerFindsThread
<1> QED
  BY <1>1, Invariance, PTL

-----------------------------------------------------------------------------
(***************************************************************************)
(* The scheduler implements ThreadLife. The proof rests on the inductive   *)
(* invariant in its form Inv.                                              *)
(***************************************************************************)

-----------------------------------------------------------------------------
(*                         The abstract state                              *)

LEMMA BusyIff == ASSUME Inv PROVE Life!Busy <=> phase \in {"thread", "reap", "undefined"}
<1>1. \A t \in Threads : LifeOf(t) = "running" <=> t \in OnCPU
  BY DEF LifeOf, Inv, RestOK
<1> QED
  BY <1>1 DEF Life!Busy, OnCPU, Inv, RestOK

LEMMA IdleIff == ASSUME Inv PROVE Life!Idle <=> phase \notin {"thread", "reap", "undefined"}
<1>1. Life!Idle <=> ~Life!Busy
  BY DEF Life!Idle, Life!Busy
<1> QED
  BY <1>1, BusyIff

LEMMA Moved ==
    ASSUME NEW u \in Threads, NEW from, NEW to,
           LifeOf(u) \in from, LifeOf(u)' \in to,
           \A t \in Threads \ {u} : LifeOf(t)' = LifeOf(t),
           u \notin Members(SQ), Members(SQ)' = Members(SQ)
    PROVE  Life!Move(u, from, to)
<1> DEFINE life == [t \in Threads |-> LifeOf(t)]
           next == [t \in Threads |-> LifeOf(t)']
<1>1. next = [life EXCEPT ![u] = LifeOf(u)']
  OBVIOUS
<1>2. life[u] \in from
  OBVIOUS
<1> QED
  BY <1>1, <1>2 DEF Life!Move

LEMMA Stutters ==
    ASSUME \A t \in Threads : LifeOf(t)' = LifeOf(t), Members(SQ)' = Members(SQ)
    PROVE  UNCHANGED Life!vars
BY DEF Life!vars

\* Steps that change neither the states nor who has the processor.
LEMMA KeepsLife ==
    ASSUME state' = state, OnCPU' = OnCPU, SQ' = SQ
    PROVE  UNCHANGED Life!vars
<1>1. \A t \in Threads : LifeOf(t)' = LifeOf(t)
  BY DEF LifeOf
<1>2. Members(SQ)' = Members(SQ)
  BY DEF Members
<1> QED
  BY <1>1, <1>2, Stutters

\* A thread whose state changes while it has not got the processor, and does
\* not get it.
LEMMA LivesOn ==
    ASSUME Inv, NEW u \in Threads, NEW s,
           state' = [state EXCEPT ![u] = s], OnCPU' = OnCPU, u \notin OnCPU
    PROVE  /\ LifeOf(u) = IF state[u] = "freed" THEN "gone" ELSE state[u]
           /\ LifeOf(u)' = IF s = "freed" THEN "gone" ELSE s
           /\ \A t \in Threads \ {u} : LifeOf(t)' = LifeOf(t)
BY DEF LifeOf, Inv, RestOK

-----------------------------------------------------------------------------
(*                        The calls of a thread                            *)

LifeStep == Life!Next \/ UNCHANGED Life!vars

\* What a call begins with: somebody runs, who is ready and in no queue.
LEMMA CallerRuns ==
    ASSUME Inv, NEW c \in Threads, phase = "thread", pth_current = c
    PROVE  /\ Life!Busy /\ OnCPU = {c} /\ state[c] = "ready"
           /\ LifeOf(c) = "running" /\ c \notin Queued
<1>1. OnCPU = {c} /\ state[c] = "ready"
  BY DEF OnCPU, Inv, RunningIsReady
<1> QED
  BY <1>1, BusyIff DEF LifeOf, Inv, Placed

\* A thread that is dead or in the queue of its state is not suspended.
LEMMA NotSuspended ==
    ASSUME Inv, NEW u \in Threads, InStateQueue(u) \/ state[u] \in {"none", "dead"}
    PROVE  u \notin Members(SQ)
BY DEF Inv, Placed

LEMMA NotRunning ==
    ASSUME Inv, NEW u \in Threads, InStateQueue(u)
    PROVE  u \notin OnCPU
BY DEF Inv, Placed, InStateQueue, Queued

LEMMA SpawnLife ==
    ASSUME Inv, NEW c \in Threads, NEW u \in Threads,
           NEW attr \in Attrs \cup {Inherited(c)}, pth_spawn(c, u, attr)
    PROVE  LifeStep
<1>1. /\ phase = "thread" /\ pth_current = c /\ state[u] = "none"
      /\ state' = [state EXCEPT ![u] = "new"]
      /\ SQ' = SQ /\ OnCPU' = OnCPU
  BY DEF pth_spawn, Running, OnCPU
<1>2. Life!Busy /\ u \notin OnCPU
  BY <1>1, CallerRuns
<1>3. /\ LifeOf(u) = "none" /\ LifeOf(u)' = "new"
      /\ \A t \in Threads \ {u} : LifeOf(t)' = LifeOf(t)
  BY <1>1, <1>2, LivesOn
<1>4. u \notin Members(SQ) /\ Members(SQ)' = Members(SQ)
  BY <1>1, NotSuspended DEF Members
<1>5. Life!Move(u, {"none"}, {"new"})
  BY <1>3, <1>4, Moved
<1> QED
  BY <1>2, <1>5 DEF LifeStep, Life!Next, Life!Spawn

LEMMA YieldsLife ==
    ASSUME Inv, NEW c \in Threads,
           pth_yield(c) \/ \E u \in Threads : pth_yield_to(c, u)
    PROVE  LifeStep
<1>1. state' = state /\ OnCPU' = OnCPU /\ SQ' = SQ
  BY DEF pth_yield, pth_yield_to, Running, queues, OnCPU
<1> QED
  BY <1>1, KeepsLife DEF LifeStep

LEMMA SettingsLife ==
    ASSUME Inv, NEW c \in Threads,
           pth_ctrl_favournew(c) \/ \E new \in CancelStates : pth_cancel_state(c, new)
    PROVE  LifeStep
<1>1. state' = state /\ OnCPU' = OnCPU /\ SQ' = SQ
  BY DEF pth_ctrl_favournew, pth_cancel_state, queues, OnCPU
<1> QED
  BY <1>1, KeepsLife DEF LifeStep

LEMMA SuspendLife ==
    ASSUME Inv, NEW c \in Threads, NEW u \in Threads, pth_suspend(c, u)
    PROVE  LifeStep
<1>1. /\ phase = "thread" /\ pth_current = c /\ InStateQueue(u)
      /\ SQ' = Insert(SQ, PRIO_STD, u) /\ state' = state /\ OnCPU' = OnCPU
  BY DEF pth_suspend, Running, OnCPU
<1>2. Life!Busy /\ u \notin OnCPU /\ u \notin Members(SQ)
  BY <1>1, CallerRuns, NotRunning, NotSuspended
<1>3. Members(SQ)' = Members(SQ) \cup {u}
  <2>1. IsQueue(SQ) /\ PRIO_STD \in Int
    BY SchedAssumption DEF Inv, AreQueues
  <2> QED BY <1>1, <1>2, <2>1, InsertQueue
<1>4. /\ LifeOf(u) \in {"new", "ready", "waiting"}
      /\ \A t \in Threads : LifeOf(t)' = LifeOf(t)
  BY <1>1, <1>2 DEF LifeOf, InStateQueue
<1>5. Life!Suspend(u)
  BY <1>2, <1>3, <1>4 DEF Life!Suspend
<1> QED
  BY <1>5 DEF LifeStep, Life!Next

LEMMA ResumeLife ==
    ASSUME Inv, NEW c \in Threads, NEW u \in Threads, pth_resume(c, u)
    PROVE  LifeStep
<1>1. /\ phase = "thread" /\ pth_current = c /\ u \in Members(SQ)
      /\ SQ' = Delete(SQ, u) /\ state' = state /\ OnCPU' = OnCPU
  BY DEF pth_resume, Running, OnCPU
<1>2. Members(SQ)' = Members(SQ) \ {u}
  <2>1. IsQueue(SQ)
    BY DEF Inv, AreQueues
  <2> QED BY <1>1, <2>1, DeleteQueue
<1>3. \A t \in Threads : LifeOf(t)' = LifeOf(t)
  BY <1>1 DEF LifeOf
<1>4. Life!Resume(u)
  BY <1>1, <1>2, <1>3, CallerRuns DEF Life!Resume
<1> QED
  BY <1>4 DEF LifeStep, Life!Next

LEMMA CancelThreadLife ==
    ASSUME Inv, NEW c \in Threads, NEW u \in Threads, Running(c),
           NEW cs, NEW jn, CancelThread(u, cs, jn)
    PROVE  LifeStep
<1>1. phase = "thread" /\ pth_current = c /\ SQ' = SQ /\ OnCPU' = OnCPU
  BY DEF CancelThread, Running, OnCPU
<1>2. CASE cs = "async" /\ InStateQueue(u)
  <2>1. state' = [state EXCEPT ![u] = IF jn THEN "dead" ELSE "freed"]
    BY <1>2 DEF CancelThread, Bury
  <2>2. /\ Life!Busy /\ u \notin OnCPU /\ u \notin Members(SQ)
        /\ Members(SQ)' = Members(SQ)
    BY <1>1, <1>2, CallerRuns, NotRunning, NotSuspended DEF Members
  <2>3. /\ LifeOf(u) \in {"new", "ready", "waiting"} /\ LifeOf(u)' \in {"dead", "gone"}
        /\ \A t \in Threads \ {u} : LifeOf(t)' = LifeOf(t)
    BY <1>1, <1>2, <2>1, <2>2, LivesOn DEF InStateQueue
  <2>4. Life!Kill(u)
    BY <2>2, <2>3, Moved DEF Life!Kill
  <2> QED BY <2>4 DEF LifeStep, Life!Next
<1>3. CASE ~(cs = "async" /\ InStateQueue(u))
  <2>1. state' = state
    BY <1>3 DEF CancelThread
  <2> QED BY <1>1, <2>1, KeepsLife DEF LifeStep
<1> QED
  BY <1>2, <1>3

LEMMA ReclaimLife ==
    ASSUME Inv, phase = "thread", NEW u \in Threads, state[u] = "dead", Reclaim(u),
           SQ' = SQ, OnCPU' = OnCPU
    PROVE  LifeStep
<1>1. state' = [state EXCEPT ![u] = "freed"]
  BY DEF Reclaim
<1>2. /\ Life!Busy /\ u \notin OnCPU /\ u \notin Members(SQ)
      /\ Members(SQ)' = Members(SQ)
  BY CallerRuns, NotSuspended DEF Inv, RestOK, Members
<1>3. /\ LifeOf(u) = "dead" /\ LifeOf(u)' = "gone"
      /\ \A t \in Threads \ {u} : LifeOf(t)' = LifeOf(t)
  BY <1>1, <1>2, LivesOn
<1>4. Life!Reclaim(u)
  BY <1>2, <1>3, Moved DEF Life!Reclaim
<1> QED
  BY <1>4 DEF LifeStep, Life!Next

LEMMA CancelLife ==
    ASSUME Inv, NEW c \in Threads, NEW u \in Threads,
           pth_cancel(c, u) \/ pth_abort(c, u)
    PROVE  LifeStep
<1>1. CASE pth_cancel(c, u)
  <2>1. Running(c) /\ CancelThread(u, cancelstate[u], joinable[u])
    BY <1>1 DEF pth_cancel
  <2> QED BY <2>1, CancelThreadLife
<1>2. CASE pth_abort(c, u) /\ IsDead(u) /\ joinable[u]
  <2>1. /\ phase = "thread" /\ state[u] = "dead" /\ Reclaim(u)
        /\ SQ' = SQ /\ OnCPU' = OnCPU
    BY <1>2 DEF pth_abort, Running, IsDead, OnCPU
  <2> QED BY <2>1, ReclaimLife
<1>3. CASE pth_abort(c, u) /\ ~(IsDead(u) /\ joinable[u])
  <2>1. Running(c) /\ CancelThread(u, "async", FALSE)
    BY <1>3 DEF pth_abort
  <2> QED BY <2>1, CancelThreadLife
<1> QED
  BY <1>1, <1>2, <1>3

-----------------------------------------------------------------------------
(*                  Waiting, joining and termination                       *)

\* A thread that blocks still has the processor: the scheduler reaps it.
LEMMA BlockLife ==
    ASSUME Inv, NEW c \in Threads, phase = "thread", pth_current = c,
           NEW evs, NEW k, Block(c, evs, k)
    PROVE  LifeStep
<1>1. /\ state' = [state EXCEPT ![c] = "waiting"]
      /\ OnCPU = {c} /\ OnCPU' = {c} /\ SQ' = SQ
  BY DEF Block, queues, OnCPU
<1>2. \A t \in Threads : LifeOf(t)' = LifeOf(t)
  BY <1>1 DEF LifeOf, Inv, RestOK
<1> QED
  BY <1>1, <1>2, Stutters DEF LifeStep, Members

LEMMA JoinDeadLife ==
    ASSUME Inv, NEW c \in Threads, NEW tid \in Threads \cup {NULL}, pth_join_dead(c, tid)
    PROVE  LifeStep
<1>1. Joinee(tid) \in Threads /\ state[Joinee(tid)] = "dead"
  BY JoineeIsThread DEF pth_join_dead, IsDead
<1>2. phase = "thread" /\ Reclaim(Joinee(tid)) /\ SQ' = SQ /\ OnCPU' = OnCPU
  BY DEF pth_join_dead, MayJoin, Running, OnCPU
<1> QED
  BY <1>1, <1>2, ReclaimLife

\* The end of the main thread is the end of all.
LEMMA KillLife ==
    ASSUME Inv, phase = "thread", pth_current = Main, pth_kill,
           phase' \in {"exited", "killed"}
    PROVE  LifeStep
<1>1. Main \in Threads
  BY SchedAssumption
<1>2. LifeOf(Main) = "running" /\ OnCPU = {Main} /\ state[Main] = "ready"
  BY <1>1, CallerRuns
<1>3. OnCPU' = {} /\ Members(SQ)' = {}
  BY EmptyQueue DEF pth_kill, OnCPU
<1>4. ASSUME NEW t \in Threads
      PROVE  LifeOf(t)' = IF LifeOf(t) = "none" THEN "none" ELSE "gone"
  BY <1>2, <1>3 DEF pth_kill, Valid, LifeOf, Inv, RestOK
<1>5. Life!Shutdown
  BY <1>1, <1>2, <1>3, <1>4 DEF Life!Shutdown
<1> QED
  BY <1>5 DEF LifeStep, Life!Next

LEMMA TerminateLife ==
    ASSUME Inv, NEW c \in Threads, phase = "thread", pth_current = c, Terminate(c)
    PROVE  LifeStep
<1>1. CASE c = Main
  BY <1>1, KillLife DEF Terminate
<1>2. CASE c # Main
  <2>1. /\ state' = [state EXCEPT ![c] = "dead"]
        /\ OnCPU = {c} /\ OnCPU' = {c} /\ SQ' = SQ
    BY <1>2 DEF Terminate, queues, OnCPU
  <2>2. \A t \in Threads : LifeOf(t)' = LifeOf(t)
    BY <2>1 DEF LifeOf, Inv, RestOK
  <2> QED BY <2>1, <2>2, Stutters DEF LifeStep, Members
<1> QED
  BY <1>1, <1>2

LEMMA ExitLife ==
    ASSUME Inv, NEW c \in Threads, phase = "thread", pth_current = c, Exit(c)
    PROVE  LifeStep
<1>1. Block(c, {FUNC}, "exit") \/ Terminate(c)
  BY DEF Exit
<1> QED
  BY <1>1, BlockLife, TerminateLife

LEMMA GiveUpLife ==
    ASSUME Inv, GiveUpStep
    PROVE  LifeStep
<1>1. PICK c \in Threads :
        \/ pth_yield(c) \/ pth_wait(c) \/ pth_exit(c) \/ pth_cancel_point(c)
        \/ \E u \in Threads : pth_yield_to(c, u) \/ pth_wait_tid(c, u)
        \/ \E tid \in Threads \cup {NULL} : pth_join_wait(c, tid)
  BY DEF GiveUpStep
<1>2. CASE pth_yield(c) \/ \E u \in Threads : pth_yield_to(c, u)
  BY <1>2, YieldsLife
<1>3. CASE pth_exit(c) \/ pth_cancel_point(c)
  <2>1. phase = "thread" /\ pth_current = c /\ Exit(c)
    BY <1>3 DEF pth_exit, pth_cancel_point, CancelExit, Running
  <2> QED BY <2>1, ExitLife
<1>4. CASE pth_wait(c)
  <2>1. phase = "thread" /\ pth_current = c /\ Block(c, {EXT}, "wait")
    BY <1>4 DEF pth_wait, Running
  <2> QED BY <2>1, BlockLife
<1>5. ASSUME NEW u \in Threads, pth_wait_tid(c, u) PROVE LifeStep
  <2>1. phase = "thread" /\ pth_current = c /\ Block(c, {EXT, TID(u)}, "wait")
    BY <1>5 DEF pth_wait_tid, Running
  <2> QED BY <2>1, BlockLife
<1>6. ASSUME NEW tid \in Threads \cup {NULL}, pth_join_wait(c, tid) PROVE LifeStep
  <2>1. phase = "thread" /\ pth_current = c /\ Block(c, {TID(tid)}, "join")
    BY <1>6 DEF pth_join_wait, MayJoin, Running
  <2> QED BY <2>1, BlockLife
<1> QED
  BY <1>1, <1>2, <1>3, <1>4, <1>5, <1>6

LEMMA CallLife ==
    ASSUME Inv, CallStep
    PROVE  LifeStep
<1>1. PICK c \in Threads :
        \/ \E u \in Threads :
              \/ \E attr \in Attrs \cup {Inherited(c)} : pth_spawn(c, u, attr)
              \/ pth_suspend(c, u)
              \/ pth_resume(c, u)
              \/ pth_cancel(c, u)
              \/ pth_abort(c, u)
        \/ \E tid \in Threads \cup {NULL} : pth_join_dead(c, tid)
        \/ \E new \in CancelStates : pth_cancel_state(c, new)
        \/ pth_ctrl_favournew(c)
        \/ pth_kill_call(c)
  BY DEF CallStep
<1>2. CASE pth_kill_call(c)
  <2>1. /\ phase = "thread" /\ pth_current = Main /\ pth_kill
        /\ phase' \in {"exited", "killed"}
    BY <1>2 DEF pth_kill_call, Running
  <2> QED BY <2>1, KillLife
<1> QED
  BY <1>1, <1>2, SpawnLife, SuspendLife, ResumeLife, CancelLife, JoinDeadLife, SettingsLife

LEMMA ReturnLife ==
    ASSUME Inv, ReturnStep
    PROVE  LifeStep
<1>1. PICK c \in Threads :
         \/ WaitCancelled(c) \/ WaitReturns(c) \/ ExitReturns(c)
         \/ JoinReturns(c) \/ JoinReturnsStale(c)
  BY DEF ReturnStep
<1>2. phase = "thread" /\ pth_current = c
  BY <1>1 DEF WaitCancelled, WaitReturns, JoinReturns, JoinReturnsStale, ExitReturns,
     Returning
<1>3. CASE WaitCancelled(c)
  BY <1>2, <1>3, ExitLife DEF WaitCancelled, CancelExit
<1>4. CASE WaitReturns(c) \/ JoinReturnsStale(c)
  <2>1. state' = state /\ OnCPU' = OnCPU /\ SQ' = SQ
    BY <1>2, <1>4 DEF WaitReturns, JoinReturnsStale, queues, OnCPU
  <2> QED BY <2>1, KeepsLife DEF LifeStep
<1>5. CASE JoinReturns(c)
  <2> DEFINE tid == CHOOSE u \in Threads \cup {NULL} : TID(u) \in events[c]
             u == Joinee(tid)
  <2>1. /\ pc[c] = "join" /\ SQ' = SQ /\ OnCPU' = OnCPU
        /\ IF IsDead(u) THEN Reclaim(u) ELSE UNCHANGED <<DQ, state>>
    BY <1>5 DEF JoinReturns, Returning, OnCPU
  <2>2. tid \in Threads \cup {NULL}
    <3>1. \E v \in Threads \cup {NULL} : TID(v) \in events[c]
      BY <2>1 DEF Inv, JoinHasEvent
    <3> QED BY <3>1
  <2> HIDE DEF tid
  <2>3. IsDead(u) => u \in Threads /\ state[u] = "dead"
    BY <2>2, JoineeIsThread DEF IsDead
  <2> HIDE DEF u
  <2>4. CASE IsDead(u)
    BY <1>2, <2>1, <2>3, <2>4, ReclaimLife
  <2>5. CASE ~IsDead(u)
    BY <2>1, <2>5, KeepsLife DEF LifeStep
  <2> QED BY <2>4, <2>5
<1>6. CASE ExitReturns(c)
  BY <1>2, <1>6, TerminateLife DEF ExitReturns
<1> QED
  BY <1>1, <1>3, <1>4, <1>5, <1>6

-----------------------------------------------------------------------------
(*                        The scheduler's loop                             *)

\* A thread that just came back is put away: it stops running.
LEMMA ReapLife ==
    ASSUME Inv, Reap
    PROVE  LifeStep
<1>0. PICK c \in Threads : c = pth_current
  BY DEF Reap, Inv, RestOK
<1>1. /\ phase = "reap" /\ phase' = "mark" /\ SQ' = SQ
      /\ OnCPU = {c} /\ OnCPU' = {}
  BY <1>0 DEF Reap, OnCPU
<1>2. /\ state'[c] \in {"ready", "waiting", "dead", "freed"}
      /\ \A t \in Threads \ {c} : state'[t] = state[t]
  BY <1>0, <1>1 DEF Reap, Bury, Inv, RestOK
<1>3. c \notin Members(SQ) /\ Members(SQ)' = Members(SQ)
  BY <1>1 DEF Inv, Placed, Queued, Members
<1>4. /\ LifeOf(c) = "running" /\ LifeOf(c)' \in {"ready", "waiting", "dead", "gone"}
      /\ \A t \in Threads \ {c} : LifeOf(t)' = LifeOf(t)
  BY <1>1, <1>2 DEF LifeOf
<1>5. Life!Stop(c)
  BY <1>1, <1>3, <1>4, Moved DEF Life!Stop
<1> QED
  BY <1>1, <1>5 DEF LifeStep, Life!Next

LEMMA WakeLife ==
    ASSUME Inv, Wake
    PROVE  LifeStep
<1>1. \A i \in DOMAIN WQ : WQ[i].th \in Members(WQ) /\ WQ[i].th \in Threads
  <2>1. Members(WQ) \subseteq Threads
    BY QueueOfThreads DEF Inv, AreQueues
  <2> QED BY <2>1 DEF Members
<1>2. PICK t \in Threads :
         t \in Members(WQ) /\ state' = [state EXCEPT ![t] = "ready"]
  BY <1>1 DEF Wake
<1>3. state' = [state EXCEPT ![t] = "ready"]
  BY <1>2
<1>4. state[t] = "waiting" /\ InStateQueue(t)
  BY <1>2 DEF Inv, Placed, InStateQueue
<1>5. phase = "wake" /\ SQ' = SQ /\ OnCPU' = OnCPU
  BY DEF Wake, OnCPU
<1>6. /\ Life!Idle /\ t \notin OnCPU /\ t \notin Members(SQ)
      /\ Members(SQ)' = Members(SQ)
  BY <1>4, <1>5, IdleIff, NotRunning, NotSuspended DEF Members
<1>7. /\ LifeOf(t) = "waiting" /\ LifeOf(t)' = "ready"
      /\ \A v \in Threads \ {t} : LifeOf(v)' = LifeOf(v)
  BY <1>3, <1>4, <1>5, <1>6, LivesOn
<1>8. Life!Wake(t)
  BY <1>4, <1>6, <1>7, Moved DEF Life!Wake
<1> QED
  BY <1>4, <1>8 DEF LifeStep, Life!Next

LEMMA AdmitLife ==
    ASSUME Inv, Admit
    PROVE  LifeStep
<1>1. /\ phase = "new" /\ NQ # <<>> /\ state' = [state EXCEPT ![NextNew] = "ready"]
      /\ SQ' = SQ /\ OnCPU' = OnCPU
  BY DEF Admit, OnCPU
<1>2. PICK t \in Threads :
         t \in Members(NQ) /\ state' = [state EXCEPT ![t] = "ready"]
  BY <1>1, TailQueue DEF NextNew, Inv, AreQueues
<1>3. state[t] = "new" /\ InStateQueue(t)
  BY <1>2 DEF Inv, Placed, InStateQueue
<1>4. /\ Life!Idle /\ t \notin OnCPU /\ t \notin Members(SQ)
      /\ Members(SQ)' = Members(SQ)
  BY <1>1, <1>2, <1>3, IdleIff, NotRunning, NotSuspended DEF Members
<1>5. /\ LifeOf(t) = "new" /\ LifeOf(t)' = "ready"
      /\ \A v \in Threads \ {t} : LifeOf(v)' = LifeOf(v)
  BY <1>1, <1>2, <1>3, <1>4, LivesOn
<1>6. Life!Admit(t)
  BY <1>2, <1>4, <1>5, Moved DEF Life!Admit
<1> QED
  BY <1>2, <1>6 DEF LifeStep, Life!Next

LEMMA DispatchLife ==
    ASSUME Inv, Dispatch
    PROVE  LifeStep
<1>1. /\ phase = "new" /\ RQ # <<>> /\ state' = state /\ SQ' = SQ
      /\ OnCPU = {} /\ OnCPU' = {RQ[1].th}
  BY DEF Dispatch, OnCPU
<1>2. PICK t \in Threads : t \in Members(RQ) /\ OnCPU' = {t}
  BY <1>1, TailQueue DEF Inv, AreQueues
<1>3. state[t] = "ready" /\ InStateQueue(t)
  BY <1>2 DEF Inv, Placed, InStateQueue
<1>4. Life!Idle /\ t \notin Members(SQ) /\ Members(SQ)' = Members(SQ)
  BY <1>1, <1>2, <1>3, IdleIff, NotSuspended DEF Members
<1>5. /\ LifeOf(t) = "ready" /\ LifeOf(t)' = "running"
      /\ \A v \in Threads \ {t} : LifeOf(v)' = LifeOf(v)
  BY <1>1, <1>2, <1>3 DEF LifeOf
<1>6. Life!Run(t)
  BY <1>2, <1>4, <1>5, Moved DEF Life!Run
<1> QED
  BY <1>2, <1>6 DEF LifeStep, Life!Next

LEMMA SchedulerLife ==
    ASSUME Inv, SchedulerStep
    PROVE  LifeStep
<1>1. CASE Mark \/ WakeDone \/ Abort
  <2>1. state' = state /\ OnCPU' = OnCPU /\ SQ' = SQ
    BY <1>1 DEF Mark, WakeDone, Abort, queues, OnCPU
  <2> QED BY <2>1, KeepsLife DEF LifeStep
<1> QED
  BY <1>1, ReapLife, WakeLife, AdmitLife, DispatchLife DEF SchedulerStep

-----------------------------------------------------------------------------
(*                            The refinement                               *)

LEMMA InitLife == Init => Life!Init
<1> SUFFICES ASSUME Init PROVE Life!Init
  OBVIOUS
<1>1. OnCPU = {Main} /\ Members(SQ) = {}
  BY EmptyQueue DEF Init, OnCPU
<1>2. \A t \in Threads : LifeOf(t) = IF t = Main THEN "running" ELSE "none"
  BY <1>1 DEF LifeOf, Init
<1> QED
  BY <1>1, <1>2 DEF Life!Init

\* Whatever the application calls and in whichever order the scheduler goes
\* on, every step is a legal move of one thread, the shutdown, or no move:
\* pth_sched.c, pth_lib.c and pth_cancel.c implement ThreadLife.
THEOREM LifeImplemented == Spec => ImplementsThreadLife
<1>1. Init => Life!Init
  BY InitLife
<1>2. IInv /\ [Next]_vars => [Life!Next]_(Life!vars)
  <2> SUFFICES ASSUME Inv, [Next]_vars PROVE LifeStep
    BY InvIsIInv DEF LifeStep
  <2>1. CASE UNCHANGED vars
    <3>1. state' = state /\ OnCPU' = OnCPU /\ SQ' = SQ
      BY <2>1 DEF vars, queues, OnCPU
    <3> QED BY <3>1, KeepsLife DEF LifeStep
  <2> QED
    BY <2>1, SchedulerLife, ReturnLife, GiveUpLife, CallLife DEF Next
<1> QED
  BY <1>1, <1>2, Invariance, PTL DEF Spec, ImplementsThreadLife, Life!Spec

-----------------------------------------------------------------------------
(***************************************************************************)
(* The event manager misses no event.                                      *)
(***************************************************************************)

\* While threads are woken, the marks of the first loop are those that a look
\* at the events would find again.
MarksAreFresh ==
    phase = "wake" => \A t \in Members(WQ) : Found(t) \subseteq occurred[t]

LEMMA InsertLen ==
    ASSUME NEW q, IsQueue(q), NEW u \in Threads, NEW p \in Int
    PROVE  Len(Insert(q, p, u)) = Len(q) + 1
<1>1. q \in Seq(Entry(Threads)) /\ [th |-> u, pr |-> p] \in Entry(Threads)
  BY DEF IsQueue, Entry
<1>2. Place(q, p) \in 1 .. Len(q) + 1
  BY <1>1, PlaceInRange
<1> QED
  BY <1>1, <1>2, InsertAtElements DEF Insert

LEMMA PushFavoriteLen ==
    ASSUME NEW q, IsQueue(q), NEW u \in Threads
    PROVE  Len(PushFavorite(q, u)) = Len(q) + 1
<1>1. PushFavorite(q, u) = <<[th |-> u, pr |-> FavoritePrio(q)]>> \o q
  BY DEF PushFavorite
<1>2. q \in Seq(Entry(Threads)) /\ PushFavorite(q, u) \in Seq(Entry(Threads))
  BY PushFavoriteProps DEF IsQueue
<1> DEFINE x == <<[th |-> u, pr |-> FavoritePrio(q)]>>
           S == Entry(Threads) \cup {[th |-> u, pr |-> FavoritePrio(q)]}
<1>3. x \in Seq(S) /\ q \in Seq(S) /\ Len(x) = 1
  BY <1>2
<1>4. Len(x \o q) = Len(x) + Len(q)
  BY <1>3, ConcatProperties
<1> QED
  BY <1>1, <1>3, <1>4, LenProperties

LEMMA DeleteLen ==
    ASSUME NEW q, IsQueue(q), NEW u \in Members(q)
    PROVE  Len(Delete(q, u)) = Len(q) - 1
BY DeleteProps DEF IsQueue

\* Moving a thread between two queues of the living changes no event.
LEMMA OccursKept ==
    ASSUME Inv, UNCHANGED <<DQ, events>>, pth_exit_cb' = pth_exit_cb,
           \A u \in Threads : IsDead(u)' <=> IsDead(u),
           NEW t \in Threads
    PROVE  /\ Found(t)' = Found(t)
           /\ \A ev \in events[t] : Occurs(ev)' <=> Occurs(ev)
<1>1. ASSUME NEW ev \in events[t] PROVE Occurs(ev)' <=> Occurs(ev)
  <2>1. ev \in Event
    BY DEF Inv, RestOK
  <2>2. ev.type = "TID" => ev.tid \in Threads \cup {NULL}
    BY <2>1, SchedAssumption DEF Event, EXT, FUNC, TID
  <2>3. ev.type = "TID" => (IsDead(ev.tid)' <=> IsDead(ev.tid))
    BY <2>2 DEF IsDead
  <2> QED
    BY <2>3 DEF Occurs
<1> QED
  BY <1>1 DEF Found

LEMMA MarkFresh ==
    ASSUME Inv, Mark
    PROVE  MarksAreFresh'
<1>1. UNCHANGED <<WQ, DQ, NQ, RQ, SQ, state, events>>
  BY DEF Mark, queues
<1>2. Members(WQ) \subseteq Threads
  BY QueueOfThreads DEF Inv, AreQueues
<1>3. \A t \in Members(WQ) : Found(t) \subseteq occurred'[t]
  BY <1>2 DEF Mark, Noted
<1>4. pth_exit_cb' = pth_exit_cb
  BY <1>1 DEF pth_exit_cb
<1>5. ASSUME NEW t \in Members(WQ) PROVE Found(t)' \subseteq occurred'[t]
  <2>1. Found(t)' = Found(t)
    BY <1>1, <1>2, <1>4, OccursKept DEF IsDead
  <2> QED
    BY <1>2, <1>3, <2>1
<1> QED
  BY <1>1, <1>5 DEF MarksAreFresh

LEMMA WakeFresh ==
    ASSUME Inv, MarksAreFresh, Wake
    PROVE  MarksAreFresh'
<1>1. PICK i \in DOMAIN WQ :
         /\ WQ' = Delete(WQ, WQ[i].th)
         /\ RQ' = Insert(RQ, prio[WQ[i].th] + 1, WQ[i].th)
         /\ state' = [state EXCEPT ![WQ[i].th] = "ready"]
  BY DEF Wake
<1>2. PICK t \in Members(WQ) : /\ WQ' = Delete(WQ, t)
                               /\ RQ' = Insert(RQ, prio[t] + 1, t)
                               /\ state' = [state EXCEPT ![t] = "ready"]
  BY <1>1 DEF Members
<1>3. UNCHANGED <<NQ, SQ, DQ, events, occurred>> /\ phase = "wake"
  BY DEF Wake, ring
<1>4. t \in Threads /\ Members(WQ) \subseteq Threads
  BY QueueOfThreads DEF Inv, AreQueues
<1>5. state[t] = "waiting"
  BY <1>4 DEF Inv, Placed
<1>6. Members(WQ)' = Members(WQ) \ {t}
  BY <1>2, DeleteQueue DEF Inv, AreQueues
<1>7. pth_exit_cb' = pth_exit_cb
  <2>1. Len(WQ') = Len(WQ) - 1
    BY <1>2, DeleteLen DEF Inv, AreQueues
  <2>2. prio[t] + 1 \in Int
    BY <1>4 DEF Inv, RestOK
  <2>3. Len(RQ') = Len(RQ) + 1
    BY <1>2, <1>4, <2>2, InsertLen DEF Inv, AreQueues
  <2>4. \A q \in {NQ, RQ, WQ, SQ} : Len(q) \in Nat
    BY LenProperties DEF Inv, AreQueues, IsQueue
  <2> QED
    BY <1>3, <2>1, <2>3, <2>4 DEF pth_exit_cb
<1>8. \A u \in Threads : IsDead(u)' <=> IsDead(u)
  BY <1>2, <1>4, <1>5 DEF IsDead, Inv, RestOK
<1>9. \A u \in Threads : Found(u)' = Found(u)
  BY <1>3, <1>7, <1>8, OccursKept
<1> QED
  BY <1>3, <1>4, <1>6, <1>9 DEF MarksAreFresh

LEMMA WakeDoneMissesNone ==
    ASSUME Inv, MarksAreFresh, WakeDone
    PROVE  NoMissedEvent'
<1>1. UNCHANGED <<WQ, DQ, NQ, RQ, SQ, state, cancelreq, events>> /\ phase = "wake"
  BY DEF WakeDone, queues, ring
<1>2. Members(WQ) \subseteq Threads
  BY QueueOfThreads DEF Inv, AreQueues
<1>3. pth_exit_cb' = pth_exit_cb
  BY <1>1 DEF pth_exit_cb
<1>4. ASSUME NEW t \in Members(WQ)
      PROVE  ~cancelreq[t] /\ \A ev \in events[t] : ~Occurs(ev)'
  <2>1. ~Wakes(t)
    BY DEF WakeDone
  <2>2. Found(t) = {}
    BY <1>1, <2>1 DEF MarksAreFresh, Wakes
  <2>3. \A ev \in events[t] : Occurs(ev)' <=> Occurs(ev)
    BY <1>1, <1>2, <1>3, OccursKept DEF IsDead
  <2> QED
    BY <2>1, <2>2, <2>3 DEF Found, Wakes
<1> QED
  BY <1>1, <1>4 DEF NoMissedEvent

LEMMA AdmitMissesNone ==
    ASSUME Inv, NoMissedEvent, Admit
    PROVE  NoMissedEvent'
<1>1. PICK t \in Members(NQ) :
        /\ NQ' = Delete(NQ, t)
        /\ RQ' = IF pth_favournew THEN PushFavorite(RQ, t) ELSE Insert(RQ, PRIO_STD, t)
        /\ state' = [state EXCEPT ![t] = "ready"]
  <2>1. NextNew \in Members(NQ)
    BY TailQueue DEF NextNew, Inv, AreQueues, Admit
  <2> QED
    BY <2>1 DEF Admit
<1>2. UNCHANGED <<WQ, SQ, DQ, events, cancelreq>> /\ phase = "new"
  BY DEF Admit, ring
<1>3. t \in Threads /\ Members(WQ) \subseteq Threads
  BY QueueOfThreads DEF Inv, AreQueues
<1>4. state[t] = "new"
  BY <1>3 DEF Inv, Placed
<1>5. pth_exit_cb' = pth_exit_cb
  <2>1. Len(NQ') = Len(NQ) - 1
    BY <1>1, DeleteLen DEF Inv, AreQueues
  <2>2. Len(RQ') = Len(RQ) + 1
    BY <1>1, <1>3, InsertLen, PushFavoriteLen, SchedAssumption DEF Inv, AreQueues
  <2>3. \A q \in {NQ, RQ, WQ, SQ} : Len(q) \in Nat
    BY LenProperties DEF Inv, AreQueues, IsQueue
  <2> QED
    BY <1>2, <2>1, <2>2, <2>3 DEF pth_exit_cb
<1>6. \A u \in Threads : IsDead(u)' <=> IsDead(u)
  BY <1>1, <1>3, <1>4 DEF IsDead, Inv, RestOK
<1>7. \A u \in Threads : \A ev \in events[u] : Occurs(ev)' <=> Occurs(ev)
  BY <1>2, <1>5, <1>6, OccursKept
<1> QED
  BY <1>2, <1>3, <1>7 DEF NoMissedEvent

\* Every other step starts or ends outside the event manager.
LEMMA OtherPhases ==
    ASSUME Inv, [Next]_vars, ~Mark, ~Wake, ~WakeDone, ~Admit
    PROVE  \/ phase' \notin {"wake", "new"}
           \/ UNCHANGED vars
<1>1. CASE SchedulerStep
  BY <1>1 DEF SchedulerStep, Reap, Dispatch, Abort
<1>2. ASSUME NEW c \in Threads, Exit(c), phase = "thread"
      PROVE  phase' \notin {"wake", "new"}
  BY <1>2 DEF Exit, Terminate, Block
<1>3. CASE ReturnStep
  BY <1>2, <1>3 DEF ReturnStep, WaitCancelled, WaitReturns, JoinReturns,
     JoinReturnsStale, ExitReturns, Returning, CancelExit, Terminate
<1>4. CASE GiveUpStep
  BY <1>2, <1>4 DEF GiveUpStep, pth_yield, pth_wait, pth_exit, pth_cancel_point,
     pth_yield_to, pth_wait_tid, pth_join_wait, MayJoin, CancelExit, Running, Block
<1>5. CASE CallStep
  <2>1. PICK c \in Threads :
        \/ \E u \in Threads :
              \/ \E attr \in Attrs \cup {Inherited(c)} : pth_spawn(c, u, attr)
              \/ pth_suspend(c, u)
              \/ pth_resume(c, u)
              \/ pth_cancel(c, u)
              \/ pth_abort(c, u)
        \/ \E tid \in Threads \cup {NULL} : pth_join_dead(c, tid)
        \/ \E new \in CancelStates : pth_cancel_state(c, new)
        \/ pth_ctrl_favournew(c)
        \/ pth_kill_call(c)
    BY <1>5 DEF CallStep
  <2> QED
    BY <2>1 DEF pth_spawn, pth_suspend, pth_resume, pth_cancel, pth_abort, CancelThread,
       pth_join_dead, MayJoin, pth_cancel_state, pth_ctrl_favournew, pth_kill_call, Running
<1> QED
  BY <1>1, <1>3, <1>4, <1>5 DEF Next

LEMMA StutterFresh ==
    ASSUME MarksAreFresh, NoMissedEvent, UNCHANGED vars
    PROVE  MarksAreFresh' /\ NoMissedEvent'
BY DEF vars, queues, ring, MarksAreFresh, NoMissedEvent, Found, Occurs, IsDead, pth_exit_cb

(* The event manager of the scheduler, whatever the threads wait for and   *)
(* in whatever order they are woken, leaves nobody waiting for something   *)
(* that has already happened.                                              *)
THEOREM EventsNotMissed == Spec => []NoMissedEvent
<1>1. Init => MarksAreFresh /\ NoMissedEvent
  BY DEF Init, MarksAreFresh, NoMissedEvent
<1>2. ASSUME Inv, MarksAreFresh, NoMissedEvent, [Next]_vars
      PROVE  MarksAreFresh' /\ NoMissedEvent'
  <2>1. CASE Mark
    <3>1. phase' = "wake"
      BY <2>1 DEF Mark
    <3> QED BY <1>2, <2>1, <3>1, MarkFresh DEF NoMissedEvent
  <2>2. CASE Wake
    <3>1. phase' = "wake"
      BY <2>2 DEF Wake
    <3> QED BY <1>2, <2>2, <3>1, WakeFresh DEF NoMissedEvent
  <2>3. CASE WakeDone
    <3>1. phase' = "new"
      BY <2>3 DEF WakeDone
    <3> QED BY <1>2, <2>3, <3>1, WakeDoneMissesNone DEF MarksAreFresh
  <2>4. CASE Admit
    <3>1. phase' = "new"
      BY <2>4 DEF Admit
    <3> QED BY <1>2, <2>4, <3>1, AdmitMissesNone DEF MarksAreFresh
  <2>5. CASE phase' \notin {"wake", "new"}
    BY <2>5 DEF MarksAreFresh, NoMissedEvent
  <2> QED
    BY <1>2, <2>1, <2>2, <2>3, <2>4, <2>5, OtherPhases, StutterFresh
<1>3. IInv => Inv
  BY InvIsIInv
<1> QED
  BY <1>1, <1>2, <1>3, Invariance, PTL DEF Spec

-----------------------------------------------------------------------------
(***************************************************************************)
(* A join waits for the death of its thread, whatever threads do to the    *)
(* joining thread, to the joined one and to one another: the argument is   *)
(* by what the event manager has seen before it made the joining thread    *)
(* ready, and by who can free a control block.                             *)
(***************************************************************************)

\* The thread has died; its control block may be gone as well.
Over(u) == state[u] \in {"dead", "freed"}

\* A living thread that is not inside a wait has no events linked, and one
\* that has not begun is in no wait.
Linked(t) ==
    /\ state[t] \in {"none", "new"} => pc[t] = "run"
    /\ ~Over(t) /\ pc[t] = "run" => events[t] = {}

LinkedOnlyInWaits == \A t \in Threads : Linked(t)

\* A join waits for its thread only.
JoinHasOneEvent ==
    \A c \in Threads :
        pc[c] = "join" => \E tid \in Threads \cup {NULL} : events[c] = {TID(tid)}

Settled(c) == \A u \in Threads : TID(u) \in events[c] => Over(u)

\* A joining thread that the event manager has marked, or has made ready
\* without a request to end, finds its thread dead, or collected.
MarkedAreSettled ==
    phase = "wake" =>
        \A c \in Members(WQ) : pc[c] = "join" /\ occurred[c] # {} => Settled(c)

ReadyAreSettled ==
    \A c \in Threads :
        pc[c] = "join" /\ state[c] = "ready" /\ ~cancelreq[c] => Settled(c)

JoinInv ==
    /\ LinkedOnlyInWaits
    /\ JoinHasOneEvent
    /\ MarkedAreSettled
    /\ ReadyAreSettled

LEMMA JoinInit == Init => JoinInv
BY DEF Init, JoinInv, LinkedOnlyInWaits, Linked, Over, JoinHasOneEvent, MarkedAreSettled,
   ReadyAreSettled

-----------------------------------------------------------------------------
(*                     What steps leave as it was                          *)

\* A step in which no thread begins to join and no joining one is woken.
Quiet ==
    /\ phase' # "wake"
    /\ \A t \in Threads :
         /\ Linked(t)'
         /\ Over(t) => Over(t)'
         /\ pc'[t] = "join" => pc[t] = "join" /\ events'[t] = events[t]
         /\ pc'[t] = "join" /\ state'[t] = "ready" /\ ~cancelreq'[t] =>
                state[t] = "ready" /\ ~cancelreq[t]

LEMMA QuietStep ==
    ASSUME JoinInv, Quiet
    PROVE  JoinInv'
<1>1. LinkedOnlyInWaits'
  BY DEF Quiet, LinkedOnlyInWaits
<1>2. JoinHasOneEvent'
  BY DEF Quiet, JoinInv, JoinHasOneEvent
<1>3. MarkedAreSettled'
  BY DEF Quiet, MarkedAreSettled
<1>4. ReadyAreSettled'
  BY DEF Quiet, JoinInv, ReadyAreSettled, Settled
<1> QED
  BY <1>1, <1>2, <1>3, <1>4 DEF JoinInv

\* Steps that only move control blocks between queues, or change settings.
LEMMA QuietWhenStill ==
    ASSUME JoinInv, phase' # "wake", UNCHANGED <<state, events, pc>>,
           \A t \in Threads : cancelreq[t] => cancelreq'[t]
    PROVE  JoinInv'
<1>1. Quiet
  BY DEF Quiet, JoinInv, LinkedOnlyInWaits, Linked, Over
<1> QED
  BY <1>1, QuietStep

\* Steps in which a thread that need not be the caller dies or is freed.
LEMMA QuietWhenOver ==
    ASSUME Inv, JoinInv, phase' # "wake", UNCHANGED <<events, pc>>,
           NEW d, NEW s \in {"dead", "freed"}, state' = [state EXCEPT ![d] = s],
           \A t \in Threads : cancelreq[t] => cancelreq'[t]
    PROVE  JoinInv'
<1>1. Quiet
  BY DEF Quiet, Inv, RestOK, JoinInv, LinkedOnlyInWaits, Linked, Over
<1> QED
  BY <1>1, QuietStep

-----------------------------------------------------------------------------
(*                      Calls of the running thread                        *)

LEMMA JoinSpawn ==
    ASSUME Inv, JoinInv, NEW c \in Threads, NEW u \in Threads,
           NEW attr \in Attrs \cup {Inherited(c)}, pth_spawn(c, u, attr)
    PROVE  JoinInv'
<1>1. /\ UNCHANGED <<phase, events, cancelreq, pc>>
      /\ state[u] = "none" /\ state' = [state EXCEPT ![u] = "new"]
      /\ phase = "thread"
  BY DEF pth_spawn, ring, Running
<1>2. Quiet
  BY <1>1 DEF Quiet, Inv, RestOK, JoinInv, LinkedOnlyInWaits, Linked, Over
<1> QED
  BY <1>2, QuietStep

LEMMA JoinStill ==
    ASSUME JoinInv, NEW c \in Threads,
           \/ pth_yield(c)
           \/ \E u \in Threads :
                 pth_yield_to(c, u) \/ pth_suspend(c, u) \/ pth_resume(c, u)
           \/ pth_ctrl_favournew(c)
           \/ \E new \in CancelStates : pth_cancel_state(c, new)
    PROVE  JoinInv'
<1>1. UNCHANGED <<state, cancelreq, events, pc>> /\ phase' # "wake"
  BY DEF pth_yield, pth_yield_to, pth_suspend, pth_resume, pth_ctrl_favournew,
     pth_cancel_state, Running, queues, attrs, ring
<1> QED
  BY <1>1, QuietWhenStill

LEMMA JoinCancelThread ==
    ASSUME Inv, JoinInv, phase = "thread", NEW u \in Threads, NEW cs, NEW jn,
           CancelThread(u, cs, jn)
    PROVE  JoinInv'
<1>1. /\ UNCHANGED <<events, pc>> /\ phase' # "wake"
      /\ \A t \in Threads : cancelreq[t] => cancelreq'[t]
  BY DEF CancelThread, ring, Inv, RestOK
<1>2. \/ state' = state
      \/ \E s \in {"dead", "freed"} : state' = [state EXCEPT ![u] = s]
  BY DEF CancelThread, Bury
<1> QED
  BY <1>1, <1>2, QuietWhenStill, QuietWhenOver

LEMMA JoinReclaims ==
    ASSUME Inv, JoinInv, phase' # "wake", UNCHANGED <<events, pc, cancelreq>>,
           NEW d, Reclaim(d)
    PROVE  JoinInv'
BY QuietWhenOver DEF Reclaim

LEMMA JoinCancels ==
    ASSUME Inv, JoinInv, NEW c \in Threads,
           \/ \E u \in Threads : pth_cancel(c, u) \/ pth_abort(c, u)
           \/ \E tid \in Threads \cup {NULL} : pth_join_dead(c, tid)
    PROVE  JoinInv'
<1>1. ASSUME NEW u \in Threads, pth_cancel(c, u) PROVE JoinInv'
  BY <1>1, JoinCancelThread DEF pth_cancel, Running
<1>2. ASSUME NEW u \in Threads, pth_abort(c, u) PROVE JoinInv'
  <2>1. CASE IsDead(u) /\ joinable[u]
    <3>1. /\ Reclaim(u) /\ phase' # "wake" /\ UNCHANGED <<events, pc, cancelreq>>
      BY <1>2, <2>1 DEF pth_abort, Running, ring
    <3> QED BY <3>1, JoinReclaims
  <2>2. CASE ~(IsDead(u) /\ joinable[u])
    BY <1>2, <2>2, JoinCancelThread DEF pth_abort, Running
  <2> QED BY <2>1, <2>2
<1>3. ASSUME NEW tid \in Threads \cup {NULL}, pth_join_dead(c, tid) PROVE JoinInv'
  <2>1. /\ Reclaim(Joinee(tid)) /\ phase' # "wake" /\ UNCHANGED <<events, pc, cancelreq>>
    BY <1>3 DEF pth_join_dead, MayJoin, Running, ring
  <2> QED BY <2>1, JoinReclaims
<1> QED
  BY <1>1, <1>2, <1>3

-----------------------------------------------------------------------------
(*                         Waiting and ending                              *)

LEMMA JoinBlock ==
    ASSUME Inv, JoinInv, NEW c \in Threads, NEW evs,
           NEW k \in {"wait", "join", "exit"}, Block(c, evs, k),
           phase = "thread", pth_current = c,
           \A t \in Threads \ {c} : cancelreq'[t] = cancelreq[t],
           k = "join" => \E tid \in Threads \cup {NULL} : evs = {TID(tid)}
    PROVE  JoinInv'
<1>1. /\ phase' = "reap"
      /\ events' = [events EXCEPT ![c] = evs]
      /\ state' = [state EXCEPT ![c] = "waiting"]
      /\ pc' = [pc EXCEPT ![c] = k]
  BY DEF Block
<1>2. state[c] = "ready"
  BY DEF Inv, RunningIsReady
<1>3. LinkedOnlyInWaits'
  BY <1>1, <1>2 DEF JoinInv, LinkedOnlyInWaits, Linked, Over, Inv, RestOK
<1>4. JoinHasOneEvent'
  BY <1>1 DEF JoinInv, JoinHasOneEvent, Inv, RestOK
<1>5. MarkedAreSettled'
  BY <1>1 DEF MarkedAreSettled
<1>6. ReadyAreSettled'
  BY <1>1, <1>2 DEF JoinInv, ReadyAreSettled, Settled, Over, Inv, RestOK
<1> QED
  BY <1>3, <1>4, <1>5, <1>6 DEF JoinInv

LEMMA JoinWaits ==
    ASSUME Inv, JoinInv, NEW c \in Threads,
           \/ pth_wait(c)
           \/ \E u \in Threads : pth_wait_tid(c, u)
           \/ \E tid \in Threads \cup {NULL} : pth_join_wait(c, tid)
    PROVE  JoinInv'
<1>1. CASE pth_wait(c)
  BY <1>1, JoinBlock DEF pth_wait, Running
<1>2. ASSUME NEW u \in Threads, pth_wait_tid(c, u) PROVE JoinInv'
  BY <1>2, JoinBlock DEF pth_wait_tid, Running
<1>3. ASSUME NEW tid \in Threads \cup {NULL}, pth_join_wait(c, tid) PROVE JoinInv'
  BY <1>3, JoinBlock DEF pth_join_wait, MayJoin, Running
<1> QED
  BY <1>1, <1>2, <1>3

\* The whole process ends.
LEMMA AllFreed ==
    ASSUME Inv, pth_kill
    PROVE  \A t \in Threads : state'[t] \in {state[t], "freed"} \cap {"none", "freed"}
BY DEF pth_kill, Valid, Inv, RestOK

LEMMA JoinKill ==
    ASSUME Inv, JoinInv, pth_kill, phase' # "wake",
           \A t \in Threads : pc'[t] \in {pc[t], "run"}
    PROVE  JoinInv'
<1>1. events' = events
  BY DEF pth_kill, ring
<1>2. \A t \in Threads : Linked(t)' /\ (Over(t) => Over(t)')
  BY <1>1, AllFreed DEF JoinInv, LinkedOnlyInWaits, Linked, Over
<1>3. Quiet
  BY <1>1, <1>2, AllFreed DEF Quiet
<1> QED
  BY <1>3, QuietStep

LEMMA JoinExit ==
    ASSUME Inv, JoinInv, NEW c \in Threads, phase = "thread", pth_current = c,
           Exit(c) \/ Terminate(c),
           \A t \in Threads \ {c} : cancelreq'[t] = cancelreq[t]
    PROVE  JoinInv'
<1>1. CASE Block(c, {FUNC}, "exit")
  BY <1>1, JoinBlock
<1>2. CASE Terminate(c) /\ c = Main
  <2>1. pth_kill /\ phase' = "exited" /\ pc' = [pc EXCEPT ![c] = "run"]
    BY <1>2 DEF Terminate
  <2> QED
    BY <2>1, JoinKill DEF Inv, RestOK
<1>3. CASE Terminate(c) /\ c # Main
  <2>1. /\ state' = [state EXCEPT ![c] = "dead"] /\ phase' = "reap"
        /\ pc' = [pc EXCEPT ![c] = "run"] /\ events' = events
    BY <1>3 DEF Terminate, ring
  <2>2. Quiet
    BY <2>1 DEF Quiet, Inv, RestOK, JoinInv, LinkedOnlyInWaits, Linked, Over
  <2> QED
    BY <2>2, QuietStep
<1> QED
  BY <1>1, <1>2, <1>3 DEF Exit

LEMMA JoinEnds ==
    ASSUME Inv, JoinInv, NEW c \in Threads,
           \/ pth_exit(c) \/ pth_cancel_point(c) \/ pth_kill_call(c)
           \/ WaitCancelled(c) \/ ExitReturns(c)
    PROVE  JoinInv'
<1>1. CASE pth_exit(c) \/ ExitReturns(c)
  BY <1>1, JoinExit DEF pth_exit, ExitReturns, Running, Returning
<1>2. CASE pth_cancel_point(c) \/ WaitCancelled(c)
  <2>1. CancelExit(c) /\ phase = "thread" /\ pth_current = c
    BY <1>2 DEF pth_cancel_point, WaitCancelled, Running, Returning
  <2>2. Exit(c) /\ \A t \in Threads \ {c} : cancelreq'[t] = cancelreq[t]
    BY <2>1 DEF CancelExit, Inv, RestOK
  <2> QED
    BY <2>1, <2>2, JoinExit
<1>3. CASE pth_kill_call(c)
  BY <1>3, JoinKill DEF pth_kill_call
<1> QED
  BY <1>1, <1>2, <1>3

-----------------------------------------------------------------------------
(*                          Returning from a wait                          *)

LEMMA JoinReturn ==
    ASSUME Inv, JoinInv, NEW c \in Threads,
           WaitReturns(c) \/ JoinReturns(c) \/ JoinReturnsStale(c)
    PROVE  JoinInv'
<1>1. /\ cancelreq' = cancelreq /\ phase' # "wake"
      /\ events' = [events EXCEPT ![c] = {}]
      /\ pc' = [pc EXCEPT ![c] = "run"]
  BY DEF WaitReturns, JoinReturns, JoinReturnsStale, Returning, Unlinked
<1>2. phase = "thread" /\ pth_current = c
  BY DEF WaitReturns, JoinReturns, JoinReturnsStale, Returning
<1>3. state[c] = "ready"
  BY <1>2 DEF Inv, RunningIsReady
<1>4. PICK d : \/ state' = state
               \/ state[d] = "dead" /\ state' = [state EXCEPT ![d] = "freed"]
  BY DEF WaitReturns, JoinReturns, JoinReturnsStale, Reclaim, IsDead
<1>5. \A t \in Threads : /\ Over(t) <=> Over(t)'
                         /\ state'[t] \in {"none", "new", "ready"} => state'[t] = state[t]
  BY <1>4 DEF Inv, RestOK, Over
<1>6. \A t \in Threads : Linked(t)'
  BY <1>1, <1>3, <1>5 DEF Inv, RestOK, JoinInv, LinkedOnlyInWaits, Linked
<1>7. Quiet
  BY <1>1, <1>5, <1>6 DEF Quiet, Inv, RestOK
<1> QED
  BY <1>7, QuietStep

-----------------------------------------------------------------------------
(*                         The scheduler's loop                            *)

LEMMA JoinReap ==
    ASSUME Inv, JoinInv, Reap
    PROVE  JoinInv'
<1>1. /\ UNCHANGED <<cancelreq, events, pc>> /\ phase' # "wake"
      /\ \/ state' = state
         \/ \E s \in {"dead", "freed"} : state' = [state EXCEPT ![pth_current] = s]
  BY DEF Reap, Bury, ring
<1> QED
  BY <1>1, QuietWhenStill, QuietWhenOver

LEMMA JoinMark ==
    ASSUME Inv, JoinInv, Mark
    PROVE  JoinInv'
<1>1. UNCHANGED <<WQ, state, cancelreq, events, pc>>
  BY DEF Mark, queues
<1>2. Members(WQ) \subseteq Threads
  BY QueueOfThreads DEF Inv, AreQueues
<1>3. PICK ext \in SUBSET {t \in Members(WQ) : EXT \in events[t]}, stale \in SUBSET Stale :
        occurred' = [t \in Threads |->
               IF t \in Members(WQ) THEN Noted(t, ext, stale) ELSE occurred[t]]
  BY DEF Mark
<1>4. MarkedAreSettled'
  <2> SUFFICES ASSUME NEW c \in Members(WQ), pc[c] = "join", occurred'[c] # {},
                      NEW u \in Threads, TID(u) \in events[c]
               PROVE  Over(u)
    BY <1>1 DEF MarkedAreSettled, Settled, Over
  <2>1. PICK tid \in Threads \cup {NULL} : events[c] = {TID(tid)}
    BY <1>2 DEF JoinInv, JoinHasOneEvent
  <2>2. tid = u
    BY <2>1 DEF TID
  <2>3. EXT \notin events[c]
    BY <2>1 DEF EXT, TID
  <2>4. Noted(c, ext, stale) # {}
    BY <1>2, <1>3
  <2>5. c \notin ext
    BY <2>3
  <2>6. Found(c) # {} \/ \E ev \in events[c] : ev.tid \in stale
    BY <2>4, <2>5 DEF Noted
  <2>7. Occurs(TID(u)) \/ u \in Stale
    BY <2>1, <2>2, <2>6 DEF Found, TID
  <2> QED
    BY <2>7, SchedAssumption DEF Occurs, TID, IsDead, Over, Stale
<1>5. LinkedOnlyInWaits' /\ JoinHasOneEvent' /\ ReadyAreSettled'
  BY <1>1 DEF JoinInv, LinkedOnlyInWaits, Linked, JoinHasOneEvent, ReadyAreSettled,
     Settled, Over
<1> QED
  BY <1>4, <1>5 DEF JoinInv

LEMMA JoinWake ==
    ASSUME Inv, JoinInv, Wake
    PROVE  JoinInv'
<1>1. PICK i \in DOMAIN WQ :
         /\ Wakes(WQ[i].th)
         /\ WQ' = Delete(WQ, WQ[i].th)
         /\ state' = [state EXCEPT ![WQ[i].th] = "ready"]
  BY DEF Wake
<1>2. PICK t \in Members(WQ) : /\ Wakes(t)
                               /\ WQ' = Delete(WQ, t)
                               /\ state' = [state EXCEPT ![t] = "ready"]
  BY <1>1 DEF Members
<1>3. /\ UNCHANGED <<cancelreq, events, occurred, pc>>
      /\ phase = "wake" /\ phase' = "wake"
  BY DEF Wake, ring
<1>4. t \in Threads /\ Members(WQ) \subseteq Threads
  BY QueueOfThreads DEF Inv, AreQueues
<1>5. state[t] = "waiting"
  BY <1>4 DEF Inv, Placed
<1>6. Members(WQ)' = Members(WQ) \ {t}
  BY <1>2, DeleteQueue DEF Inv, AreQueues
<1>7. \A u \in Threads : Over(u)' <=> Over(u)
  BY <1>2, <1>4, <1>5 DEF Inv, RestOK, Over
<1>8. \A c \in Threads : Settled(c) <=> Settled(c)'
  BY <1>3, <1>7 DEF Settled
<1>9. LinkedOnlyInWaits'
  BY <1>2, <1>3, <1>7 DEF JoinInv, LinkedOnlyInWaits, Linked, Inv, RestOK
<1>10. JoinHasOneEvent'
  BY <1>3 DEF JoinInv, JoinHasOneEvent
<1>11. MarkedAreSettled'
  BY <1>3, <1>4, <1>6, <1>8 DEF JoinInv, MarkedAreSettled
<1>12. ReadyAreSettled'
  <2>1. ~cancelreq[t] => occurred[t] # {}
    BY <1>2 DEF Wakes
  <2>2. pc[t] = "join" /\ ~cancelreq[t] => Settled(t)
    BY <1>3, <2>1 DEF JoinInv, MarkedAreSettled
  <2>3. \A c \in Threads \ {t} : state'[c] = state[c]
    BY <1>2 DEF Inv, RestOK
  <2> QED
    BY <1>3, <1>8, <2>2, <2>3 DEF JoinInv, ReadyAreSettled
<1> QED
  BY <1>9, <1>10, <1>11, <1>12 DEF JoinInv

LEMMA JoinMoves ==
    ASSUME Inv, JoinInv, WakeDone \/ Admit \/ Dispatch \/ Abort
    PROVE  JoinInv'
<1>1. CASE WakeDone \/ Dispatch \/ Abort
  <2>1. UNCHANGED <<state, cancelreq, events, pc>> /\ phase' # "wake"
    BY <1>1 DEF WakeDone, Dispatch, Abort, ring
  <2> QED
    BY <2>1, QuietWhenStill
<1>2. CASE Admit
  <2> DEFINE t == NextNew
  <2>1. /\ UNCHANGED <<cancelreq, events, pc>> /\ phase' # "wake"
        /\ state' = [state EXCEPT ![t] = "ready"]
    BY <1>2 DEF Admit, ring
  <2>2. t \in Members(NQ) /\ t \in Threads
    BY <1>2, TailQueue DEF Admit, NextNew, Inv, AreQueues
  <2> HIDE DEF t
  <2>3. state[t] = "new" /\ pc[t] = "run"
    BY <2>2 DEF Inv, Placed, JoinInv, LinkedOnlyInWaits, Linked
  <2>4. Quiet
    BY <2>1, <2>2, <2>3 DEF Quiet, Inv, RestOK, JoinInv, LinkedOnlyInWaits, Linked, Over
  <2> QED
    BY <2>4, QuietStep
<1> QED
  BY <1>1, <1>2

LEMMA JoinStutter ==
    ASSUME JoinInv, UNCHANGED vars
    PROVE  JoinInv'
BY DEF vars, queues, ring, JoinInv, LinkedOnlyInWaits, Linked, JoinHasOneEvent,
   MarkedAreSettled, ReadyAreSettled, Settled, Over

LEMMA JoinNext ==
    ASSUME Inv, JoinInv, [Next]_vars
    PROVE  JoinInv'
<1>1. CASE SchedulerStep
  BY <1>1, JoinReap, JoinMark, JoinWake, JoinMoves DEF SchedulerStep
<1>2. CASE ReturnStep
  BY <1>2, JoinEnds, JoinReturn DEF ReturnStep
<1>3. CASE GiveUpStep
  BY <1>3, JoinStill, JoinWaits, JoinEnds DEF GiveUpStep
<1>4. CASE CallStep
  BY <1>4, JoinSpawn, JoinStill, JoinCancels, JoinEnds DEF CallStep
<1>5. CASE UNCHANGED vars
  BY <1>5, JoinStutter
<1> QED
  BY <1>1, <1>2, <1>3, <1>4, <1>5 DEF Next

\* What joins rely on holds throughout.
LEMMA JoinInvariance == Spec => [](Inv /\ JoinInv)
<1>1. Init => JoinInv
  BY JoinInit
<1>2. Inv /\ JoinInv /\ [Next]_vars => JoinInv'
  BY JoinNext
<1>3. IInv => Inv
  BY InvIsIInv
<1> QED
  BY <1>1, <1>2, <1>3, Invariance, PTL DEF Spec

-----------------------------------------------------------------------------
(*                      Who frees a control block                          *)

(* In one step a control block is freed only because its thread cannot be  *)
(* joined, or is dead and the running thread, which awaits nobody then,    *)
(* collects it, or because the whole process ends.                         *)
Collected(u) ==
    /\ state[u] = "dead" /\ phase = "thread"
    /\ events'[pth_current] = {} /\ pth_current # u

FreedFor(u) ==
    \/ ~joinable'[u]
    \/ Collected(u)
    \/ \A t \in Threads : state'[t] \in {"none", "freed"}

FreesOnlyFor == \A u \in Threads : state[u] # "freed" /\ state'[u] = "freed" => FreedFor(u)

LEMMA FreesNone ==
    ASSUME Inv,
           \/ state' = state
           \/ \E d, s : s # "freed" /\ state' = [state EXCEPT ![d] = s]
    PROVE  FreesOnlyFor
BY DEF FreesOnlyFor, Inv, RestOK

LEMMA FreesInBury ==
    ASSUME Inv, NEW u \in Threads, joinable' = joinable \/ ~joinable'[u],
           NEW jn, jn <=> joinable'[u],
           \/ state' = state
           \/ state' = [state EXCEPT ![u] = IF jn THEN "dead" ELSE "freed"]
    PROVE  FreesOnlyFor
BY DEF FreesOnlyFor, FreedFor, Inv, RestOK

LEMMA FreesInReclaim ==
    ASSUME Inv, phase = "thread", NEW d, state[d] = "dead", Reclaim(d),
           events'[pth_current] = {}
    PROVE  FreesOnlyFor
<1>1. state' = [state EXCEPT ![d] = "freed"] /\ pth_current # d
  BY DEF Reclaim, Inv, RunningIsReady
<1> QED
  BY <1>1 DEF FreesOnlyFor, FreedFor, Collected, Inv, RestOK

\* The thread between two calls has no events linked.
LEMMA CallerAwaitsNobody ==
    ASSUME Inv, JoinInv, NEW c \in Threads, Running(c)
    PROVE  phase = "thread" /\ pth_current = c /\ events[c] = {}
BY DEF Running, Inv, RunningIsReady, JoinInv, LinkedOnlyInWaits, Linked, Over

LEMMA FreesInCalls ==
    ASSUME Inv, JoinInv, CallStep
    PROVE  FreesOnlyFor
<1>1. PICK c \in Threads :
        \/ \E u \in Threads :
              \/ \E attr \in Attrs \cup {Inherited(c)} : pth_spawn(c, u, attr)
              \/ pth_suspend(c, u)
              \/ pth_resume(c, u)
              \/ pth_cancel(c, u)
              \/ pth_abort(c, u)
        \/ \E tid \in Threads \cup {NULL} : pth_join_dead(c, tid)
        \/ \E new \in CancelStates : pth_cancel_state(c, new)
        \/ pth_ctrl_favournew(c)
        \/ pth_kill_call(c)
  BY DEF CallStep
<1>2. ASSUME NEW u \in Threads, NEW attr \in Attrs \cup {Inherited(c)}, pth_spawn(c, u, attr)
      PROVE  FreesOnlyFor
  <2>1. state' = [state EXCEPT ![u] = "new"]
    BY <1>2 DEF pth_spawn
  <2> QED BY <2>1, FreesNone
<1>3. ASSUME NEW u \in Threads, pth_suspend(c, u) \/ pth_resume(c, u)
      PROVE  FreesOnlyFor
  <2>1. state' = state
    BY <1>3 DEF pth_suspend, pth_resume
  <2> QED BY <2>1, FreesNone
<1>4. ASSUME NEW u \in Threads, pth_cancel(c, u) PROVE FreesOnlyFor
  <2>1. /\ joinable' = joinable
        /\ \/ state' = state
           \/ state' = [state EXCEPT ![u] = IF joinable[u] THEN "dead" ELSE "freed"]
    BY <1>4 DEF pth_cancel, CancelThread, Bury
  <2> QED BY <2>1, FreesInBury
<1>5. ASSUME NEW u \in Threads, pth_abort(c, u) PROVE FreesOnlyFor
  <2>1. phase = "thread" /\ pth_current = c /\ events[c] = {}
    BY <1>5, CallerAwaitsNobody DEF pth_abort
  <2>2. CASE IsDead(u) /\ joinable[u]
    <3>1. Reclaim(u) /\ state[u] = "dead" /\ events' = events
      BY <1>5, <2>2 DEF pth_abort, IsDead, ring
    <3> QED BY <2>1, <3>1, FreesInReclaim
  <2>3. CASE ~(IsDead(u) /\ joinable[u])
    <3>1. /\ joinable' = [joinable EXCEPT ![u] = FALSE]
          /\ CancelThread(u, "async", FALSE)
      BY <1>5, <2>3 DEF pth_abort
    <3>2. ~joinable'[u]
      BY <3>1 DEF Inv, RestOK
    <3>3. state' = state \/ state' = [state EXCEPT ![u] = "freed"]
      BY <3>1 DEF CancelThread, Bury
    <3> QED BY <3>2, <3>3 DEF FreesOnlyFor, FreedFor, Inv, RestOK
  <2> QED BY <2>2, <2>3
<1>6. ASSUME NEW tid \in Threads \cup {NULL}, pth_join_dead(c, tid) PROVE FreesOnlyFor
  <2>1. phase = "thread" /\ pth_current = c /\ events[c] = {}
    BY <1>6, CallerAwaitsNobody DEF pth_join_dead, MayJoin
  <2>2. Reclaim(Joinee(tid)) /\ state[Joinee(tid)] = "dead" /\ events' = events
    BY <1>6 DEF pth_join_dead, IsDead, ring
  <2> QED BY <2>1, <2>2, FreesInReclaim
<1>7. ASSUME pth_ctrl_favournew(c) \/ \E new \in CancelStates : pth_cancel_state(c, new)
      PROVE  FreesOnlyFor
  <2>1. state' = state
    BY <1>7 DEF pth_ctrl_favournew, pth_cancel_state
  <2> QED BY <2>1, FreesNone
<1>8. ASSUME pth_kill_call(c) PROVE FreesOnlyFor
  BY <1>8, AllFreed DEF pth_kill_call, FreesOnlyFor, FreedFor
<1> QED
  BY <1>1, <1>2, <1>3, <1>4, <1>5, <1>6, <1>7, <1>8

LEMMA FreesInExit ==
    ASSUME Inv, NEW c \in Threads, Exit(c) \/ Terminate(c)
    PROVE  FreesOnlyFor
<1>1. CASE Block(c, {FUNC}, "exit")
  <2>1. state' = [state EXCEPT ![c] = "waiting"]
    BY <1>1 DEF Block
  <2> QED BY <2>1, FreesNone
<1>2. CASE Terminate(c) /\ c = Main
  BY <1>2, AllFreed DEF Terminate, FreesOnlyFor, FreedFor
<1>3. CASE Terminate(c) /\ c # Main
  <2>1. state' = [state EXCEPT ![c] = "dead"]
    BY <1>3 DEF Terminate
  <2> QED BY <2>1, FreesNone
<1> QED
  BY <1>1, <1>2, <1>3 DEF Exit

LEMMA FreesInGiveUp ==
    ASSUME Inv, GiveUpStep
    PROVE  FreesOnlyFor
<1>1. PICK c \in Threads :
        \/ pth_yield(c) \/ pth_wait(c) \/ pth_exit(c) \/ pth_cancel_point(c)
        \/ \E u \in Threads : pth_yield_to(c, u) \/ pth_wait_tid(c, u)
        \/ \E tid \in Threads \cup {NULL} : pth_join_wait(c, tid)
  BY DEF GiveUpStep
<1>2. CASE pth_exit(c) \/ pth_cancel_point(c)
  BY <1>2, FreesInExit DEF pth_exit, pth_cancel_point, CancelExit
<1>3. CASE pth_yield(c) \/ \E u \in Threads : pth_yield_to(c, u)
  <2>1. state' = state
    BY <1>3 DEF pth_yield, pth_yield_to
  <2> QED BY <2>1, FreesNone
<1>4. CASE \/ pth_wait(c) \/ \E u \in Threads : pth_wait_tid(c, u)
           \/ \E tid \in Threads \cup {NULL} : pth_join_wait(c, tid)
  <2>1. state' = [state EXCEPT ![c] = "waiting"]
    BY <1>4 DEF pth_wait, pth_wait_tid, pth_join_wait, Block
  <2> QED BY <2>1, FreesNone
<1> QED
  BY <1>1, <1>2, <1>3, <1>4

LEMMA FreesInReturn ==
    ASSUME Inv, ReturnStep
    PROVE  FreesOnlyFor
<1>1. PICK c \in Threads :
        \/ WaitCancelled(c) \/ WaitReturns(c) \/ ExitReturns(c)
        \/ JoinReturns(c) \/ JoinReturnsStale(c)
  BY DEF ReturnStep
<1>2. CASE WaitCancelled(c) \/ ExitReturns(c)
  BY <1>2, FreesInExit DEF WaitCancelled, ExitReturns, CancelExit
<1>3. CASE WaitReturns(c) \/ JoinReturnsStale(c)
  <2>1. state' = state
    BY <1>3 DEF WaitReturns, JoinReturnsStale
  <2> QED BY <2>1, FreesNone
<1>4. CASE JoinReturns(c)
  <2>1. phase = "thread" /\ pth_current = c /\ events'[pth_current] = {}
    BY <1>4 DEF JoinReturns, Returning, Unlinked, Inv, RestOK
  <2>2. PICK d : state' = state \/ (state[d] = "dead" /\ Reclaim(d))
    BY <1>4 DEF JoinReturns, IsDead
  <2> QED
    BY <2>1, <2>2, FreesNone, FreesInReclaim
<1> QED
  BY <1>1, <1>2, <1>3, <1>4

LEMMA FreesInScheduler ==
    ASSUME Inv, SchedulerStep
    PROVE  FreesOnlyFor
<1>1. CASE Reap
  <2>1. /\ joinable' = joinable /\ pth_current \in Threads
        /\ \/ state' = state
           \/ state' = [state EXCEPT ![pth_current] =
                            IF joinable[pth_current] THEN "dead" ELSE "freed"]
    BY <1>1 DEF Reap, Bury, attrs, Inv, RestOK
  <2> QED BY <2>1, FreesInBury
<1>2. CASE Wake \/ Admit
  <2>1. \E t : state' = [state EXCEPT ![t] = "ready"]
    BY <1>2 DEF Wake, Admit
  <2> QED BY <2>1, FreesNone
<1>3. CASE Mark \/ WakeDone \/ Dispatch \/ Abort
  <2>1. state' = state
    BY <1>3 DEF Mark, WakeDone, Dispatch, Abort
  <2> QED BY <2>1, FreesNone
<1> QED
  BY <1>1, <1>2, <1>3 DEF SchedulerStep

LEMMA FreesNext ==
    ASSUME Inv, JoinInv, [Next]_vars
    PROVE  FreesOnlyFor
<1>1. CASE UNCHANGED vars
  <2>1. state' = state
    BY <1>1 DEF vars
  <2> QED BY <2>1, FreesNone
<1> QED
  BY <1>1, FreesInCalls, FreesInGiveUp, FreesInReturn, FreesInScheduler DEF Next

-----------------------------------------------------------------------------
(*                              The theorems                               *)

(* A thread that is awaited is freed before the waiting one has seen its   *)
(* death only if it cannot be joined (any more), or if a third thread has  *)
(* collected it when it was dead, by a join or an abort of its own: for    *)
(* every number of joiners, of each thread and at a time, and all calls.   *)
THEOREM DanglingHasCause == Spec => DanglesByAnother
<1>1. ASSUME Inv, JoinInv, [Next]_vars, NEW t \in Threads, NEW u \in Threads, Dangles(t, u)
      PROVE  \/ ~joinable'[u]
             \/ state[u] = "dead" /\ phase = "thread" /\ pth_current \notin {t, u}
  <2>1. FreedFor(u)
    BY <1>1, FreesNext DEF Dangles, FreesOnlyFor
  <2>2. state'[t] \in {"ready", "waiting"} /\ events'[t] # {}
    BY <1>1 DEF Dangles, Awaits
  <2> QED
    BY <2>1, <2>2 DEF FreedFor, Collected
<1>2. Inv /\ JoinInv /\ [Next]_vars =>
        [\A t, u \in Threads : Dangles(t, u) =>
              \/ ~joinable'[u]
              \/ /\ state[u] = "dead"
                 /\ phase = "thread" /\ pth_current \notin {t, u}]_vars
  BY <1>1
<1> QED
  BY <1>2, JoinInvariance, PTL DEF Spec, DanglesByAnother

(* A join that has no cancellation request pending comes back only after   *)
(* its thread is dead, whoever else joins or aborts it and however many    *)
(* others are woken, cancelled or suspended in between.                    *)
THEOREM JoinsAreSafe == Spec => JoinWaitsForDeath
<1>1. ASSUME Inv, JoinInv, NEW c \in Threads, Returning(c, "join"), ~cancelreq[c],
             NEW u \in Threads, TID(u) \in events[c]
      PROVE  state[u] \in {"dead", "freed"}
  <2>1. pc[c] = "join" /\ state[c] = "ready"
    BY <1>1 DEF Returning, Inv, RunningIsReady
  <2> QED
    BY <1>1, <2>1 DEF JoinInv, ReadyAreSettled, Settled, Over
<1>2. Inv /\ JoinInv =>
        \A c \in Threads :
             Returning(c, "join") /\ pc'[c] = "run" /\ ~cancelreq[c] =>
                \A u \in Threads : TID(u) \in events[c] => state[u] \in {"dead", "freed"}
  BY <1>1
<1> QED
  BY <1>2, JoinInvariance, DanglingHasCause, PTL DEF JoinWaitsForDeath

=============================================================================
