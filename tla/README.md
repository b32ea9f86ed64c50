# Pth, co and the script engine, modelled and verified

This directory holds TLA+ models of the thread library GNU Pth (`src/pth`), of
the coroutine library (`src/co`) and of the script engine (`src/js`); TLC
configurations that check them on small instances; and proofs, checked by
TLAPS, for every instance, of properties of Pth's queue, scheduler,
synchronization, I/O and thread data, of co's scheduler and timers, and of the
script engine's reference counts and host properties. `PROJECT.json` lists components, runs, mutants, the
source lines of every definition, the hazards and the theorems.

## 1. The system

Pth multiplexes cooperative threads onto one kernel thread. A thread runs until
it makes a call that waits or yields; such a call switches to the scheduler
thread, whose loop admits new threads, dispatches the first ready one, buries
dead ones and decides which waiting ones have an event. All state is shared and
none of it is locked: what makes the library hard is not preemption but the
order in which calls of several threads and moves of the scheduler follow one
another, and what a thread still believes when it is dispatched again.

The coroutine library is younger and unfinished: real kernel threads, each with
a scheduler of its own that is handed coroutines under a lock, and a timer
service. It uses Pth's queue. The script engine is an interpreter of a dialect
of ECMAScript: preprocessor, scanner, parser, a tree that executes itself, and
values with reference counts. It is sequential; what is hard in it are the many
ways out of nested statements, conversions in place, and text read by pointer.

| Component | State | Operations | Hard parts | Correct when |
|---|---|---|---|---|
| thread priority queue (`pth_pqueue.c`) | a ring of control blocks, priorities relative to the neighbour | insert, delmax, delete, favorite, increase, tail, walk, contains | each change must correct a neighbour's relative priority | it is a stable priority queue |
| scheduler, event manager (`pth_sched.c`) | five queues NQ RQ WQ SQ DQ, current thread, favour-new flag | the loop; the event manager's two passes and the poll between them | the second pass changes what the first one has looked at | threads are where their state says; nobody starves; no event is missed; somebody is always found |
| thread lifecycle (`pth_lib.c`, `pth_tcb.c`) | state, attributes, join argument of each control block | init, kill, spawn, yield, suspend, resume, join, exit, raise, once, ctrl | control blocks moved by hand between queues; joins of threads that die in between | one place per thread; a join waits for a death and does not miss it |
| cancellation (`pth_cancel.c`) | request flag, cancellation state | state, point, cancel, abort | acts on a thread in any state, by the thread itself or by another | takes effect, once, and leaves the queues right |
| events (`pth_event.c`) | event rings, status of each event | create, join, isolate, walk, free, wait | a call's own event is linked into its caller's ring for the time of the call | a wait ends when one of its events has occurred; rings come back as they were |
| synchronization (`pth_sync.c`) | mutexes with owner and count, each thread's ring of mutexes; read-write locks; condition variables; barriers | acquire, release, releaseall; rwlock acquire, release; await, notify; reach | a mutex is taken, not handed over; a call waits in the middle; cancellation there; threads that end with locks held | exclusion; no lost wake-up; a barrier's round leaves together |
| message ports (`pth_msg.c`) | ports with message queues | create, destroy, find, put, get, reply | destruction with messages pending | each message is got once, in order |
| thread-specific data (`pth_data.c`) | key table, value table per thread | create, delete, set, get, destroy | a key reused while values exist; destructors that set values or yield | a value is destroyed once, and none is forgotten |
| cleanup handlers (`pth_clean.c`) | a stack of functions per thread | push, pop, popall | who runs them, and when | last in, first out |
| high-level I/O (`pth_high.c`) | none of its own, but the mode of descriptors | attempt, wait for the descriptor, attempt again | descriptor ready, closed or drained in between; timeouts; partial transfers | no trace left, however a call ends |
| rings (`pth_ring.c`) | nodes linked both ways, a hook, a count | insert before and after, delete, append, prepend, pop, favorite, walk | one ring is list, stack and queue | it is a sequence |
| co timer service (`co_timer.cpp`) | new list, sorted ring, a lock and a condition | schedule, main loop | real threads; scheduling races with the sleep | every timer is called back, once, not early |
| co scheduler (`co_sched.cpp`) | ready queue and event list per scheduler, an index shared by all | create, schedule, event manager | an index under no lock; a list counted down while others append | each coroutine starts once, in order, and runs |
| script engine: text (`JsScriptPreprocessor`, `JsScriptScanner`, `JsScannerUtilities`) | place in a text, line | preprocess, next token, readers of numbers, strings, names | look-ahead by pointer, line counting over includes | tokens are those of the standard, each on its line |
| script engine: parser and interpreter (`JsScriptParser`, `JsScriptNode*`) | tokens; scope chain, result and command of an execution context | parse; execute of every kind of node | eighteen levels of precedence; a dozen nested ways to leave a statement | programs do what the standard says; scopes are balanced |
| script engine: values and objects (`JsScriptValue`, `JsScriptObject*`, `JsScriptReference`, `JsSmartPointer`) | typed values, property tables, counts | conversions, operators, assignment, put, delete, enumerate, array length, external properties, JSON | conversion in place of a counted value; prototypes; names that are numbers | counts are exact; attributes hold; arrays are sequences; texts read back |
| script engine: times (`JsTime`, `JsScriptObjectDate`) | cached zone of the process; the time of a date object | conversion, text forms and their readers, arithmetic; getters, setters, constructors | statics that several functions refresh; setters that read back what others set, parts beyond their range | dates, texts and zone agree; a date keeps its time of day |
| the rest: fork handlers, attributes, `pth_time`, strings, contexts, pthread layer, system call wrappers, `co_event`, tracing, unit test support, echo server | | | | section 6 |

Interaction. Every waiting call of Pth goes through `pth_wait`, which links an event
ring to the control block, sets its state to waiting and yields; the event
manager reads that ring, and for mutexes, condition variables, ports and threads it
reads the objects themselves. Cancellation, abortion and exit call the cleanup
of the thread (handlers, data, mutexes), each in the context of whoever runs.
In the script engine the preprocessor's output is the scanner's input, the parser
pulls tokens, the tree executes itself on an execution context, and all of it
shares values and objects by counted pointers.

## 2. Modules

| Module | What it is | Code |
|---|---|---|
| `PrioQueue` | operators on a queue of absolute priorities: the queue the schedulers' modules use | `pth_pqueue.c` |
| `PrioQueueSpec` | the abstract specification: one queue, every operation | |
| `PthRing` | the plain ring, with both links of each node, and every operation on it | `pth_ring.c` |
| `PthPqueue` | the ring with relative priorities, links and count, implementing `PrioQueueSpec`; and `PthRing` at work | `pth_pqueue.c` |
| `ThreadLife` | abstract specification of a thread's life: who may move from which state to which | |
| `PthSched` | scheduler loop, event manager and all calls that move threads; implements `ThreadLife` | `pth_sched.c`, `pth_lib.c`, `pth_cancel.c`, `pth_event.c` |
| `PthSync` | base of the next five: mutexes, condition variables, `pth_wait`, a round of the scheduler | `pth_sync.c`, `pth_sched.c` |
| `PthMutex` | recursive acquisition, release, exit, both kinds of cancellation | `pth_sync.c` 45-143 |
| `PthRWLock` | the lock made of two mutexes and a count | `pth_sync.c` 149-223 |
| `PthCond` | `pth_cond_await`, its cleanup handler, `pth_cond_notify` | `pth_sync.c` 229-325 |
| `PthBuffer` | `PthCond` with producers and consumers around it | |
| `PthBarrier` | `pth_barrier_reach` on `PthCond` | `pth_sync.c` 331-381 |
| `PthEvent` | links of event rings: create, join, isolate, free, walk | `pth_event.c` |
| `PthIO` | the I/O calls with extra events, descriptors shared by threads, message ports | `pth_high.c`, `pth_msg.c`, `pth_sched.c` |
| `PthThreadData` | keys, values, handlers and destructors, in the end of a thread | `pth_data.c`, `pth_clean.c`, `pth_lib.c` |
| `CoTimer` | the timer service | `co_timer.cpp` |
| `CoSched` | schedulers as kernel threads, creation of coroutines | `co_sched.cpp` |
| `JsParser`, `JsExecute`, `JsValue` | the grammar, the execution of every kind of node, values and operators | `JsScriptParser.cpp`, `JsScriptNode*.cpp`, `JsScriptExecutionContext`, `JsScriptValue` |
| `JsReference` | the reference: what programs, expressions and operators mean by ECMA-262, on terms | |
| `JsText`, `JsPreprocess` | scanner and preprocessor | `JsScriptScanner`, `JsScannerUtilities`, `JsScriptPreprocessor` |
| `JsTextReference` | the reference: ECMA-262's lexical grammar, as a predicate on pieces of text | |
| `JsJson` | the three text forms of a value and their reader, and which values survive | `JsScriptValue`, `JsScriptObject`, `JsScriptObjectArray` |
| `JsObjects` | values, smart pointers and references that hold counted cells; an object with its prototypes, an array, and an object with properties of the host, in use, with the tables of `JsProperties` | `JsScriptValue`, `JsSmartPointer`, `JsScriptReference`, `JsScriptObject`, `JsScriptObjectArray`, `JsScriptObjectExternal` |
| `JsProperties` | property tables with attributes, prototypes, arrays, external objects | `JsScriptObject*`, `JsScriptProperty.h` |
| `JsTime` | times, their texts, the cached zone, date objects | `JsTime`, `JsScriptObjectDate` |
| `JsData` | the previous six at work, one kind of subject at a time; extends `JsObjects` | |
| `JsScript` | source to tokens to tree to execution; extends `JsExecute` and `JsData` | |
| `PrioQueueProofs`, `PthSchedProofs`, `PthMutexProofs`, `PthRWLockProofs`, `PthCondProofs`, `PthIOProofs` | the proofs about the queue operators and the modules they are named for; `PthCondProofs` has the barrier's too | |
| `QueueProofs` | the proofs about what is queued: `PthPqueue`, `PthRing`, `CoSched`, `CoTimer` | |
| `OwnershipProofs` | the proofs about who holds what: `PthThreadData`, `JsObjects` with `JsProperties` | |
| `...MC` | instances for TLC (`CoTimer`, `CoSched` and `PthBarrier` need none) | |

### How state and actions correspond to the code

*PthSched.* The queues are the `pth_NQ` ... `pth_DQ` of `pth_sched.c`,
each a sequence of entries with priority and thread. `state`, `prio`,
`joinable`, `cancelstate`, `cancelreq`, `events` and `occurred` are fields of the
control block. `phase` says where the kernel thread is: in a Pth thread, or in
one of the stretches of the scheduler that the model takes as single actions -
`Reap` (after the switch back: a dead thread is buried, a waiting one queued),
`Mark` (first pass of the event manager, with the poll), `Wake` (second pass, one
thread at a time) and `WakeDone`, `Admit` (one new thread at a time), `Dispatch`, `Abort`.
A call that does not switch is one action; one that does is a call action and a
return action (`WaitReturns`, `JoinReturns`, `ExitReturns`, `WaitCancelled`).
Timers, descriptors and signals a thread may wait for are one event, `EXT`, that
any poll may find; they have modules of their own below.
`Calls` says which calls each thread makes. Nothing restricts who joins whom: several threads may join or wait for the
same thread, one another, or anybody, and a joined thread may be aborted. The library counts no references, so a control block
may be freed under a joiner. What the event manager then reads there is left open (`Stale`, `Noted`: the joiner is woken
or not), and so is what the join reads (`JoinReturnsStale`): it fails, or it takes the freed block for a dead thread's
and the process is `undefined`, where the model ends.

*PthSync and its clients.* The scheduler's round is one action, `Schedule`, that
decides events as the first pass does (`Round`: what has `Occurring`, whom it wakes, which signals it
spends) and dispatches any ready thread: an
over-approximation of priorities and aging. Each step of a call runs from one
wait to the next. `HANDLED` bits of a condition do not outlive a round; who
gets a signal that is not a broadcast is any waiter (queue order is abstracted).
Try-acquisitions that fail and error returns on uninitialised objects
change nothing and are not actions. `held`, `role`, `at`, `place` and `passed` say
what the application knows, for the properties to compare with the library's state.
`pth_mutex_releaseall` is modelled as it walks the ring (`Walked`), with its
early end.

*PthIO.* A call runs from one wait to the next in one action; a round of the
scheduler is one action, with the `select` of the event manager, its failure for
a closed descriptor, and the second look at each. Data is counted in units;
vectors of a `writev` are lengths. The peer and the application act between
rounds: data arrives, room appears, descriptors are closed, ports destroyed,
threads cancelled. A thread sets its cancellation state as it likes: a request is always recorded and ends
the wait of its thread; the thread is ended by it at once, in `pth_wait`, or, with cancellation disabled, not at all, and
then its call goes on as after any other wait.

*PthRWLock.* Any thread may read and write, give up, be cancelled, and exit with the lock or without it. What the application does
after the lock has been lost (`lost`, section 5) is beyond the model, which ends there.

*PthThreadData.* Callbacks are entered by one action and returned from by
another, since they may let other threads run; what the code does between two
callbacks is one action. `ending` keeps where in the sweep a thread that ends has come to;
what the sweep takes out between two destructors is one set (`Swept`).

*CoTimer, CoSched.* One action for each stay in a lock, and in `CoSched` one for each
access to the unprotected index; `pc`, `creating` and `loop` are the places in the code.
`CoTimer`'s ring entered at its head is a sequence. It starts from an empty list of new
timers, as fresh zeroed memory gives it (`co_timer.cpp:35` compares where it means to assign).

*JsScript.* A subject or a source is chosen, then parsed, then executed: the code
is a function of its input, so an action is one call and the properties compare
its result with a reference that is defined in another way (terms instead of
tokens, pieces of text instead of characters, calendars by counting days). Where
the code keeps state from call to call - counts, tables, the zone - every call is
an action and all sequences of calls are explored. Numbers are integers and NaN
in programs, decimal mantissa and exponent in texts.

### Assumptions about the application

No handle of a control block that has been freed already is passed to a call. Mutexes are released by their owners
only. The clients of the synchronization modules are threads other than the main
thread and exist from the start. A control block is allocated once. A `select`
is given at most one extra event. A port is destroyed by an owner that has
fetched his own answers. Coroutines are created once all schedulers have entered
their list; a coroutine's function returns.

## 3. Runs

`CHECK_DEADLOCK FALSE` stands in the configurations of the Pth modules, because the
process may end (exit, kill, abort) and the application may block itself for
ever, which is not the library's fault; and in that of the script engine, where a
subject is done with at some point.

| Run | Checks | Instance |
|---|---|---|
| `pqueue` | `RefinesPrioQueue`: the ring of relative priorities is the stable queue; `RingIsSequence`: the plain ring is a sequence | 4 threads, priorities -1..2, saturated two steps above `PRIO_CAP`; a ring of 4 nodes; queue and ring are each explored while the other is idle |
| `sched_calls` | `EachThreadInItsPlace`; `SchedulerFindsThread`; `NoMissedEvent`; `JoinWaitsForDeath`; `ImplementsThreadLife` | main and two threads of one priority; each as its parent, or detached with cancellation disabled; the calls are shared out: main takes whoever dies, exits, kills, switches favour-new; the first joins, waits for threads, exits, cancels, aborts; the second joins, exits, suspends, resumes, sets its cancellation state |
| `sched_live` | `NoStarvation`; `CancelTakesEffect`; `JoinCompletes` | main and two threads of two priorities, `PRIO_CAP` two steps above the higher one; main and the first join (the same thread, perhaps), cancel and yield to threads of their choice, the first suspends and resumes; the second waits and looks for requests; fair |
| `mutex_locks` | `HoldersAgree`: the application and the library agree on who holds what, rings included; `FreeMutexTaken` | 3 threads with deferred, asynchronous and disabled cancellation, 2 mutexes, one recursive to depth 2; fair |
| `rwlock_locks` | `WriterExcludes` | 2 threads that read and write, 1 reader, 1 writer; interrupted waits; 3 may exit, with the lock or without; all but one may be cancelled |
| `cond_use` | `InsideOwns`: the mutex is owned on return; `NoLostWakeup` | producer, 2 consumers, buffer of 2; interrupted and cancelled waits |
| `barrier_rounds` | `LeavesTogether`; `BarrierOpens` | 3 threads; threshold 3 and 1 for any number of rounds, 2 for one; cancellation requests; fair |
| `io` | `CallsLeaveNoTrace`: rings and descriptor modes are restored; `BlocksOnlyWhenRobbed`; `PartialWritesCounted`; `OnlyClosedFail` | 2 threads, one of them cancelled by the other in any cancellation state; a stream of which both read and write, or another one beside one to connect, or a listening socket (`TheOpened`); vectors of one and of two parts, one message, one extra event of each kind |
| `thread_data` | `ValuesAccounted`; `DestructorsRun` | 3 threads, 2 keys, 2 iterations of the sweep, 3 values, one handler each; symmetric in threads and values |
| `timer_service` | `AllCalledBack` | 3 timers, times 0..4; spurious wake-ups; fair |
| `co_create` | `StartedInOrder`; `EveryCoroutineRuns` | 2 schedulers, 2 threads, 4 coroutines; spurious wake-ups; fair |
| `script` | fourteen properties of the engine, below | below |

The run `script` has one property for each thing the engine promises:
`ProgramsMeanWhatEcmaSays` and `ScopesBalanced` over all programs of up to three
nested statements out of every kind (the outermost out of six), each with four
courses of the host's answers, a limit of 80 nodes, loops repeated up to 12 times by
the reference; `ExpressionsParseBack` over every expression of two operators;
`InbuiltOperandsPresent` over every inbuilt function with up to three arguments;
`OperatorsAsEcma` over every operator, plain and as an assignment, on eleven literals
of all types; `TokensAsEcma` over texts of up to five chunks out of alphabets made for one part
of the scanner each; `FilesInPlace` over a file of up to three items and two others
of up to two and one that may include each other, the first and a missing one;
`ValuesReadBack` over values of depth two, arrays of up to eleven elements, both layouts,
and every beginning of an object's text; `RefCountsExact` over every sequence of
operations on three cells, three locals and a pointer; `TimesConvert` over the first,
last and one more second of each day of eight years around the boundaries, and over spans
of five seconds of ten nanoseconds, and over every two setters on dates in four zones; `ZoneFresh` over every four questions - the time without daylight saving,
with it, a log line, a past or future time converted - with pauses shorter
and longer than the cache, around a change of the zone; `HostPropertiesHold`, `ArraysAreSequences` and
`ExternalsAsOne` over every sequence of uses of chains of up to three objects, arrays of up
to three elements, and external objects, with five property names.

*Why the bounds are enough.* Three control blocks give a caller, its object and
a third that interferes, and each queue two entries that can be in either order.
Priorities matter by order only; `PRIO_CAP` saturates aging above what any insertion
asks for (at most `PTH_PRIO_MAX + 1`), so that saturation changes no order between threads that are
inserted and threads that have aged. In `sched_calls` the calls are shared out among the threads so that any two kinds of them that act on one another
are made by two of them: a join meets a second join of the same thread, a join of anybody, an abort, a request, heeded or not, a suspension and
every way of ending. `sched_live` has a higher priority at which threads are spawned, and one that a thread is behind, also
while the other two hand the processor to one another. The proofs remove these bounds for the
properties they cover. Two mutexes are what the walk over a ring and waits in a
cycle need; depth 2 separates the last release from one before it. Three readers
give a first one, one that outlasts it and one that comes when it has gone; two threads are both reader and writer, so that the
one upgrades while the other reads; and a writer competes. In
the buffer two consumers let a notification reach the wrong one, and
a capacity of two lets notifications pile up. In the barrier `br_cycle` is one bit, and rounds repeat
without bound. Two threads at one descriptor suffice for what one does to the other between its
wait and its call; room and backlog of one make every limit be met. No call of the run uses two descriptors, so not all of them
need be open in one behaviour; a stream to be closed and one to connect are, so that a `select` which fails has events of both. In `thread_data` the third thread
cancels the one that cleans up after the first. Three timers give a head, a tail and an insertion
between them. Two schedulers make the index wrap, and four coroutines give each a list of two. Three
nested statements put a way out through two others of different kind. Every action of
every next-state relation is taken in some run.

*Fairness.* In `PthSched` the scheduler always goes on (it is a loop without
condition, and `select` returns), a dispatched thread comes back from the call it is in, and
threads are cooperative: they eventually give up control. Nothing is assumed about
who is dispatched; that no thread starves is the result. The synchronization modules,
which leave priorities out, use that result: strong fairness of `Dispatch(t)`, weak fairness of
each thread's return and yield; whether a thread ever comes back to a barrier is not assumed.
In `CoTimer` the clock and the main loop go on, and an absolute timeout that has
elapsed ends the wait despite spurious wake-ups (strong fairness of `TimedOut`). In `CoSched`
each scheduler, which is a kernel thread, takes its next step, and a call of `co_create_co`
that has begun goes on; nobody has to begin one. All other modules are checked for safety only.

## 4. Proofs

Each proof is of a specification as TLC runs it, for every value of its constants that the assumptions in the
module allow: any threads, priorities, objects, calls.

| Module | Theorem | States |
|---|---|---|
| `QueueProofs` | `RingIsAQueue` | `Spec => RefinesPrioQueue` |
| | `RingIsASequence` | `RingSpec => []RingIsSequence` |
| | `CoroutinesStartInOrder` | `StartedInOrder` |
| | `TimersInOnePlace` | `TimerSpec => []EachInOnePlace`, the part of `AllCalledBack` that is not about time |
| `PthSchedProofs` | `Invariance`, `TypeCorrect` | `IInv`, `TypeOK` |
| | `ThreadsInTheirPlaces`, `SchedulerNeverEmpty`, `EventsNotMissed` | `EachThreadInItsPlace`, `SchedulerFindsThread`, `NoMissedEvent` |
| | `LifeImplemented` | `Spec => ImplementsThreadLife` |
| | `DanglingHasCause`, `JoinsAreSafe` | `DanglesByAnother`: by what the thread somebody waits for is freed; `JoinWaitsForDeath`, which contains it |
| `PthMutexProofs` | `MutualExclusion` | `HoldersAgree` |
| `PthRWLockProofs` | `WritersExclude` | `WriterExcludes` |
| `PthCondProofs` | `InsideIsOwner`, `NoWakeupIsLost` | `InsideOwns`, `NoLostWakeup` |
| | `NobodyLeavesEarly`, `RoundsAreFull` | `LeavesTogether`; the last of a round finds as many arrived as the threshold asks for |
| `PthIOProofs` | `IOInvariant` | `IOInv`, on which the next four rest |
| | `TracesGone`, `OnlyRobbedBlock` | `CallsLeaveNoTrace`, `BlocksOnlyWhenRobbed` |
| | `WritesCounted`, `FailuresHit` | `PartialWritesCounted`, `OnlyClosedFail` |
| `OwnershipProofs` | `EachValueOnce`, `NoDestructorIsMissed` | `ValuesAccounted`, `DestructorsRun` |
| | `CountsExact` | `CountSpec => []RefCountsExact` |
| | `HostIsObeyed` | `ObjectSpec => []HostPropertiesHold` |
| | `ArraysStaySequences` | `ArraySpec => []ArraysAreSequences` |
| | `ExternalsStayOne` | `ExternalSpec => []ExternalsAsOne` |

*Assumptions.* No theorem has a hypothesis beyond the assumptions on constants. The numbers of threads are finite where the code counts them (`PthRWLock`, `PthBuffer`,
`PthBarrier`, `CoSched`), and so are the nodes of a ring, which a walk must be able to pass, and the cells, values and pointers
of `JsObjects`, which are counted. There, the names that mean a number without a minus sign are those of the indices below `MaxLength`, one for each (`ArrayAssumption`),
as in the instance; names such as `01`, which section 5 says lengthen an array, are excluded. For external objects, there are four
names or more, all different and none empty, and undefined is not put as a value (`NameAssumption`): `agreed` takes a name to be there if it reads a value. In `PthIO` a socket that connections are accepted from is not read, which the system would refuse.

*The queue.* `IInv` of `QueueProofs` says that there are a sequence of threads and one of absolute priorities
which the ring stores (`Stores`): neighbours are linked both ways and in a circle, the head is the first, a thread's
own priority is the difference to the one before it, nobody comes twice, priorities fall. `ChainReads` and
`AbsPrioReads` show that the abstraction function, which walks the links and adds up the differences, reads these two
sequences back. Each operation then has a lemma that says what it stores afterwards - a sequence with one element more
(`With`), less (`Dropped`), or all priorities one higher - and one that says this is what
the abstract operation does to the entries (`EntriesInserted`, `EntriesDropped`, ...). `LoopStops` finds the place at which the
insertion's loop ends, which is that of the specification although the loop compares running sums. That the abstraction
saturates priorities at `PRIO_CAP` does no harm to the order because nothing is inserted above it (`InsertDecoded`).

*The plain ring.* Its invariant is of the same kind: the links of the ring are a circle, both ways, through the nodes the
caller believes to be in it, in the caller's order, each once, with the hook at the first and the count their number.
`CircleGrows` and `CircleShrinks`, about one node linked in or taken out of a circle, serve the queue and the ring. What the
caller expects is written with the library's `InsertAt`, `RemoveAt`, `Front` and `Tail`, so each operation also needs that these
give one element more or less. That `pth_ring_contains` finds every node is a pigeonhole argument: the nodes of the ring
are not more than there are, so the walk comes by all of them.

*The scheduler.* None of its properties is inductive. `IInv` adds what the first ones need:
the dispatched thread is still ready when its call starts (`RunningIsReady`: otherwise a
cancelled thread could queue itself again), a thread inside `pth_join` has its
event linked (`JoinHasEvent`: a joiner is the reason a dead thread may still be
reclaimed), and from the poll to the dispatch there is somebody ready, new
or about to be woken unless the poll came back for a timeout `select` refused
(`SomebodyToRun`). The proof takes the invariant apart by thread (`Placed`), so
that a step says something only about the thread it moves, has one lemma per action, and
rests on lemmas about the queue operators. `LifeImplemented` shows that each action changes the life of
its thread only, by a step `ThreadLife` allows; steps of the scheduler that move control blocks are stutters.
`NoMissedEvent` follows from `MarksAreFresh`: from the first pass to the end of the second, everything that has happened
to a waiting thread is marked, which the second pass keeps because it wakes threads but ends none. The joins need
`JoinInv`: events are linked in waits only (`LinkedOnlyInWaits`), a joiner has one (`JoinHasOneEvent`), and a joiner that is marked, or is ready with no
request pending, has a thread before it that is dead or freed (`MarkedAreSettled`, `ReadyAreSettled`). Who frees a thread is looked up action by action
(`FreesOnlyFor`).

*Mutexes.* What the application believes (`held`) and the library's owner and count are related directly
(`MutexesOK`), the rings through them: that of every thread, dead or alive, has the mutexes it owns, each once
(`RingAgrees`). The part that needed care is `pth_mutex_releaseall`, which ends early and leaves mutexes locked: what is
taken out of a ring (`Without`) leaves the rest in order and each once, and a dead owner stays owner in ring and
`mx_owner` alike.

*Read-write locks.* The read-write mutex has one owner for all readers, so the invariant says whose it may be: one of the
readers, of the past or the present, while `rw_readers` is positive, except that the first reader is counted
before it has the mutex (`OwnerHas`, `FirstAlone`). Threads that ended with the lock stay counted, so the count is only known to be
no less than the number of readers (`ReadersCounted`), which is what keeps writers out. The rings are needed because `pth_mutex_releaseall` runs over them when a thread
ends: each has at most the one mutex its thread owns (`RingsHave`), so that a thread that does not own one for the readers releases nothing of theirs. What is
inductive is this or that the lock has been lost.

*Condition variables.* The mutex's part (`MInv`) is inductive by itself. No lost wake-up rests on it and on the count of waiters, for which
the equation one would write is false: a waiter cancelled while it reacquires the mutex stays counted. What
holds, and is enough, is that the count is never below the number of sleepers (`WaitersCounted`): a notification that finds a count of
0 then finds nobody asleep, and any other sets the signal.

*Barriers.* A thread that waits in the current round has copied the value `br_cycle` still has (`CyclesAgree`), and `br_count` is
what is missing to a full round (`ArrivedCounted`). `MayReach` keeps the bit from coming back under a waiter.

*Thread-specific data.* `OnePlace` says of each value that it was given to a destructor, or is lost, or is
with one thread under one key, and `ValuesMove` is the one way in which a step may take it from one to
another. `SweepTakes` says what a stay in `pth_key_destroydata` does: it takes out values the thread has, the last for a
destructor, or else it ends and has come by no key that has a value and a destructor (`Missed`). The sweep passes
every key at a place of the last iteration (`ComesBy`), and by a right count it does not stop early, so what it
missed is before the place at which it was entered again; that place is then in the last
iteration (`LastIteration`).

*Coroutines.* `StartedInOrder` needs `OInv`: a scheduler that is handed an event drops it if the coroutine is in its ready queue
already, so the property says nothing unless no coroutine is given twice (`GivenOnce`), which follows from one being
left for every call under way (`OneLeft`); all ready coroutines have one priority (in `Types`), so that inserting
appends (`InsertIsAppend`); and what a scheduler took is settled before it takes more (`NothingTaken`).

*Timers.* A timer is on the new list, in the sorted one or called back, and in one of them only. `Times` counts how often a
list has it, so that the invariant is one equation for each timer: the three counts add up to 1 if it has been scheduled and to 0
if not. Taking an entry from the front of a list takes one off its count (`TimesTail`), and merging (`Merged`) moves all
counts of the new list over, because each insertion, wherever `PlaceOfNew` puts it, adds one (`InsertTimer`). The order
of the list plays no part: the code does not keep it (section 5).

*I/O.* `IOInv` has one part for each thing a call borrows. `Places` says where a thread is in its call and, while it waits, that its
events are linked in one of the shapes (`Shape`) that concatenation gives them in this kind of call; `pth_event_isolate` at its end
then finds what it expects, and the ring of the application comes back as it was (`Quiet`). `Modes` says that a descriptor is nonblocking
exactly while one thread that made it so is in its call (`Owns`), and that this is never more than one: a second writer that finds it nonblocking does not
borrow it. For `BlocksOnlyWhenRobbed` the thing to keep is why a reader was woken (`Woken`): by its descriptor, and what woke it is still there
unless somebody else has been a taker since (`Met`), or by a request that it did not heed (`Excused`). `Failing` ties a failed event to a descriptor that has been closed. What is
left of a vector is what the sums over its parts say (`SumsOf`), for vectors of any length. Each call is first shown to be a `CallStep`, which
says what a step of one thread may do to links, modes and data; that a `CallStep` keeps the invariant is proved once, and then the rounds of the scheduler and the steps
of the peer.

*Reference counts.* Between the two halves of an assignment the counts are not those of the holders there are. `Sound(h, e, pin, fresh)`
therefore describes the store with a number of holders `e[c]` outside of the cells for each cell `c`: the count of a cell is the number of
cells that hold it plus `e[c]`, it is shaped as its kind asks for, and it is alive as long as the count is positive. Each step of an operation has a
lemma that moves `e`: a value that is copied adds one (`HeldSound`), one that is destroyed takes one off, with the chain of
releases this starts (`Releases`), which ends because every link frees a cell. `pin` names an object whose property
is just being replaced, which no chain can free as long as something holds it (`Anchored`), and `fresh` what nobody holds yet. With `e` the locals and
pointers that hold a cell (`Outside`) this is the invariant between operations, `CountInv`.

*Properties of the host.* What a script may do to a chain of tables is one of two things (`PutAt`, from `ScriptPutIs`): update the nearest property, with its attributes, unless
it is read-only, or add one where no table from there on has it. The invariant `HostInv` says of each property the host has put what its attributes promise, and, if it
is read-only and not to be deleted, that no table which did not have the property then has it now (`PromiseHeld`). It is kept because such a table
lies before the host's property, so that a put there finds that one first; that is why no put can hide it.

*Arrays.* The invariant `ArrInv` relates the table of an array to a sequence and a second table (`SlotsFit`): the index below the
length reads its element, or nothing where there is a gap, no index from the length on is in the table, which is why a later put beyond
the end or a larger length uncovers nothing old, and every other name reads what it reads in the second table. Each operation has a lemma in these terms
(`IndexPut`, `IndexDeleted`, `EndCut`, `EndAdded`, `OtherPut`); the loops of `push` and of the array initialiser are recursive functions, which exist because each of their steps maps arrays to
arrays (`RunExists`), and keep it step by step.

*External objects.* The sorted table of the host's names has just these names, and their ranks grow with the places (`DescriptorsSorted`). A search by halves is a
recursive function of the places from `base` to `last`. What it finds there is said without recursion: the name's place, if it is one of them
(`PlaceIn`), or the first place after the name, else the last one noted (`NextIn`). This function satisfies the equation of the search (`PlaceStepBy`,
`NextStepBy`), so that the recursion defines a function; and every solution is equal to it, by induction on how many places are left, so that the search gives
what was said (`SearchFinds`, `NextSearchFinds`). The same is done for the walk over names that may not be read (`NextShown`). The sooner of the first of two
sets of names is the first of both (`SoonerIs`), so that the names listed are those of the object and the host in one order (`ListsAll`). The invariant
`ExtInv` says that what a script should read is what the host holds or the object's own table has (`ReadAs`), and that the properties of the names in use have no attributes, nor the
value undefined, so that a deletion's answer tells whether there was one; each change is seen by one name only (`ReadsOnly`).

*Lemmas in common.* `PrioQueueProofs` has those on the queue: inserting adds one entry and keeps a queue free of duplicates
(`InsertProps`), deleting removes the one thread and keeps the rest in place
(`DeleteProps`), favouring and aging keep the members. Facts about walks and folds are proved by induction in the form of sets (`Steps`: a set with 0 and
the successor of each of its members has every number), which follows from the well-foundedness of the order of the
numbers; the induction theorems of the library have an operator for a parameter and cannot be used.

*Only model-checked.* All liveness, which is out of TLAPS' reach: `NoStarvation`, `CancelTakesEffect`, `JoinCompletes`,
`FreeMutexTaken`, `BarrierOpens`, `AllCalledBack` (but for the theorem above), `EveryCoroutineRuns`. Of the script engine, what is about data: parser,
interpreter, scanner, preprocessor, JSON and times compute by recursive operators over texts and trees, about which the prover can say nothing (about
recursive functions it can, as in the queue, in `Releases` and in the searches of external objects), and what they compute for every input would need induction over data; `ZoneFresh` is in a module
with such operators.

## 5. Observations

No run of the project expects a violation. Where the code does not do what its
author must have meant, the models do what the code does, and the properties say
what holds nevertheless. What was met:

*Scheduler and threads*

- *The main thread's exit may end the process under another thread*: `pth_exit_cb` counts the queues
  without the caller, which is in none, so that with exactly one other thread alive the count is one (`pth_lib.c:432`, 396).
- *Ready threads can starve through `pth_yield(tid)`.* `pth_pqueue_favorite` puts the named
  thread above the head on each call, so two threads yielding to each other
  stay ahead of a third for ever. `NoStarvation`, `CancelTakesEffect` and `JoinCompletes` make this one exception (`DirectsForEver`).
- *A yield to a ready thread is not always honoured*: the favoured thread alone in its queue is not
  moved, and the caller is put back with its own, perhaps higher, priority (`pth_lib.c:517`).
- *A join can end early*: a request of cancellation wakes the joiner also if it has cancellation disabled, and `pth_join` then fails
  with its thread alive (`pth_sched.c:805`, `pth_lib.c:484-489`).
- *A join may read a freed control block*: when a second thread has joined the same thread first, or has aborted it, the woken joiner
  still looks at it (`pth_lib.c:489`), and the event manager at the event of one that is not woken yet (`pth_sched.c:544`). Depending on what is there the
  join fails, waits for ever, or unlinks and frees the block again. `DanglesByAnother` says that nothing else leads there.
- *A suspended thread with asynchronous cancellation is not cancelled*: it is not in the queue of its state,
  so `pth_cancel` fails after having set the request.
- *The wait of the main thread in `pth_exit` is created with too few arguments*
  (`pth_lib.c:433` against `pth_event.c:203-205`); should `select` refuse the resulting interval,
  nobody is found to run. `SchedulerFindsThread` excludes exactly this case (`TimeoutRefused`).
- *`pth_once` runs its function twice* if the function lets another thread come (`pth_lib.c:621`).
- *In the ring `insert_before` with the hook makes the node the last one*, not the first.

*Synchronization*

- *A thread that exits with two mutexes releases the first only*: the walk goes on from a node
  that has just been unlinked (`pth_sync.c:135-143`). `Walked` has this behaviour; in
  `mutex_locks` such a mutex stays locked, and `FreeMutexTaken` does not speak of it.
- *A mutex of an asynchronously cancelled thread stays locked*: the canceller is not its owner (`pth_sync.c:114`).
- *The read-write mutex belongs to the reader that came first, and is released by the one that goes last*;
  if they differ the release fails and the lock stays locked (`pth_sync.c:213`).
- *The lock is lost in three ways*: the thread that owns the read-write mutex for the readers, having released its own share, acquires it to write while others read;
  it ends, which frees the mutex under them; or a first reader ends in its wait and stays counted, so that the next reader does not ask for
  the mutex (`pth_sync.c:169-189`). `WriterExcludes` holds until one of these steps has been taken (`lost`), and TLC finds it violated if any one of
  the three is left out of `OwnsForReaders`.
- *A reader that ends with the lock stays counted*, and nobody gets it to write any more.
- *A waiter cancelled while it reacquires the mutex stays counted*: its handler has been popped (`pth_sync.c:292`).
- *A signal may go to a waiter that is being cancelled*, and another one sleeps on (`pth_sched.c:537`);
  `NoLostWakeup` speaks of the time in which no consumer has ended.
- *Whoever cancels a waiter asynchronously becomes the owner of its mutex* (`pth_sync.c:245`). Not in the model:
  `PthCond` assumes that no thread is cancelled asynchronously.
- *A barrier used by more threads than its threshold may keep one*: two rounds complete before it looks,
  and the one bit `br_cycle` is back. `MayReach` keeps the model's application from this.
- *No thread gets `PTH_BARRIER_HEADLIGHT`*: `br_count` has been decremented when it is compared (`pth_sync.c:369`).

*I/O and messages*

- *Two readers of one descriptor can block the whole process*: one takes what made the other go on to `read(2)`,
  although the comment at `pth_high.c:766` says it cannot block.
- *A request of cancellation makes a thread that has cancellation disabled block the process*: it ends the wait (`pth_sched.c:805`) with the event
  pending, and `pth_read_ev`, unless it has extra events, goes on to `read(2)` (`pth_high.c:758-772`). `BlocksOnlyWhenRobbed` says that there is no third way.
- *A second writer finds the descriptor nonblocking* and gets `EAGAIN` instead of a wait; a thread cancelled in its wait
  leaves the descriptor nonblocking.
- *A write interrupted by an extra event after a part has been written returns -1*, and the count is lost.
- `pth_accept_ev` waits without the extra events from its second turn on; `pth_select_ev` isolates only the first
  of two extra events; `pth_poll_ev` returns 0 with stale `revents`.
- After `select` has failed, ready descriptors are not marked and wait for another round.
- `pth_msgport_destroy` does not end if an unfetched message names this very port for its reply (`pth_msg.c:78-80`).

*Thread-specific data*

- A thread that cancels another and is itself cancelled in a callback leaves the other half cleaned up for ever.
- A value stays visible under a key that has been deleted and given out again (`pth_data.c:64`); the values of a deleted key
  are dropped without a destructor; `pth_key_setdata` in a destructor run by a canceller is about the canceller's data.

*Coroutines and timers*

- *The timer list is not sorted*: a timer earlier than the head is inserted before it, but
  the head stays the head, so it comes last and late (`co_timer.cpp:116`).
- `co_timer.cpp:35` compares `new_timer_list` with `NULL` instead of assigning; `ev_next` and `ev_occurred_cnt` in
  `co_sched.cpp` are never initialised. Both work with zeroed memory only.
- The lock of `co_pqueue` is never initialised, and `favorite` takes it twice (`co_pqueue.cpp:139-152`; nobody calls it).
  `co_create_co` before all schedulers are listed uses an entry that is not set.

*Script engine: language*

- A `finally` block runs twice if it throws itself, and its own break or return is dropped; an exception out of a called function,
  and the limit on nodes, leave a scope behind.
- `var` inside `with` puts the variable into the object; `var x;` assigns undefined; functions see the scopes of their callers;
  a `break` in a function called from a loop is accepted; functions are declared at the top level only, and when control comes there;
  the result of a function expression cannot be called directly.
- `0 == null` and `undefined == false` hold; NaN is the smallest positive number and equal to itself; `>>` ignores its right
  operand; conversion to 32 bits wraps by 2^31; `&&` and `||` give Booleans; `typeof` a function is "object"; `void` does not evaluate.
- Most inbuilt functions are commented out and do not evaluate their arguments; their names hide methods of the same name;
  `new` of a call of one goes on with a null pointer; `instanceof` has no code; endless loops with nothing to do are syntax errors.

*Script engine: text*

- A sign in an exponent is not followed by its digits; `.5` is two tokens; a string without an end is read beyond the text;
  a comment without one is accepted; a backslash before a line end does not count the line.
- In the preprocessor a directive that is none takes the end of its line with it; a comment of several lines that begins
  after a word is not seen, so that `#` in it is a directive.
- JSON: strings are not escaped; negative and very large or small numbers, NaN and undefined are not read back; arrays of more than ten elements
  are written in the order of strings, and holes are lost; a property named `prototype` captures those after it; separators may be missing.

*Script engine: objects, counts and times*

- `ScriptObjectExternal::hasProperty` lacks `const` (`JsScriptObjectExternal.h:71`, `JsScriptObject.h:210`) and so overrides
  nothing: `in` and the scope chain never find a host's property. Putting with attributes does nothing there and in arrays.
- Names such as `+1`, `01` or `1.5` lengthen an array; a length of NaN keeps element 0; shrinking ignores `DontDelete`.
- A put of an inherited property updates the prototype. Deleting an absent property gives false.
- `convertToString` of a reference leaves it typed as a string; `SmartPointer`'s assignment releases before it counts;
  `flushAllProperties` does not end on a cycle; `numberToString` divides a double until it is 0, beyond its 128 bytes
  (`JsScriptNodeInbuiltFunctionCall.cpp:1619-1625`).
- Times: every text that begins with a digit is taken for ISO 8601, so `toString`'s own format is not read; an unknown month is uninitialised;
  zones between Greenwich and one hour west are written `+00-30`; a clock set back keeps the old zone;
  the cached zone is compared with the time that is converted, so a future time fixes the zone for the clock until ten seconds after it, and a past one is converted with the
  zone of today (`JsTime.cpp:1191`, `1201`); a log line names the zone of an earlier line, or none, once another function has refreshed the zone (`899-911`, `1036-1038`). `ZoneFresh` says
  how far this goes, and when it does not happen; years outside 1970-2037 index past the tables.
- *`Date` does not find the date*: `Number` is a double, so `theTime / SecondsPerDayE` and `yearFromTime` have fractions, and the loop of
  `yearFromTime` always goes back a year (`JsScriptObjectDate.h:616-632`, `824-835`): `getMonth()` is 11 for every time, `getFullYear()` up to a
  year early, `getDate()` between 14 and 32, the last two with fractions. Every setter reads these, so `setHours` moves the date. `DateRight` leaves day, month and year out.
- `Date`: the constructor takes `toUInt32() % 12` for the day and reads an eighth argument of seven; `setFullYear` refuses its three
  arguments; a part out of range gives the time before 1970 (`mkTime`'s -1 is not looked at); `setUTC...` add the local zone; `setUTCDate` cannot be called;
  doubles are printed with `%d`; the zone of today is used for every date.

*Not modelled, seen in passing*: `pth_time_add` and `pth_time_div` can leave a million microseconds; `pth_time_pos` needs
both parts positive; `co_event.cpp` lacks a brace (`CO_MODE_REUSE`).

## 6. Not modelled, and why

- *Pth*: signals, stack guards, load averages and times of threads, which take no part in where threads are; fork handlers (a table
  called in a loop around `fork`); attributes beyond those of `PthSched`; contexts, stacks and the trampoline, below the model; `pth_time.c`,
  strings and utilities, without state; the pthread layer and system call wrappers, translations. Of the I/O calls: `poll` and `pselect` (translations to `select`),
  `pread` and `pwrite` (two private mutexes around a seek), the sleeps, `sigwait`, `waitpid`, `system`.
- *co*: `co_event.cpp` is not a program; of `co_pqueue` what nobody calls. The machine context and events other than creation are left out of `CoSched`.
- *Script engine*: execution of `delete`, division, object initialisers, constructors, `this` and `arguments`; `Math`, error objects and
  system calls as objects (their property machinery is that of `JsProperties`); names by which external methods are called; doubles as such: rounding
  is not modelled. `ScriptValueReader` is not used by anything.
- *Tracing, unit test support, echo server*: front ends of the above without logic of their own.

## 7. What is left

1. Object initialisers, constructors, `this` and `arguments` in `JsExecute`; then compositions of the interpreter with `JsProperties` and `JsObjects`, which it uses through operators of its own now.
2. Asynchronous cancellation in `PthCond`; the main thread as a client of `PthSync`; two extra events in `PthIO`.
3. Abstract specifications: a lock with owners for `PthMutex`, a lock of readers and writers for `PthRWLock` with the exclusions above, rounds for `PthBarrier`,
   a set of FIFO queues for `CoSched`.
4. Proofs: the cached zone of `ZoneFresh` in a module of its own; that a round of `PthSync` is one
   `PthSched` allows, which would carry over to its clients what is proved about the scheduler.
