---------------------------- MODULE PthThreadData -----------------------------
(***************************************************************************)
(* Thread-specific data (pth_data.c) and the cleanup of a thread that      *)
(* ends (pth_thread_cleanup in pth_lib.c), which calls back its cleanup    *)
(* handlers (pth_clean.c) and the destructors of its data.                 *)
(*                                                                         *)
(* A thread is cleaned up in its own context when it exits and in that of  *)
(* the canceller when it is cancelled asynchronously; pth_key_setdata in a *)
(* callback is about the thread that runs it. A callback may use the       *)
(* library and let other threads run: it is entered by one action and      *)
(* returned from by another, and all that the code does between two of     *)
(* them is one action.                                                     *)
(***************************************************************************)
EXTENDS Integers, FiniteSets

CONSTANTS
    Threads,
    PTH_KEY_MAX,
    PTH_DESTRUCTOR_ITERATIONS,
    MaxCleanups,    \* cleanup handlers a thread pushes at a time
    Values,         \* what is stored, each once
    NULL

ASSUME KeyAssumption ==
    /\ PTH_KEY_MAX \in Nat \ {0} /\ PTH_DESTRUCTOR_ITERATIONS \in Nat \ {0}
    /\ NULL \notin Values \cup Threads

Keys == 0 .. PTH_KEY_MAX - 1

VARIABLES
    pth_keytab,     \* [used, destructor: there is one]
    data,           \* of each thread [alloc, value, count]
    cleanups,       \* of each thread: how many handlers it has pushed
    ending,         \* who cleans a thread up, and how far it has come
    ended,          \* the threads that are gone
    given, lost     \* history: how often a value went to a destructor, and
                    \* the values that were overwritten or freed

vars == <<pth_keytab, data, cleanups, ending, ended, given, lost>>

NoData == [alloc |-> FALSE, value |-> [k \in Keys |-> NULL], count |-> 0]
NotEnding == [by |-> NULL, at |-> 0, calls |-> FALSE]

Init ==
    /\ pth_keytab = [k \in Keys |-> [used |-> FALSE, destructor |-> FALSE]]
    /\ data = [t \in Threads |-> NoData]
    /\ cleanups = [t \in Threads |-> 0]
    /\ ending = [t \in Threads |-> NotEnding]
    /\ ended = {}
    /\ given = [v \in Values |-> 0] /\ lost = {}

(* pth_current: a thread that is there and that nobody else cleans up. It  *)
(* may be in a callback.                                                   *)
Runs(t) == t \notin ended /\ ending[t].by \in {NULL, t}

Kept(t) == {data[t].value[k] : k \in Keys} \ {NULL}
Unused == {v \in Values \ lost : given[v] = 0 /\ \A t \in Threads : v \notin Kept(t)}

-----------------------------------------------------------------------------
(* The first key that is free.                                             *)
pth_key_create(t, destructor) ==
    \E k \in Keys :
        /\ Runs(t)
        /\ ~pth_keytab[k].used /\ \A j \in 0 .. k - 1 : pth_keytab[j].used
        /\ pth_keytab' = [pth_keytab EXCEPT ![k] = [used |-> TRUE, destructor |-> destructor]]
        /\ UNCHANGED <<data, cleanups, ending, ended, given, lost>>

(* The values that threads have under the key stay where they are.         *)
pth_key_delete(t, k) ==
    /\ Runs(t) /\ pth_keytab[k].used
    /\ pth_keytab' = [pth_keytab EXCEPT ![k].used = FALSE]
    /\ UNCHANGED <<data, cleanups, ending, ended, given, lost>>

\* Mutant: what the key had before is not looked at.
CountAfter_Sets(d, k, value) == IF value # NULL THEN d.count + 1 ELSE d.count - 1

CountAfter(d, k, value) ==
    CASE d.value[k] = NULL /\ value # NULL -> d.count + 1
      [] d.value[k] # NULL /\ value = NULL -> d.count - 1
      [] OTHER -> d.count

pth_key_setdata(t, k, value) ==
    /\ Runs(t) /\ pth_keytab[k].used
    /\ data' = [data EXCEPT ![t] = [alloc |-> TRUE, count |-> CountAfter(@, k, value),
                                    value |-> [@.value EXCEPT ![k] = value]]]
    /\ lost' = lost \cup ({data[t].value[k]} \ {NULL})
    /\ UNCHANGED <<pth_keytab, cleanups, ending, ended, given>>

pth_cleanup_push(t) ==
    /\ Runs(t) /\ cleanups[t] < MaxCleanups
    /\ cleanups' = [cleanups EXCEPT ![t] = @ + 1]
    /\ UNCHANGED <<pth_keytab, data, ending, ended, given, lost>>

pth_cleanup_pop(t) ==
    /\ Runs(t) /\ cleanups[t] > 0
    /\ cleanups' = [cleanups EXCEPT ![t] = @ - 1]
    /\ UNCHANGED <<pth_keytab, data, ending, ended, given, lost>>

-----------------------------------------------------------------------------
(* pth_key_destroydata looks at the keys PTH_DESTRUCTOR_ITERATIONS times,  *)
(* as long as there is data: at place i it looks at the key i %            *)
(* PTH_KEY_MAX. It takes the value of a key in use out and calls the       *)
(* destructor, if there is one.                                            *)
\* Mutant: one iteration.
LastPlace_OneRound == PTH_KEY_MAX
LastPlace == PTH_KEY_MAX * PTH_DESTRUCTOR_ITERATIONS

TakenOut(d, ks) ==
    [d EXCEPT !.value = [k \in Keys |-> IF k \in ks THEN NULL ELSE @[k]],
              !.count = @ - Cardinality(ks)]

HasValue(d, k) == pth_keytab[k].used /\ d.value[k] # NULL
Calls(d, k)    == HasValue(d, k) /\ pth_keytab[k].destructor

\* The data d when the sweep has come from place i to place j without a call.
Swept(d, i, j) ==
    LET passed == {m % PTH_KEY_MAX : m \in i .. j - 1}
    IN  TakenOut(d, {k \in passed : HasValue(d, k) /\ ~Calls(d, k)})

Stops(d, i, j) ==
    j = LastPlace \/ Swept(d, i, j).count = 0 \/ Calls(d, j % PTH_KEY_MAX)

\* The data at the next call of a destructor, or at the end; the place; and
\* what the destructor is given.
Sweep(d, i) ==
    LET stop == CHOOSE j \in i .. LastPlace :
                    Stops(d, i, j) /\ \A m \in i .. j - 1 : ~Stops(d, i, m)
        s == Swept(d, i, stop)
        k == stop % PTH_KEY_MAX
    IN  IF stop = LastPlace \/ s.count = 0 THEN [data |-> s, at |-> stop, gives |-> NULL]
        ELSE [data |-> TakenOut(s, {k}), at |-> stop, gives |-> s.value[k]]

(* pth_thread_cleanup of u by p, from place i of its data on (-1: from its *)
(* handlers on) up to the next callback or to the end, when the data is    *)
(* freed. A destructor may find its thread's data allocated anew.          *)
CleansData(u, p, i) ==
    LET s == IF data[u].alloc THEN Sweep(data[u], i)
             ELSE [data |-> data[u], at |-> LastPlace, gives |-> NULL]
        remain == {s.data.value[k] : k \in Keys} \ {NULL}
    IN  /\ given' = [v \in Values |-> given[v] + IF v = s.gives THEN 1 ELSE 0]
        /\ IF s.gives # NULL
           THEN /\ data' = [data EXCEPT ![u] = s.data]
                /\ ending' = [ending EXCEPT ![u] = [by |-> p, at |-> s.at, calls |-> TRUE]]
                /\ lost' = lost \cup (Kept(u) \ (remain \cup {s.gives}))
                /\ ended' = ended
           ELSE /\ data' = [data EXCEPT ![u] = NoData]
                /\ ending' = [ending EXCEPT ![u] = NotEnding]
                /\ lost' = lost \cup Kept(u)
                /\ ended' = ended \cup {u}
        /\ UNCHANGED <<pth_keytab, cleanups>>

pth_thread_cleanup(u, p) ==
    IF cleanups[u] = 0 THEN CleansData(u, p, 0)
    ELSE /\ cleanups' = [cleanups EXCEPT ![u] = @ - 1]
         /\ ending' = [ending EXCEPT ![u] = [by |-> p, at |-> 0, calls |-> FALSE]]
         /\ UNCHANGED <<pth_keytab, data, ended, given, lost>>

pth_exit(t) ==
    /\ Runs(t) /\ ending[t].by = NULL
    /\ \A u \in Threads : ending[u].by # t
    /\ pth_thread_cleanup(t, t)

(* A thread may be cancelled in a callback of its own end: it is not dead  *)
(* before the last of them. No thread cancels in a callback here.          *)
pth_cancel(p, u) ==
    /\ Runs(p) /\ p # u /\ Runs(u)
    /\ \A w \in Threads : ending[w].by # p
    /\ pth_thread_cleanup(u, p)

(* A callback returns in the context it was called in.                     *)
CallbackReturns(p, u) ==
    /\ Runs(p) /\ ending[u].by = p
    /\ IF ending[u].calls THEN CleansData(u, p, ending[u].at + 1)
       ELSE pth_thread_cleanup(u, p)

Next ==
    \/ \E t \in Threads :
        \/ \E d \in BOOLEAN : pth_key_create(t, d)
        \/ \E k \in Keys : pth_key_delete(t, k)
        \/ \E k \in Keys, v \in Unused \cup {NULL} : pth_key_setdata(t, k, v)
        \/ pth_cleanup_push(t)
        \/ pth_cleanup_pop(t)
        \/ pth_exit(t)
    \/ \E p, u \in Threads : pth_cancel(p, u) \/ CallbackReturns(p, u)

Spec == Init /\ [][Next]_vars

-----------------------------------------------------------------------------
(* data_count, by which the destruction goes, is the number of values a    *)
(* thread has, whoever has been setting and destroying them; and each      *)
(* value is in one place: with one thread, given to a destructor once, or  *)
(* lost.                                                                   *)
ValuesAccounted ==
    /\ \A t \in Threads :
        data[t].count = Cardinality({k \in Keys : data[t].value[k] # NULL})
    /\ \A v \in Values :
        given[v] + Cardinality({t \in Threads : v \in Kept(t)})
        + (IF v \in lost THEN 1 ELSE 0) <= 1

(* A thread that ends leaves no value of a key with a destructor behind,   *)
(* unless callbacks of the last iteration set it, or a key was given out   *)
(* while the thread had a value of its predecessor.                        *)
Rounds(t) == ending[t].at \div PTH_KEY_MAX + 1
DestructorsRun ==
    [][\A t \in ended' \ ended, k \in Keys :
        data[t].value[k] # NULL /\ pth_keytab[k].used /\ pth_keytab[k].destructor
        => Rounds(t) = PTH_DESTRUCTOR_ITERATIONS]_vars
=============================================================================
