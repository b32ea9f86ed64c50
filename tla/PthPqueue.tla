------------------------------ MODULE PthPqueue ------------------------------
(***************************************************************************)
(* The thread queue of pth/pth_pqueue.c as it is stored: a doubly linked   *)
(* ring through the thread control blocks, where the head holds its        *)
(* absolute priority and every other thread the difference between its     *)
(* predecessor's priority and its own. Aging the whole queue is then one   *)
(* addition at the head, and every other operation has to keep the         *)
(* differences right on both sides of the place it touches.                *)
(*                                                                         *)
(* A queue and the links it runs through are one record r; each function   *)
(* of the source is an operator from a record to the record it leaves.     *)
(***************************************************************************)
EXTENDS PrioQueue

CONSTANTS
    Threads,     \* the threads that may be queued
    Prios,       \* priorities the callers insert with
    NULL,        \* the null pointer
    PrioBound    \* aging and favouring stop at this absolute priority

ASSUME PqueueAssumption ==
    /\ Prios \subseteq {p \in Int : p <= PRIO_MAX + 1}
    /\ NULL \notin Threads
    /\ PrioBound \in Int

VARIABLE
    q   \* q_head, q_num, and q_next, q_prev, q_prio of every control block

pth_pqueue_init ==
    [head |-> NULL, num |-> 0,
     next |-> [t \in Threads |-> NULL],
     prev |-> [t \in Threads |-> NULL],
     prio |-> [t \in Threads |-> 0]]

(* The queued threads in ring order, and the priorities the differences    *)
(* stand for: what the loop of pth_pqueue_insert accumulates in p.         *)
Chain(r) ==
    LET c[i \in 1 .. r.num] == IF i = 1 THEN r.head ELSE r.next[c[i-1]] IN c

AbsPrio(r) ==
    LET a[i \in 1 .. r.num] ==
          IF i = 1 THEN r.prio[r.head] ELSE a[i-1] - r.prio[Chain(r)[i]]
    IN  a

\* pth_pqueue_contains: walk from the head with pth_pqueue_walk.
InQueue(r, t) == \E i \in 1 .. r.num : Chain(r)[i] = t

-----------------------------------------------------------------------------
(* Insertion: as the first thread, as the new head, or behind thread c of  *)
(* absolute priority p, where the loop has stopped.                        *)
InsertFirst(r, prio, t) ==
    [head |-> t, num |-> 1,
     next |-> [r.next EXCEPT ![t] = t],
     prev |-> [r.prev EXCEPT ![t] = t],
     prio |-> [r.prio EXCEPT ![t] = prio]]

InsertHead(r, prio, t) ==
    LET h == r.head
        l == r.prev[h]
    IN  [head |-> t, num |-> r.num + 1,
         next |-> [r.next EXCEPT ![t] = h, ![l] = t],
         prev |-> [r.prev EXCEPT ![t] = l, ![h] = t],
         prio |-> [r.prio EXCEPT ![t] = prio, ![h] = prio - @]]

\* Mutated: the successor keeps its difference to the old predecessor.
InsertBehind_NoAdjust(r, prio, t, c, p) ==
    LET n == r.next[c]
    IN  [head |-> r.head, num |-> r.num + 1,
         next |-> [r.next EXCEPT ![t] = n, ![c] = t],
         prev |-> [r.prev EXCEPT ![t] = c, ![n] = t],
         prio |-> [r.prio EXCEPT ![t] = p - prio]]

InsertBehind(r, prio, t, c, p) ==
    LET n == r.next[c]
        d == p - prio
    IN  [head |-> r.head, num |-> r.num + 1,
         next |-> [r.next EXCEPT ![t] = n, ![c] = t],
         prev |-> [r.prev EXCEPT ![t] = c, ![n] = t],
         prio |-> IF n = r.head THEN [r.prio EXCEPT ![t] = d]
                                ELSE [r.prio EXCEPT ![t] = d, ![n] = @ - d]]

\* The loop ends at the last thread or before one of lower priority.
StopsAt(r, prio, k) ==
    /\ k = r.num \/ AbsPrio(r)[k+1] < prio
    /\ \A j \in 2 .. k : AbsPrio(r)[j] >= prio

pth_pqueue_insert(r, prio, t) ==
    IF r.head = NULL THEN InsertFirst(r, prio, t)
    ELSE IF r.prio[r.head] < prio THEN InsertHead(r, prio, t)
    ELSE LET k == CHOOSE k \in 1 .. r.num : StopsAt(r, prio, k)
         IN  InsertBehind(r, prio, t, Chain(r)[k], AbsPrio(r)[k])

-----------------------------------------------------------------------------
\* Removal of the only thread, of the head of several, of any other thread.
RemoveOnly(r) ==
    [head |-> NULL, num |-> 0,
     next |-> [r.next EXCEPT ![r.head] = NULL],
     prev |-> [r.prev EXCEPT ![r.head] = NULL],
     prio |-> [r.prio EXCEPT ![r.head] = 0]]

Unlink(r, t, head, prio) ==
    [head |-> head, num |-> r.num - 1,
     next |-> [r.next EXCEPT ![r.prev[t]] = r.next[t]],
     prev |-> [r.prev EXCEPT ![r.next[t]] = r.prev[t]],
     prio |-> prio]

RemoveHead(r) ==
    LET n == r.next[r.head]
    IN  Unlink(r, r.head, n,
               [r.prio EXCEPT ![n] = r.prio[r.head] - @, ![r.head] = 0])

RemoveInner(r, t) ==
    LET n == r.next[t]
    IN  Unlink(r, t, r.head,
               IF n = r.head THEN [r.prio EXCEPT ![t] = 0]
                             ELSE [r.prio EXCEPT ![n] = @ + r.prio[t], ![t] = 0])

pth_pqueue_delmax(r) ==
    IF r.next[r.head] = r.head THEN RemoveOnly(r) ELSE RemoveHead(r)

pth_pqueue_delete(r, t) ==
    IF r.head = t THEN pth_pqueue_delmax(r) ELSE RemoveInner(r, t)

pth_pqueue_favorite_prio(r) ==
    IF r.head # NULL THEN r.prio[r.head] + 1 ELSE PRIO_MAX

pth_pqueue_favorite(r, t) ==
    IF r.num = 1 THEN r
    ELSE LET d == pth_pqueue_delete(r, t)
         IN  pth_pqueue_insert(d, pth_pqueue_favorite_prio(d), t)

pth_pqueue_increase(r) == [r EXCEPT !.prio[r.head] = @ + 1]

pth_pqueue_tail(r) == r.prev[r.head]

-----------------------------------------------------------------------------
(* The callers keep to one rule: a thread is inserted only where it is not *)
(* queued yet, and removed or favoured only where it is.                   *)
Init == q = pth_pqueue_init

DoInsert(t, prio) ==
    /\ ~InQueue(q, t)
    /\ q' = pth_pqueue_insert(q, prio, t)

DoInsertFavored(t) ==
    /\ ~InQueue(q, t)
    /\ pth_pqueue_favorite_prio(q) <= PrioBound
    /\ q' = pth_pqueue_insert(q, pth_pqueue_favorite_prio(q), t)

DoDelmax == q.head # NULL /\ q' = pth_pqueue_delmax(q)

DoDelete(t) == InQueue(q, t) /\ q' = pth_pqueue_delete(q, t)

DoFavorite(t) ==
    /\ InQueue(q, t)
    /\ q.prio[q.head] < PrioBound
    /\ q' = pth_pqueue_favorite(q, t)

\* How the scheduler drains the new queue: last thread first.
DoDeleteTail == q.head # NULL /\ q' = pth_pqueue_delete(q, pth_pqueue_tail(q))

DoIncrease ==
    /\ q.head # NULL
    /\ q.prio[q.head] < PrioBound
    /\ q' = pth_pqueue_increase(q)

Next ==
    \/ \E t \in Threads :
          \/ \E prio \in Prios : DoInsert(t, prio)
          \/ DoInsertFavored(t)
          \/ DoDelete(t)
          \/ DoFavorite(t)
    \/ DoDelmax
    \/ DoDeleteTail
    \/ DoIncrease

Spec == Init /\ [][Next]_q

-----------------------------------------------------------------------------
(* The ring decoded: what the rest of the library relies on. *)
Decoded ==
    [i \in 1 .. q.num |-> [th |-> Chain(q)[i], pr |-> Clamp(AbsPrio(q)[i])]]

PQ == INSTANCE PrioQueueSpec WITH queue <- Decoded

(* Refinement: every operation on the ring is the abstract operation of    *)
(* the same name on the decoded queue, saturation included; in particular  *)
(* threads of equal priority leave in the order they came (pth_pqueue.c).  *)
RefinesPrioQueue == PQ!Spec

=============================================================================
