------------------------------- MODULE PthRing --------------------------------
(***************************************************************************)
(* The rings of pth/pth_ring.c, which the library keeps its mutexes,       *)
(* message ports and messages in: nodes linked both ways in a circle, one  *)
(* of them the hook.  A ring serves as a list, a stack and a queue.        *)
(*                                                                         *)
(* A ring and the links of all nodes are one record r; a node that is not  *)
(* in the ring keeps the links it had last.                                *)
(***************************************************************************)
EXTENDS Integers, Sequences, FiniteSets, SequencesExt

CONSTANTS Nodes,     \* the nodes that may be in the ring
          NoNode     \* the null pointer

ASSUME RingAssumption == NoNode \notin Nodes /\ IsFiniteSet(Nodes)

VARIABLES
    ring,     \* r_hook, r_nodes, and rn_next and rn_prev of every node
    order,    \* the nodes in their order, as the caller expects them
    taken     \* the node the last operation returned, and the one expected

ringVars == <<ring, order, taken>>

pth_ring_init ==
    [hook |-> NoNode, nodes |-> 0,
     next |-> [n \in Nodes |-> NoNode], prev |-> [n \in Nodes |-> NoNode]]

pth_ring_first(r) == r.hook
pth_ring_last(r)  == IF r.hook = NoNode THEN NoNode ELSE r.prev[r.hook]
pth_ring_next(r, n) == IF r.next[n] = r.hook THEN NoNode ELSE r.next[n]
pth_ring_prev(r, n) == IF r.prev[n] = r.prev[r.hook] THEN NoNode ELSE r.prev[n]

Between(r, a, n, b) ==
    [r EXCEPT !.next = [@ EXCEPT ![n] = b, ![a] = n],
              !.prev = [@ EXCEPT ![n] = a, ![b] = n],
              !.nodes = @ + 1]

pth_ring_insert_after(r, a, n)  == Between(r, a, n, r.next[a])
pth_ring_insert_before(r, b, n) == Between(r, r.prev[b], n, b)

\* Mutant: the hook is not moved from the node that goes.
pth_ring_delete_HookKept(r, n) ==
    IF r.hook = n /\ r.prev[n] = n /\ r.next[n] = n
    THEN [r EXCEPT !.hook = NoNode, !.nodes = @ - 1]
    ELSE [r EXCEPT !.next[r.prev[n]] = r.next[n], !.prev[r.next[n]] = r.prev[n],
                   !.nodes = @ - 1]
pth_ring_delete(r, n) ==
    IF r.hook = n /\ r.prev[n] = n /\ r.next[n] = n
    THEN [r EXCEPT !.hook = NoNode, !.nodes = @ - 1]
    ELSE [r EXCEPT !.hook = IF @ = n THEN r.next[n] ELSE @,
                   !.next[r.prev[n]] = r.next[n], !.prev[r.next[n]] = r.prev[n],
                   !.nodes = @ - 1]

Alone(r, n) ==
    [r EXCEPT !.hook = n, !.next[n] = n, !.prev[n] = n, !.nodes = @ + 1]
pth_ring_append(r, n) ==
    IF r.hook = NoNode THEN Alone(r, n) ELSE Between(r, r.prev[r.hook], n, r.hook)
pth_ring_prepend(r, n) ==
    IF r.hook = NoNode THEN Alone(r, n) ELSE [pth_ring_append(r, n) EXCEPT !.hook = n]

Removed(r, n) == IF n = NoNode THEN r ELSE pth_ring_delete(r, n)
pth_ring_pop(r)     == Removed(r, pth_ring_first(r))
pth_ring_dequeue(r) == Removed(r, pth_ring_last(r))

pth_ring_favorite(r, n) ==
    IF r.hook \in {NoNode, n} THEN r ELSE pth_ring_prepend(pth_ring_delete(r, n), n)

pth_ring_contains(r, n) ==
    LET walk[k \in 0 .. Cardinality(Nodes)] == IF k = 0 THEN r.hook ELSE r.next[walk[k - 1]]
    IN  r.hook # NoNode /\ \E k \in DOMAIN walk : walk[k] = n

-------------------------------------------------------------------------------
(* Callers insert a node that is in no ring, at a node that is in this     *)
(* one, and delete and favour nodes of this ring.                          *)
In(n) == n \in ToSet(order)
IndexOf(n) == CHOOSE i \in DOMAIN order : order[i] = n
Rest(n) == RemoveAt(order, IndexOf(n))
Nothing == [node |-> NoNode, expected |-> NoNode]

RingInit == ring = pth_ring_init /\ order = <<>> /\ taken = Nothing

Changed(r, s) == ring' = r /\ order' = s /\ taken' = Nothing
RingAppend(n) == ~In(n) /\ Changed(pth_ring_append(ring, n), Append(order, n))
RingPrepend(n) == ~In(n) /\ Changed(pth_ring_prepend(ring, n), <<n>> \o order)
RingInsertAfter(a, n) ==
    /\ In(a) /\ ~In(n)
    /\ Changed(pth_ring_insert_after(ring, a, n), InsertAt(order, IndexOf(a) + 1, n))
\* What is inserted before the first node is the last one of the circle.
RingInsertBefore(b, n) ==
    /\ In(b) /\ ~In(n)
    /\ Changed(pth_ring_insert_before(ring, b, n),
               IF IndexOf(b) = 1 THEN Append(order, n) ELSE InsertAt(order, IndexOf(b), n))
RingDelete(n)   == In(n) /\ Changed(pth_ring_delete(ring, n), Rest(n))
RingFavorite(n) == In(n) /\ Changed(pth_ring_favorite(ring, n), <<n>> \o Rest(n))

RingPop ==
    /\ ring' = pth_ring_pop(ring)
    /\ order' = IF order = <<>> THEN <<>> ELSE Tail(order)
    /\ taken' = [node |-> pth_ring_first(ring),
                 expected |-> IF order = <<>> THEN NoNode ELSE Head(order)]
RingDequeue ==
    /\ ring' = pth_ring_dequeue(ring)
    /\ order' = IF order = <<>> THEN <<>> ELSE Front(order)
    /\ taken' = [node |-> pth_ring_last(ring),
                 expected |-> IF order = <<>> THEN NoNode ELSE Last(order)]

RingNext ==
    \/ \E n \in Nodes :
          \/ RingAppend(n) \/ RingPrepend(n) \/ RingDelete(n) \/ RingFavorite(n)
          \/ \E m \in Nodes : RingInsertAfter(m, n) \/ RingInsertBefore(m, n)
    \/ RingPop \/ RingDequeue

RingSpec == RingInit /\ [][RingNext]_ringVars

(* A ring is the sequence of its nodes, whichever of its operations are    *)
(* mixed: walked in either direction it shows them all in their order and  *)
(* ends, it contains and counts just them, and pop and dequeue return the  *)
(* first and the last.                                                     *)
RingIsSequence ==
    LET n == Len(order)
        Expected(i) == IF i \in 1 .. n THEN order[i] ELSE NoNode
    IN  /\ ring.nodes = n
        /\ pth_ring_first(ring) = Expected(1) /\ pth_ring_last(ring) = Expected(n)
        /\ \A i \in 1 .. n : /\ pth_ring_next(ring, order[i]) = Expected(i + 1)
                             /\ pth_ring_prev(ring, order[i]) = Expected(i - 1)
        /\ \A m \in Nodes : pth_ring_contains(ring, m) <=> In(m)
        /\ taken.node = taken.expected
===============================================================================
