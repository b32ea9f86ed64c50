------------------------------ MODULE PrioQueue ------------------------------
(***************************************************************************)
(* What a thread queue of Pth promises, as operators on values.            *)
(*                                                                         *)
(* A queue is a sequence of entries [th, pr]: the thread and the absolute  *)
(* priority it has in the queue, highest first, equals in arrival order.   *)
(* pth_pqueue.c stores the same thing as a ring of relative priorities;    *)
(* PthPqueue models that representation and is checked against this one.   *)
(*                                                                         *)
(* Aging (pth_pqueue_increase) and favouring (head + 1) let priorities     *)
(* grow without bound. Ordinary insertions never ask for more than         *)
(* PRIO_MAX + 1, so two priorities above that are told apart by their      *)
(* order in the queue only: entries saturate at PRIO_CAP > PRIO_MAX + 1.   *)
(***************************************************************************)
EXTENDS Integers, Sequences, FiniteSets, SequencesExt

CONSTANTS
    PRIO_MAX,    \* PTH_PRIO_MAX
    PRIO_CAP     \* where this representation stops counting

\* Nothing but a favoured or an aged entry may reach the saturation value.
ASSUME PrioCapAssumption ==
    /\ PRIO_MAX \in Int
    /\ PRIO_CAP \in Int
    /\ PRIO_CAP > PRIO_MAX + 1

Entry(Th) == [th : Th, pr : Int]

Clamp(p) == IF p > PRIO_CAP THEN PRIO_CAP ELSE p

Members(q) == {q[i].th : i \in DOMAIN q}

\* pth_pqueue_insert: behind every entry of greater or equal priority.
Place(q, prio) == 1 + Cardinality({i \in DOMAIN q : q[i].pr >= prio})

Insert(q, prio, t) == InsertAt(q, Place(q, prio), [th |-> t, pr |-> prio])

\* The place of a member; pth_pqueue_delete is only called on members.
Position(q, t) == CHOOSE i \in DOMAIN q : q[i].th = t

Delete(q, t) == RemoveAt(q, Position(q, t))

\* pth_pqueue_favorite_prio and the insertion that always follows it.
FavoritePrio(q) == IF q = <<>> THEN PRIO_MAX ELSE Clamp(q[1].pr + 1)

PushFavorite(q, t) == <<[th |-> t, pr |-> FavoritePrio(q)]>> \o q

\* pth_pqueue_favorite: alone in its queue a thread keeps its priority.
Favorite(q, t) == IF Len(q) <= 1 THEN q ELSE PushFavorite(Delete(q, t), t)

\* Mutant: no aging.
Increase_Not(q) == q

Increase(q) == [i \in DOMAIN q |-> [q[i] EXCEPT !.pr = Clamp(@ + 1)]]

\* No thread is queued twice.
Distinct(q) == \A i, j \in DOMAIN q : q[i].th = q[j].th => i = j

=============================================================================
