------------------------------- MODULE PthEvent --------------------------------
(***************************************************************************)
(* Event rings of Pth (pth/pth_event.c): events linked both ways, and what *)
(* the calls that create, join, split and free them do to the links. The   *)
(* links of all events are one record, the operators return it changed.    *)
(***************************************************************************)
EXTENDS Integers

CONSTANTS Event     \* every event structure there is

\* Every event a ring of its own.
Unlinked == [next |-> [e \in Event |-> e], prev |-> [e \in Event |-> e]]

Alone(l, e) == l.next[e] = e /\ l.prev[e] = e

(* pth_event for a structure that is allocated, static or reused: a new    *)
(* ring, whatever the structure was linked to before.                      *)
NewRing(l, e) == [next |-> [l.next EXCEPT ![e] = e],
                  prev |-> [l.prev EXCEPT ![e] = e]]

\* pth_event with PTH_MODE_CHAIN: into the ring of ch, before it.
Chain(l, e, ch) ==
    LET p == l.prev[ch]
    IN  [next |-> [l.next EXCEPT ![e] = ch, ![p] = e],
         prev |-> [l.prev EXCEPT ![e] = p, ![ch] = e]]

\* Open the ring at evf, attach the ring of evn, close it.
pth_event_concat(l, evf, evn) ==
    LET evl == l.next[evf]
        evt == l.prev[evn]
    IN  [next |-> [l.next EXCEPT ![evf] = evn, ![evt] = evl],
         prev |-> [l.prev EXCEPT ![evn] = evf, ![evl] = evt]]

\* pth_event_free(ev, PTH_FREE_THIS): its neighbours forget the event.
pth_event_free(l, e) ==
    LET n == l.next[e]
        p == l.prev[e]
    IN  [next |-> [l.next EXCEPT ![p] = n], prev |-> [l.prev EXCEPT ![n] = p]]

pth_event_isolate(l, e) ==
    IF Alone(l, e) THEN l ELSE NewRing(pth_event_free(l, e), e)

(* The events of a walk along ev_next from e, as pth_wait, the event       *)
(* manager and pth_event_walk make it until they are back at e.            *)
pth_event_walk(l, e) ==
    LET seen[s \in SUBSET Event] ==
            LET more == s \cup {l.next[x] : x \in s}
            IN  IF more = s THEN s ELSE seen[more]
    IN  seen[{e}]

\* Both ways are the same ring, so that every walk comes back.
Closed(l) == \A e \in Event : l.prev[l.next[e]] = e /\ l.next[l.prev[e]] = e

=============================================================================
