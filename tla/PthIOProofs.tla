------------------------------ MODULE PthIOProofs ------------------------------
(***************************************************************************)
(* Theorems about the I/O calls of Pth: that they leave the event rings    *)
(* and the descriptors as they found them, whatever ends them.             *)
(***************************************************************************)
EXTENDS PthIO, FiniteSetTheorems, TLAPS

-----------------------------------------------------------------------------
(*                    The events of a thread and their links               *)

Links == [next : [Event -> Event], prev : [Event -> Event]]

\* Two events one of which follows the other.
Linked(l, a, b) == l.next[a] = b /\ l.prev[b] = a

\* The extra events of a thread as it gave them.
ExtrasApart(l, t) ==
    IF t \in Pair THEN Linked(l, Msg(t), Other(t)) /\ Linked(l, Other(t), Msg(t))
    ELSE Linked(l, Msg(t), Msg(t)) /\ Linked(l, Other(t), Other(t))

\* Outside of a call, and in one without extra events.
Quiet(l, t) ==
    Linked(l, Io(t), Io(t)) /\ Linked(l, Time(t), Time(t)) /\ ExtrasApart(l, t)

\* The event of the call with the extra events.
Attached(l, t) ==
    /\ Linked(l, Time(t), Time(t)) /\ Linked(l, Io(t), Msg(t))
    /\ IF t \in Pair THEN Linked(l, Msg(t), Other(t)) /\ Linked(l, Other(t), Io(t))
       ELSE Linked(l, Msg(t), Io(t)) /\ Linked(l, Other(t), Other(t))

\* With the timeout of pth_select_ev, and with an extra event as well.
Timed(l, t) ==
    Linked(l, Io(t), Time(t)) /\ Linked(l, Time(t), Io(t)) /\ ExtrasApart(l, t)
TimedAttached(l, t) ==
    /\ t \notin Pair
    /\ Linked(l, Io(t), Msg(t)) /\ Linked(l, Msg(t), Time(t)) /\ Linked(l, Time(t), Io(t))
    /\ Linked(l, Other(t), Other(t))

\* How the events of t are linked while it waits in the call cl.
Shape(l, t, cl) ==
    /\ cl.timed => cl.op = "select"
    /\ cl.op = "select" /\ cl.extra => t \notin Pair
    /\ IF cl.timed THEN IF cl.extra THEN TimedAttached(l, t) ELSE Timed(l, t)
       ELSE IF cl.extra THEN Attached(l, t) \/ (cl.op = "accept" /\ Quiet(l, t))
       ELSE Quiet(l, t)

\* The links k are l but for the events of t.
Kept(l, k, t) ==
    /\ k \in Links
    /\ \A e \in Event : e[1] # t => k.next[e] = l.next[e] /\ k.prev[e] = l.prev[e]

LEMMA OwnEvents ==
    ASSUME NEW t \in Threads
    PROVE  /\ Io(t) \in Event /\ Time(t) \in Event /\ Msg(t) \in Event /\ Other(t) \in Event
           /\ Io(t) # Time(t) /\ Io(t) # Msg(t) /\ Io(t) # Other(t)
           /\ Time(t) # Msg(t) /\ Time(t) # Other(t) /\ Msg(t) # Other(t)
           /\ Io(t)[1] = t /\ Time(t)[1] = t /\ Msg(t)[1] = t /\ Other(t)[1] = t
           /\ Io(t)[2] = "io" /\ Time(t)[2] = "time" /\ Msg(t)[2] = "msg" /\ Other(t)[2] = "other"
BY IOAssumption DEF Io, Time, Msg, Other

LEMMA EveryEvent ==
    ASSUME NEW e \in Event
    PROVE  /\ e[1] \in Threads
           /\ e \in {Io(e[1]), Time(e[1]), Msg(e[1]), Other(e[1])}
           /\ e # NULL
BY IOAssumption DEF Io, Time, Msg, Other

\* Each operation on links changes those of the events it is given.
LEMMA NewRingKeeps ==
    ASSUME NEW l \in Links, NEW t \in Threads, NEW e \in Event, e[1] = t
    PROVE  Kept(l, NewRing(l, e), t)
BY DEF Links, Kept, NewRing

LEMMA ConcatKeeps ==
    ASSUME NEW l \in Links, NEW t \in Threads, NEW a \in Event, NEW b \in Event,
           a[1] = t, b[1] = t, l.next[a][1] = t, l.prev[b][1] = t
    PROVE  Kept(l, pth_event_concat(l, a, b), t)
BY DEF Links, Kept, pth_event_concat

LEMMA FreeKeeps ==
    ASSUME NEW l \in Links, NEW t \in Threads, NEW e \in Event,
           l.next[e][1] = t, l.prev[e][1] = t
    PROVE  Kept(l, pth_event_free(l, e), t)
BY DEF Links, Kept, pth_event_free

LEMMA KeptTwice ==
    ASSUME NEW l \in Links, NEW k, NEW m, NEW t \in Threads, Kept(l, k, t), Kept(k, m, t)
    PROVE  Kept(l, m, t)
BY DEF Kept


\* The ring of a call with extra events, and of one without.
LEMMA RingIsQuiet ==
    ASSUME NEW l \in Links, NEW t \in Threads, Quiet(l, t)
    PROVE  LET k == NewRing(l, Io(t)) IN Kept(l, k, t) /\ Quiet(k, t)
<1>1. Kept(l, NewRing(l, Io(t)), t)
  BY OwnEvents, NewRingKeeps
<1>2. Quiet(NewRing(l, Io(t)), t)
  BY OwnEvents DEF Links, Quiet, ExtrasApart, Linked, NewRing
<1> QED
  BY <1>1, <1>2

LEMMA RingIsAttached ==
    ASSUME NEW l \in Links, NEW t \in Threads, Quiet(l, t)
    PROVE  LET k == pth_event_concat(l, Io(t), Msg(t)) IN Kept(l, k, t) /\ Attached(k, t)
<1>1. Kept(l, pth_event_concat(l, Io(t), Msg(t)), t)
  <2>1. l.next[Io(t)][1] = t /\ l.prev[Msg(t)][1] = t
    BY OwnEvents DEF Quiet, ExtrasApart, Linked
  <2> QED
    BY <2>1, OwnEvents, ConcatKeeps
<1>2. Attached(pth_event_concat(l, Io(t), Msg(t)), t)
  BY OwnEvents DEF Links, Quiet, ExtrasApart, Attached, Linked, pth_event_concat
<1> QED
  BY <1>1, <1>2

LEMMA TimerJoins ==
    ASSUME NEW l \in Links, NEW t \in Threads, Quiet(l, t)
    PROVE  LET k == pth_event_concat(NewRing(NewRing(l, Io(t)), Time(t)), Io(t), Time(t))
           IN  Kept(l, k, t) /\ Timed(k, t)
<1> DEFINE m == NewRing(NewRing(l, Io(t)), Time(t))
<1>1. Kept(l, m, t)
  BY OwnEvents, NewRingKeeps, KeptTwice DEF Kept
<1>2. m \in Links /\ Quiet(m, t)
  BY OwnEvents, <1>1 DEF Links, Kept, Quiet, ExtrasApart, Linked, NewRing
<1> HIDE DEF m
<1>3. Kept(m, pth_event_concat(m, Io(t), Time(t)), t)
  BY <1>2, OwnEvents, ConcatKeeps DEF Quiet, Linked
<1>4. Timed(pth_event_concat(m, Io(t), Time(t)), t)
  BY <1>2, OwnEvents DEF Links, Quiet, ExtrasApart, Timed, Linked, pth_event_concat
<1>5. Kept(l, pth_event_concat(m, Io(t), Time(t)), t)
  BY <1>1, <1>3, KeptTwice
<1> QED
  BY <1>4, <1>5 DEF m

LEMMA TimerAttaches ==
    ASSUME NEW l \in Links, NEW t \in Threads, Timed(l, t), t \notin Pair
    PROVE  LET k == pth_event_concat(l, Io(t), Msg(t)) IN Kept(l, k, t) /\ TimedAttached(k, t)
<1>1. Kept(l, pth_event_concat(l, Io(t), Msg(t)), t)
  BY OwnEvents, ConcatKeeps DEF Timed, ExtrasApart, Linked
<1>2. TimedAttached(pth_event_concat(l, Io(t), Msg(t)), t)
  BY OwnEvents DEF Links, Timed, ExtrasApart, TimedAttached, Linked, pth_event_concat
<1> QED
  BY <1>1, <1>2

\* An event that goes leaves what it was linked to behind it.
LEMMA IsolateKeeps ==
    ASSUME NEW l \in Links, NEW t \in Threads, NEW e \in Event, e[1] = t,
           l.next[e][1] = t, l.prev[e][1] = t
    PROVE  Kept(l, pth_event_isolate(l, e), t)
BY FreeKeeps, NewRingKeeps, KeptTwice DEF pth_event_isolate, Kept

LEMMA CallLeaves ==
    ASSUME NEW l \in Links, NEW t \in Threads, Attached(l, t) \/ Quiet(l, t)
    PROVE  LET k == pth_event_isolate(l, Io(t)) IN Kept(l, k, t) /\ Quiet(k, t)
<1>1. Kept(l, pth_event_isolate(l, Io(t)), t)
  BY OwnEvents, IsolateKeeps DEF Attached, Quiet, Linked
<1>2. Quiet(pth_event_isolate(l, Io(t)), t)
  <2>1. CASE Quiet(l, t)
    BY <2>1 DEF Quiet, Linked, Alone, pth_event_isolate
  <2>2. CASE Attached(l, t)
    <3>1. ~Alone(l, Io(t))
      BY <2>2, OwnEvents DEF Attached, Linked, Alone
    <3>2. Quiet(NewRing(pth_event_free(l, Io(t)), Io(t)), t)
      BY <2>2, OwnEvents
      DEF Links, Attached, Quiet, ExtrasApart, Linked, NewRing, pth_event_free
    <3> QED
      BY <3>1, <3>2 DEF pth_event_isolate
  <2> QED
    BY <2>1, <2>2
<1> QED
  BY <1>1, <1>2

LEMMA ExtraLeaves ==
    ASSUME NEW l \in Links, NEW t \in Threads, t \notin Pair
    PROVE  LET k == pth_event_isolate(l, Msg(t))
           IN  /\ Attached(l, t) => Kept(l, k, t) /\ Quiet(k, t)
               /\ TimedAttached(l, t) => Kept(l, k, t) /\ Timed(k, t)
<1>1. Attached(l, t) \/ TimedAttached(l, t) =>
        /\ l.next[Msg(t)][1] = t /\ l.prev[Msg(t)][1] = t
        /\ ~Alone(l, Msg(t))
  BY OwnEvents DEF Attached, TimedAttached, Linked, Alone
<1>2. Attached(l, t) => Quiet(NewRing(pth_event_free(l, Msg(t)), Msg(t)), t)
  BY OwnEvents DEF Links, Attached, Quiet, ExtrasApart, Linked, NewRing, pth_event_free
<1>3. TimedAttached(l, t) => Timed(NewRing(pth_event_free(l, Msg(t)), Msg(t)), t)
  BY OwnEvents DEF Links, TimedAttached, Timed, ExtrasApart, Linked, NewRing, pth_event_free
<1> QED
  BY <1>1, <1>2, <1>3, OwnEvents, IsolateKeeps DEF pth_event_isolate

LEMMA TimerLeaves ==
    ASSUME NEW l \in Links, NEW t \in Threads, Timed(l, t)
    PROVE  LET k == pth_event_isolate(l, Time(t)) IN Kept(l, k, t) /\ Quiet(k, t)
<1>1. /\ l.next[Time(t)][1] = t /\ l.prev[Time(t)][1] = t
      /\ ~Alone(l, Time(t))
  BY OwnEvents DEF Timed, Linked, Alone
<1>2. Quiet(NewRing(pth_event_free(l, Time(t)), Time(t)), t)
  BY OwnEvents DEF Links, Timed, Quiet, ExtrasApart, Linked, NewRing, pth_event_free
<1> QED
  BY <1>1, <1>2, OwnEvents, IsolateKeeps DEF pth_event_isolate

\* The destructor of the static events, in whichever ring they are.
Destroyed(l, t) ==
    NewRing(NewRing(pth_event_free(pth_event_free(l, Io(t)), Time(t)), Io(t)), Time(t))

LEMMA DestroyedQuiet ==
    ASSUME NEW l \in Links, NEW t \in Threads, NEW cl, Quiet(l, t) \/ Shape(l, t, cl)
    PROVE  Kept(l, Destroyed(l, t), t) /\ Quiet(Destroyed(l, t), t)
<1> DEFINE m == pth_event_free(l, Io(t))
           n == pth_event_free(m, Time(t))
<1>0. Attached(l, t) \/ Quiet(l, t) \/ Timed(l, t) \/ TimedAttached(l, t)
  BY DEF Shape
<1>1. Kept(l, m, t) /\ m \in Links
  <2>1. l.next[Io(t)][1] = t /\ l.prev[Io(t)][1] = t
    BY <1>0, OwnEvents DEF Attached, Quiet, Timed, TimedAttached, Linked
  <2> QED
    BY <2>1, OwnEvents, FreeKeeps DEF Kept
<1>2. \/ ExtrasApart(m, t) /\ Linked(m, Time(t), Time(t))
      \/ /\ Linked(m, Time(t), Msg(t)) /\ Linked(m, Msg(t), Time(t)) /\ t \notin Pair
         /\ Linked(m, Other(t), Other(t))
  <2>1. CASE Quiet(l, t)
    <3>1. ExtrasApart(m, t) /\ Linked(m, Time(t), Time(t))
      BY <2>1, OwnEvents DEF Links, Quiet, ExtrasApart, Linked, pth_event_free
    <3> QED
      BY ONLY <3>1
  <2>2. CASE Attached(l, t)
    <3>1. ExtrasApart(m, t) /\ Linked(m, Time(t), Time(t))
      BY <2>2, OwnEvents DEF Links, Attached, ExtrasApart, Linked, pth_event_free
    <3> QED
      BY ONLY <3>1
  <2>3. CASE Timed(l, t)
    <3>1. ExtrasApart(m, t) /\ Linked(m, Time(t), Time(t))
      BY <2>3, OwnEvents DEF Links, Timed, ExtrasApart, Linked, pth_event_free
    <3> QED
      BY ONLY <3>1
  <2>4. CASE TimedAttached(l, t)
    BY <2>4, OwnEvents DEF Links, TimedAttached, Linked, pth_event_free
  <2> QED
    BY <1>0, <2>1, <2>2, <2>3, <2>4
<1> HIDE DEF m
<1>3. Kept(m, n, t) /\ n \in Links
  <2>1. m.next[Time(t)][1] = t /\ m.prev[Time(t)][1] = t
    BY <1>2, OwnEvents DEF Linked
  <2> QED
    BY <1>1, <2>1, OwnEvents, FreeKeeps DEF Kept
<1>4. ExtrasApart(n, t)
  BY <1>1, <1>2, OwnEvents DEF Links, ExtrasApart, Linked, pth_event_free
<1> HIDE DEF n
<1>5. Kept(l, NewRing(NewRing(n, Io(t)), Time(t)), t)
  <2>1. Kept(n, NewRing(n, Io(t)), t) /\ NewRing(n, Io(t)) \in Links
    BY <1>3, OwnEvents, NewRingKeeps DEF Kept
  <2>2. Kept(NewRing(n, Io(t)), NewRing(NewRing(n, Io(t)), Time(t)), t)
    BY <2>1, OwnEvents, NewRingKeeps
  <2> QED
    BY <1>1, <1>3, <2>1, <2>2, KeptTwice
<1>6. Quiet(NewRing(NewRing(n, Io(t)), Time(t)), t)
  BY <1>3, <1>4, OwnEvents DEF Links, Quiet, ExtrasApart, Linked, NewRing
<1> QED
  BY <1>5, <1>6 DEF m, n, Destroyed

\* The events of one thread say nothing of those of another.
LEMMA KeptShape ==
    ASSUME NEW l \in Links, NEW k, NEW t \in Threads, NEW u \in Threads \ {t}, Kept(l, k, t)
    PROVE  /\ Quiet(k, u) <=> Quiet(l, u)
           /\ \A cl : Shape(k, u, cl) <=> Shape(l, u, cl)
<1>1. /\ k.next[Io(u)] = l.next[Io(u)] /\ k.prev[Io(u)] = l.prev[Io(u)]
      /\ k.next[Time(u)] = l.next[Time(u)] /\ k.prev[Time(u)] = l.prev[Time(u)]
      /\ k.next[Msg(u)] = l.next[Msg(u)] /\ k.prev[Msg(u)] = l.prev[Msg(u)]
      /\ k.next[Other(u)] = l.next[Other(u)] /\ k.prev[Other(u)] = l.prev[Other(u)]
  BY OwnEvents DEF Kept
<1>2. /\ Quiet(k, u) <=> Quiet(l, u)
      /\ Attached(k, u) <=> Attached(l, u)
      /\ Timed(k, u) <=> Timed(l, u)
      /\ TimedAttached(k, u) <=> TimedAttached(l, u)
  BY <1>1 DEF Quiet, Attached, Timed, TimedAttached, ExtrasApart, Linked
<1> QED
  BY <1>2 DEF Shape

-----------------------------------------------------------------------------
(*                           A walk along a ring                           *)

(* The walk is a recursive function on sets of events. The sets closed     *)
(* under ev_next give a function with its equation, so that the walk has   *)
(* that equation too; three turns of it close every ring of a thread.      *)
More(l, s) == s \cup {l.next[x] : x \in s}

LEMMA WalkUnfolds ==
    ASSUME NEW l \in Links
    PROVE  \E f : /\ \A s \in SUBSET Event : f[s] = IF More(l, s) = s THEN s ELSE f[More(l, s)]
                  /\ \A e : pth_event_walk(l, e) = f[{e}]
<1> DEFINE F(w) == [s \in SUBSET Event |->
                      IF s \cup {l.next[x] : x \in s} = s THEN s
                      ELSE w[s \cup {l.next[x] : x \in s}]]
           f == CHOOSE w : w = F(w)
           Over(s) == {C \in SUBSET Event : s \subseteq C /\ \A x \in C : l.next[x] \in C}
           g == [s \in SUBSET Event |-> {x \in Event : \A C \in Over(s) : x \in C}]
<1>1. g = F(g)
  <2>1. ASSUME NEW s \in SUBSET Event
        PROVE  g[s] = IF More(l, s) = s THEN s ELSE g[More(l, s)]
    <3>1. More(l, s) \in SUBSET Event
      BY DEF More, Links
    <3>2. CASE More(l, s) = s
      <4>1. s \in Over(s)
        BY <3>2 DEF More
      <4>2. g[s] = s
        BY <4>1
      <4> QED BY <3>2, <4>2
    <3>3. CASE More(l, s) # s
      <4>1. Over(s) = Over(More(l, s))
        BY DEF More
      <4>2. g[s] = g[More(l, s)]
        BY <3>1, <4>1
      <4> QED BY <3>3, <4>2
    <3> QED BY <3>2, <3>3
  <2>2. g = [s \in SUBSET Event |-> g[s]]
    OBVIOUS
  <2> HIDE DEF g
  <2> QED BY <2>1, <2>2 DEF More
<1>2. f = F(f)
  <2> HIDE DEF F, g
  <2> QED BY <1>1
<1>3. \A e : pth_event_walk(l, e) = f[{e}]
  BY DEF pth_event_walk
<1> HIDE DEF f
<1>4. \A s \in SUBSET Event : f[s] = IF More(l, s) = s THEN s ELSE f[More(l, s)]
  BY <1>2 DEF More
<1> QED
  BY <1>3, <1>4

LEMMA WalkAlone ==
    ASSUME NEW l \in Links, NEW a \in Event, l.next[a] = a
    PROVE  pth_event_walk(l, a) = {a}
<1>1. PICK f : /\ \A s \in SUBSET Event : f[s] = IF More(l, s) = s THEN s ELSE f[More(l, s)]
               /\ \A e : pth_event_walk(l, e) = f[{e}]
  BY WalkUnfolds
<1>2. More(l, {a}) = {a}
  BY DEF More
<1> QED
  BY <1>1, <1>2

LEMMA WalkTwo ==
    ASSUME NEW l \in Links, NEW a \in Event, NEW b \in Event, l.next[a] = b, l.next[b] = a
    PROVE  pth_event_walk(l, a) = {a, b}
<1>1. PICK f : /\ \A s \in SUBSET Event : f[s] = IF More(l, s) = s THEN s ELSE f[More(l, s)]
               /\ \A e : pth_event_walk(l, e) = f[{e}]
  BY WalkUnfolds
<1>2. More(l, {a}) = {a, b} /\ More(l, {a, b}) = {a, b}
  BY DEF More
<1>3. f[{a, b}] = {a, b}
  BY <1>1, <1>2
<1>4. f[{a}] = {a, b}
  BY <1>1, <1>2, <1>3
<1> QED
  BY <1>1, <1>4

LEMMA WalkThree ==
    ASSUME NEW l \in Links, NEW a \in Event, NEW b \in Event, NEW c \in Event,
           l.next[a] = b, l.next[b] = c, l.next[c] = a
    PROVE  pth_event_walk(l, a) = {a, b, c}
<1>1. PICK f : /\ \A s \in SUBSET Event : f[s] = IF More(l, s) = s THEN s ELSE f[More(l, s)]
               /\ \A e : pth_event_walk(l, e) = f[{e}]
  BY WalkUnfolds
<1>2. /\ More(l, {a}) = {a, b} /\ More(l, {a, b}) = {a, b, c}
      /\ More(l, {a, b, c}) = {a, b, c}
  BY DEF More
<1>3. f[{a, b, c}] = {a, b, c}
  BY <1>1, <1>2
<1>4. f[{a, b}] = {a, b, c}
  BY <1>1, <1>2, <1>3
<1>5. f[{a}] = {a, b, c}
  <2>1. CASE {a, b} = {a}
    BY <1>4, <2>1
  <2>2. CASE {a, b} # {a}
    <3>1. f[{a}] = f[More(l, {a})]
      BY <1>1, <1>2, <2>2
    <3> QED BY <1>2, <1>4, <3>1
  <2> QED BY <2>1, <2>2
<1> QED
  BY <1>1, <1>5

\* What pth_wait and the event manager meet on the ring of a call.
LEMMA CallRing ==
    ASSUME NEW l \in Links, NEW t \in Threads, NEW cl, Shape(l, t, cl)
    PROVE  /\ Io(t) \in pth_event_walk(l, Io(t))
           /\ \A e \in pth_event_walk(l, Io(t)) : e \in Event /\ e[1] = t
           /\ ~cl.extra /\ ~cl.timed => pth_event_walk(l, Io(t)) = {Io(t)}
<1>1. CASE Quiet(l, t)
  <2>1. pth_event_walk(l, Io(t)) = {Io(t)}
    BY <1>1, OwnEvents, WalkAlone DEF Quiet, Linked
  <2> QED BY <2>1, OwnEvents
<1>2. CASE Attached(l, t) /\ cl.extra
  <2>1. CASE t \in Pair
    <3>1. pth_event_walk(l, Io(t)) = {Io(t), Msg(t), Other(t)}
      BY <1>2, <2>1, OwnEvents, WalkThree DEF Attached, Linked
    <3> QED BY <1>2, <3>1, OwnEvents
  <2>2. CASE t \notin Pair
    <3>1. pth_event_walk(l, Io(t)) = {Io(t), Msg(t)}
      BY <1>2, <2>2, OwnEvents, WalkTwo DEF Attached, Linked
    <3> QED BY <1>2, <3>1, OwnEvents
  <2> QED BY <2>1, <2>2
<1>3. CASE Timed(l, t) /\ cl.timed
  <2>1. pth_event_walk(l, Io(t)) = {Io(t), Time(t)}
    BY <1>3, OwnEvents, WalkTwo DEF Timed, Linked
  <2> QED BY <1>3, <2>1, OwnEvents
<1>4. CASE TimedAttached(l, t) /\ cl.timed
  <2>1. pth_event_walk(l, Io(t)) = {Io(t), Msg(t), Time(t)}
    BY <1>4, OwnEvents, WalkThree DEF TimedAttached, Linked
  <2> QED BY <1>4, <2>1, OwnEvents
<1> QED
  BY <1>1, <1>2, <1>3, <1>4 DEF Shape

-----------------------------------------------------------------------------
(*                          Vectors that are written                       *)

LEMMA Steps ==
    ASSUME NEW S, 0 \in S, \A n \in Nat : n \in S => n + 1 \in S
    PROVE  Nat \subseteq S
<1> DEFINE Less == {ss \in Nat \X Nat : ss[1] < ss[2]}
           T == {n \in Nat : n \notin S}
<1> SUFFICES ASSUME T # {} PROVE FALSE
  OBVIOUS
<1>1. IsWellFoundedOn(Less, Nat)
  BY NatLessThanWellFounded, Zenon DEF OpToRel
<1>2. PICK m \in T : \A n \in T : <<n, m>> \notin Less
  <2>1. T \subseteq Nat
    OBVIOUS
  <2> HIDE DEF Less, T
  <2> QED BY <1>1, <2>1, WFMin
<1>3. \A n \in T : ~(n < m)
  <2>1. \A n \in T : <<n, m>> \in Nat \X Nat /\ <<n, m>>[1] = n /\ <<n, m>>[2] = m
    OBVIOUS
  <2> QED BY <1>2, <2>1
<1>4. m # 0 /\ m - 1 \in Nat /\ m - 1 \notin T
  BY <1>3
<1> QED
  BY <1>4

\* The sums of the first lengths of a vector.
SumsOf(v, n, f) == f[0] = 0 /\ \A k \in 1 .. n : f[k] = f[k - 1] + v[k]

LEMMA BytesIs ==
    ASSUME NEW v \in Seq(Nat)
    PROVE  Bytes(v) \in [0 .. Len(v) -> Nat] /\ SumsOf(v, Len(v), Bytes(v))
<1> DEFINE S == {n \in Nat : n <= Len(v) => \E f \in [0 .. n -> Nat] : SumsOf(v, n, f)}
<1>1. 0 \in S
  <2>1. [i \in 0 .. 0 |-> 0] \in [0 .. 0 -> Nat] /\ SumsOf(v, 0, [i \in 0 .. 0 |-> 0])
    BY DEF SumsOf
  <2> QED BY <2>1
<1>2. ASSUME NEW n \in Nat, n \in S PROVE n + 1 \in S
  <2> SUFFICES ASSUME n + 1 <= Len(v)
               PROVE  \E f \in [0 .. n + 1 -> Nat] : SumsOf(v, n + 1, f)
    OBVIOUS
  <2>1. PICK f \in [0 .. n -> Nat] : SumsOf(v, n, f)
    BY <1>2
  <2> DEFINE g == [k \in 0 .. n + 1 |-> IF k = n + 1 THEN f[n] + v[n + 1] ELSE f[k]]
  <2>2. v[n + 1] \in Nat /\ f[n] \in Nat
    OBVIOUS
  <2>3. g \in [0 .. n + 1 -> Nat]
    BY <2>2
  <2>4. SumsOf(v, n + 1, g)
    BY <2>1, <2>2 DEF SumsOf
  <2> QED BY <2>3, <2>4
<1>3. Nat \subseteq S
  <2> HIDE DEF S
  <2> QED BY <1>1, <1>2, Steps
<1>4. PICK f \in [0 .. Len(v) -> Nat] : SumsOf(v, Len(v), f)
  BY <1>3
<1> DEFINE F(w) == [k \in 0 .. Len(v) |-> IF k = 0 THEN 0 ELSE w[k - 1] + v[k]]
           b == CHOOSE w : w = F(w)
<1>5. f = F(f)
  <2>1. \A k \in 0 .. Len(v) : f[k] = IF k = 0 THEN 0 ELSE f[k - 1] + v[k]
    BY <1>4 DEF SumsOf
  <2>2. f = [k \in 0 .. Len(v) |-> f[k]]
    OBVIOUS
  <2> QED BY <2>1, <2>2
<1>6. b = F(b)
  <2> HIDE DEF F
  <2> QED BY <1>5
<1>7. Bytes(v) = b
  BY DEF Bytes
<1> HIDE DEF b
<1>8. DOMAIN b = 0 .. Len(v) /\ \A k \in 0 .. Len(v) : b[k] = IF k = 0 THEN 0 ELSE b[k - 1] + v[k]
  BY <1>6
<1>9. SumsOf(v, Len(v), b)
  BY <1>8 DEF SumsOf
<1> DEFINE T == {k \in Nat : k <= Len(v) => b[k] = f[k]}
<1>10. Nat \subseteq T
  <2>1. 0 \in T
    BY <1>4, <1>9 DEF SumsOf
  <2>2. ASSUME NEW k \in Nat, k \in T PROVE k + 1 \in T
    <3> SUFFICES ASSUME k + 1 <= Len(v) PROVE b[k + 1] = f[k + 1]
      OBVIOUS
    <3>1. b[k + 1] = b[(k + 1) - 1] + v[k + 1] /\ f[k + 1] = f[(k + 1) - 1] + v[k + 1]
      BY <1>4, <1>9 DEF SumsOf
    <3> QED BY <2>2, <3>1
  <2> HIDE DEF T
  <2> QED BY <2>1, <2>2, Steps
<1>11. b \in [0 .. Len(v) -> Nat]
  <2>1. \A k \in 0 .. Len(v) : b[k] \in Nat
    BY <1>10
  <2>2. b = [k \in 0 .. Len(v) |-> b[k]]
    BY <1>6
  <2> QED BY <2>1, <2>2
<1> QED
  BY <1>7, <1>9, <1>11

\* Where the vector is cut: what is before is written, what follows is not.
LEMMA LeavingIs ==
    ASSUME NEW v \in Seq(Nat), NEW a \in Nat
    PROVE  /\ Leaving(v, a) \in 0 .. Len(v)
           /\ Bytes(v)[Leaving(v, a)] <= a
           /\ Leaving(v, a) < Len(v) => Bytes(v)[Leaving(v, a) + 1] >= a
<1> DEFINE Leaves(i) == Bytes(v)[i - 1] < a /\ Bytes(v)[i] <= a
           Is(k) == (\A i \in 1 .. k : Leaves(i)) /\ (k = Len(v) \/ ~Leaves(k + 1))
           S == {n \in Nat : n <= Len(v) => \/ \E k \in 0 .. Len(v) : Is(k)
                                            \/ \A i \in 1 .. n : Leaves(i)}
           j == Leaving(v, a)
<1>0. Bytes(v) \in [0 .. Len(v) -> Nat] /\ SumsOf(v, Len(v), Bytes(v)) /\ Len(v) \in Nat
  BY BytesIs
<1>1. \E k \in 0 .. Len(v) : Is(k)
  <2>1. 0 \in S
    OBVIOUS
  <2>2. ASSUME NEW n \in Nat, n \in S PROVE n + 1 \in S
    <3> HIDE DEF Leaves
    <3>1. CASE \E k \in 0 .. Len(v) : Is(k)
      BY <3>1
    <3>2. CASE n + 1 <= Len(v) /\ \A i \in 1 .. n : Leaves(i)
      <4>1. CASE Leaves(n + 1)
        BY <3>2, <4>1
      <4>2. CASE ~Leaves(n + 1)
        <5>1. Is(n) /\ n \in 0 .. Len(v)
          BY <1>0, <3>2, <4>2
        <5> QED BY <5>1
      <4> QED BY <4>1, <4>2
    <3> QED BY <1>0, <2>2, <3>1, <3>2
  <2>3. Nat \subseteq S
    <3> HIDE DEF S
    <3> QED BY <2>1, <2>2, Steps
  <2>4. \/ \E k \in 0 .. Len(v) : Is(k)
        \/ \A i \in 1 .. Len(v) : Leaves(i)
    BY <1>0, <2>3
  <2> HIDE DEF Leaves
  <2> QED BY <1>0, <2>4
<1>2. j = CHOOSE k \in 0 .. Len(v) : Is(k)
  BY DEF Leaving
<1>3. j \in 0 .. Len(v) /\ Is(j)
  <2> HIDE DEF Is, j
  <2> QED BY <1>1, <1>2
<1> HIDE DEF j
<1>4. Bytes(v)[j] <= a
  <2>1. CASE j = 0
    BY <1>0, <2>1 DEF SumsOf
  <2>2. CASE j # 0
    <3>1. j \in 1 .. j
      BY <1>3, <2>2
    <3> QED BY <1>3, <3>1
  <2> QED BY <2>1, <2>2
<1>5. ASSUME j < Len(v) PROVE Bytes(v)[j + 1] >= a
  <2>1. j + 1 \in 1 .. Len(v) /\ (j + 1) - 1 = j /\ v[j + 1] \in Nat
    BY <1>3, <1>5
  <2>2. Bytes(v)[j + 1] = Bytes(v)[j] + v[j + 1] /\ Bytes(v)[j] \in Nat
    BY <1>0, <2>1 DEF SumsOf
  <2>3. ~(Bytes(v)[j] < a /\ Bytes(v)[j + 1] <= a)
    BY <1>3, <1>5, <2>1
  <2> QED BY <2>1, <2>2, <2>3
<1> QED
  BY <1>3, <1>4, <1>5 DEF j

(* A vector that is advanced has lost exactly what was written of it, at   *)
(* whichever segment the write has stopped.                                *)
LEMMA AdvanceCounts ==
    ASSUME NEW v \in Seq(Nat), NEW a \in Nat, a <= pth_writev_iov_bytes(v)
    PROVE  /\ pth_writev_iov_advance(v, a) \in Seq(Nat)
           /\ pth_writev_iov_bytes(pth_writev_iov_advance(v, a)) = pth_writev_iov_bytes(v) - a
<1> DEFINE n == Len(v)
           B == Bytes(v)
           k == Leaving(v, a)
           w == pth_writev_iov_advance(v, a)
<1>0. B \in [0 .. n -> Nat] /\ SumsOf(v, n, B) /\ n \in Nat
  BY BytesIs
<1>1. /\ k \in 0 .. n /\ B[k] <= a
      /\ k < n => B[k + 1] >= a
  BY LeavingIs
<1>2. a <= B[n]
  BY DEF pth_writev_iov_bytes
<1>3. w = IF k = n THEN <<>> ELSE <<v[k + 1] - (a - B[k])>> \o SubSeq(v, k + 2, n)
  BY DEF pth_writev_iov_advance
<1> HIDE DEF k, B, n, w
<1>4. CASE k = n
  <2>1. w = <<>>
    BY <1>3, <1>4
  <2>2. w \in Seq(Nat) /\ Len(w) = 0
    BY <2>1
  <2>3. Bytes(w)[0] = 0
    BY <2>2, BytesIs DEF SumsOf
  <2>4. pth_writev_iov_bytes(w) = 0
    BY <2>2, <2>3 DEF pth_writev_iov_bytes
  <2>5. B[n] = a
    BY <1>0, <1>1, <1>2, <1>4
  <2> QED BY <2>2, <2>4, <2>5 DEF pth_writev_iov_bytes, w, B, n
<1>5. CASE k # n
  <2> DEFINE x == v[k + 1] - (a - B[k])
  <2>1. k + 1 \in 1 .. n /\ k \in 0 .. n /\ (k + 1) - 1 = k /\ k < n
    BY <1>0, <1>1, <1>5
  <2>2. v[k + 1] \in Nat /\ B[k] \in Nat /\ B[k + 1] = B[k] + v[k + 1]
    <3>1. v[k + 1] \in Nat
      BY <2>1 DEF n
    <3>2. B[k + 1] = B[(k + 1) - 1] + v[k + 1]
      BY <1>0, <2>1 DEF SumsOf
    <3> QED BY <1>0, <2>1, <3>1, <3>2
  <2>3. x = B[k + 1] - a /\ x \in Nat
    BY <1>1, <2>1, <2>2
  <2> HIDE DEF x
  <2>4. w = <<x>> \o SubSeq(v, k + 2, n)
    BY <1>3, <1>5 DEF x
  <2>5. /\ SubSeq(v, k + 2, n) \in Seq(Nat)
        /\ Len(SubSeq(v, k + 2, n)) = n - k - 1
        /\ \A i \in 1 .. n - k - 1 : SubSeq(v, k + 2, n)[i] = v[k + 1 + i]
    <3>1. k + 2 \in Int /\ n \in Int
      BY <1>0, <1>1
    <3> QED BY <2>1, <3>1 DEF n
  <2>6. w \in Seq(Nat) /\ Len(w) = n - k /\ w[1] = x
    BY <1>0, <2>1, <2>3, <2>4, <2>5
  <2>7. \A i \in 2 .. n - k : w[i] = v[k + i]
    <3> SUFFICES ASSUME NEW i \in 2 .. n - k PROVE w[i] = v[k + i]
      OBVIOUS
    <3>1. i - 1 \in 1 .. n - k - 1 /\ k + 1 + (i - 1) = k + i
      BY <1>0, <2>1
    <3>2. w[i] = SubSeq(v, k + 2, n)[i - 1]
      BY <1>0, <2>1, <2>3, <2>4, <2>5, <3>1
    <3> QED BY <2>5, <3>1, <3>2
  <2> DEFINE W == Bytes(w)
             S == {i \in Nat : i + 1 <= n - k => W[i + 1] = B[k + i + 1] - a}
  <2>8. W \in [0 .. n - k -> Nat] /\ SumsOf(w, n - k, W)
    BY <2>6, BytesIs
  <2> HIDE DEF W
  <2>9. 0 \in S
    <3>1. 1 \in 1 .. n - k /\ 1 - 1 = 0
      BY <1>0, <2>1
    <3>2. W[1] = W[0] + w[1] /\ W[0] = 0
      BY <2>8, <3>1 DEF SumsOf
    <3>3. W[1] = x
      BY <2>3, <2>6, <3>2
    <3>4. 0 + 1 = 1 /\ k + 0 + 1 = k + 1
      BY <2>1
    <3>5. W[0 + 1] = B[k + 0 + 1] - a
      BY <2>3, <3>3, <3>4
    <3> QED BY <3>5
  <2>10. ASSUME NEW i \in Nat, i \in S PROVE i + 1 \in S
    <3> SUFFICES ASSUME (i + 1) + 1 <= n - k
                 PROVE  W[(i + 1) + 1] = B[k + (i + 1) + 1] - a
      OBVIOUS
    <3>1. /\ i + 2 \in 1 .. n - k /\ i + 2 \in 2 .. n - k /\ (i + 2) - 1 = i + 1
          /\ k + i + 2 \in 1 .. n /\ (k + i + 2) - 1 = k + i + 1 /\ k + i + 1 \in 0 .. n
      BY <1>0, <2>1
    <3>2. W[i + 2] = W[i + 1] + w[i + 2]
      BY <2>8, <3>1 DEF SumsOf
    <3>3. B[k + i + 2] = B[k + i + 1] + v[k + i + 2]
      BY <1>0, <3>1 DEF SumsOf
    <3>4. w[i + 2] = v[k + i + 2]
      <4>1. w[i + 2] = v[k + (i + 2)] /\ k + (i + 2) = k + i + 2
        BY <2>1, <2>7, <3>1
      <4> QED BY <4>1
    <3>5. W[i + 1] = B[k + i + 1] - a
      BY <1>0, <2>1, <2>10
    <3>6. B[k + i + 1] \in Nat /\ v[k + i + 2] \in Nat
      BY <1>0, <3>1 DEF n
    <3>7. W[i + 2] = B[k + i + 2] - a
      BY <3>2, <3>3, <3>4, <3>5, <3>6
    <3>8. (i + 1) + 1 = i + 2 /\ k + (i + 1) + 1 = k + i + 2
      BY <2>1
    <3> QED BY <3>7, <3>8
  <2>11. Nat \subseteq S
    <3> HIDE DEF S
    <3> QED BY <2>9, <2>10, Steps
  <2>12. n - k - 1 \in Nat /\ (n - k - 1) + 1 = n - k /\ k + (n - k - 1) + 1 = n
    BY <1>0, <2>1
  <2>13. W[n - k] = B[n] - a
    BY <2>11, <2>12
  <2> QED BY <2>6, <2>13 DEF pth_writev_iov_bytes, w, B, n, W
<1> QED
  BY <1>4, <1>5

-----------------------------------------------------------------------------
(*                             The invariant                               *)

TypeOK ==
    /\ pth_current \in Threads \cup {NULL}
    /\ state \in [Threads -> {"ready", "waiting", "dead"}]
    /\ events \in [Threads -> Event \cup {NULL}]
    /\ cancelreq \in [Threads -> BOOLEAN]
    /\ cancelstate \in [Threads -> {"deferred", "async", "disabled"}]
    /\ links \in Links
    /\ status \in [Event -> {"PENDING", "OCCURRED", "FAILED"}]
    /\ call \in [Threads -> Calls \cup {NULL}]

FilesOK ==
    /\ open \in [Fds -> BOOLEAN]
    /\ mode \in [Fds -> {"BLOCK", "NONBLOCK"}]
    /\ in \in [Fds -> Nat] /\ out \in [Fds -> Nat]
    /\ taker \in [Fds -> Threads \cup {NULL}]

\* A call that waits, and one that blocks the process.
WaitsIn(t, cl) ==
    /\ cl.op # "blocked"
    /\ <<cl.op, cl.fd>> \in Does[t]
    /\ cl.op \in {"write", "accept"} => cl.old = "BLOCK"

(* Where a thread is in its call, and how its events are linked then.      *)
Places ==
    \A t \in Threads :
        /\ events[t] # NULL => /\ events[t] = Io(t) /\ call[t] # NULL
                               /\ call[t].op # "blocked"
                               /\ Shape(links, t, call[t])
        /\ events[t] = NULL => Quiet(links, t) /\ state[t] # "waiting"
        /\ pth_current = t => state[t] = "ready"
        /\ call[t] # NULL => \/ WaitsIn(t, call[t])
                             \/ call[t].op = "blocked" /\ pth_current = t /\ events[t] = NULL

(* A failure stays until the next wait. A read that has no other event is  *)
(* woken by its descriptor, and what was there then is there still, unless *)
(* another thread took it, or by a request of cancellation.                *)
Failing == \A t \in Threads : status[Io(t)] = "FAILED" => call[t] # NULL /\ ~open[call[t].fd]

Woken ==
    \A t \in Threads :
        events[t] # NULL /\ call[t].op = "read" =>
            \/ state[t] # "ready" \/ cancelreq[t] \/ call[t].extra
            \/ status[Io(t)] # "PENDING"

Left(t) == in[call[t].fd] > 0 \/ taker[call[t].fd] \notin {NULL, t}

\* Woken by a request it does not heed, without a second look at its event.
Excused(c, cl) == cancelreq[c] /\ cancelstate[c] = "disabled" /\ ~cl.extra

Met ==
    \A t \in Threads :
        /\ events[t] # NULL /\ call[t].op = "read" /\ status[Io(t)] = "OCCURRED" => Left(t)
        /\ call[t] # NULL /\ call[t].op = "blocked" => Left(t) \/ Excused(t, call[t])

\* A call that changed the mode of a descriptor.
Owns(cl, f) == cl # NULL /\ cl.fd = f /\ cl.op \in {"write", "accept"} /\ cl.old = "BLOCK"

Modes ==
    \A f \in Fds : open[f] =>
        /\ mode[f] = "NONBLOCK" <=> \E t \in Threads : Owns(call[t], f)
        /\ \A t, u \in Threads : Owns(call[t], f) /\ Owns(call[u], f) => t = u

IOInv ==
    TypeOK /\ FilesOK /\ Places /\ Failing /\ Woken /\ Met /\ Modes /\ PartialWritesCounted

-----------------------------------------------------------------------------
(*                     What a step of a call may change                    *)

(* The current thread ends its call (or has not even waited), waits in it, *)
(* or blocks the process.                                                  *)
Ends(c) ==
    /\ call' = [call EXCEPT ![c] = NULL]
    /\ events' = [events EXCEPT ![c] = NULL]
    /\ status' = [e \in Event |-> IF e[1] = c THEN "PENDING" ELSE status[e]]
    /\ UNCHANGED <<pth_current, state, cancelreq, cancelstate>>
    /\ Kept(links, links', c) /\ Quiet(links', c)

WaitsWith(c, cl) ==
    /\ cl \in Calls /\ WaitsIn(c, cl)
    /\ call' = [call EXCEPT ![c] = cl]
    /\ \E l : pth_wait(c, Io(c), l) /\ Kept(links, l, c) /\ Shape(l, c, cl)

BlocksWith(c, cl) ==
    /\ cl \in Calls /\ cl.op = "blocked"
    /\ call' = [call EXCEPT ![c] = cl]
    /\ events' = [events EXCEPT ![c] = NULL]
    /\ UNCHANGED <<pth_current, state, cancelreq, cancelstate, status, in, taker>>
    /\ Kept(links, links', c) /\ Quiet(links', c)
    /\ status[Io(c)] = "FAILED" => ~open[cl.fd]
    /\ in[cl.fd] > 0 \/ taker[cl.fd] \notin {NULL, c} \/ Excused(c, cl)

\* What was there to read is there, or c took it.
Takes1(c) ==
    \A f \in Fds : \/ in'[f] = in[f] /\ taker'[f] = taker[f]
                   \/ in'[f] > 0
                   \/ taker'[f] = c
                   \/ \E u \in Threads : <<"accept", f>> \in Does[u]

\* A mode changes together with the call that has it changed.
ModesBy(c) ==
    \A f \in Fds : open[f] =>
        \/ mode'[f] = mode[f] /\ (Owns(call'[c], f) <=> Owns(call[c], f))
        \/ mode[f] = "BLOCK" /\ mode'[f] = "NONBLOCK" /\ ~Owns(call[c], f) /\ Owns(call'[c], f)
        \/ mode'[f] = "BLOCK" /\ Owns(call[c], f) /\ ~Owns(call'[c], f)

Counted(c) ==
    /\ ret' # NULL =>
          IF ret'.rv = -1 THEN ret'.wrote = 0 \/ ret'.err = "EINTR" ELSE ret'.rv = ret'.wrote
    /\ call'[c] # NULL /\ call'[c].op = "write" =>
          call'[c].left = pth_writev_iov_bytes(call'[c].iov)

CallStep(c) ==
    /\ pth_current = c
    /\ Ends(c) \/ (\E cl : WaitsWith(c, cl)) \/ (\E cl : BlocksWith(c, cl))
    /\ open' = open /\ FilesOK' /\ Takes1(c) /\ ModesBy(c) /\ Counted(c)

\* The part of each thread that is not the one of the step.
LEMMA OthersKeep ==
    ASSUME NEW c \in Threads, NEW u \in Threads \ {c}, TypeOK, Kept(links, links', c)
    PROVE  /\ Quiet(links', u) <=> Quiet(links, u)
           /\ Shape(links', u, call[u]) <=> Shape(links, u, call[u])
BY KeptShape DEF TypeOK

LEMMA ModesKept ==
    ASSUME NEW c \in Threads, IOInv, ModesBy(c), open' = open,
           \A u \in Threads : u # c => call'[u] = call[u]
    PROVE  Modes'
<1> SUFFICES ASSUME NEW f \in Fds, open[f]
             PROVE  /\ mode'[f] = "NONBLOCK" <=> \E t \in Threads : Owns(call'[t], f)
                    /\ \A t, u \in Threads : Owns(call'[t], f) /\ Owns(call'[u], f) => t = u
  <2>1. Modes' <=> \A f \in Fds : open'[f] =>
                     /\ mode'[f] = "NONBLOCK" <=> \E t \in Threads : Owns(call'[t], f)
                     /\ \A t, u \in Threads : Owns(call'[t], f) /\ Owns(call'[u], f) => t = u
    BY DEF Modes, Owns
  <2> QED BY <2>1
<1>1. /\ mode[f] = "NONBLOCK" <=> \E t \in Threads : Owns(call[t], f)
      /\ \A t, u \in Threads : Owns(call[t], f) /\ Owns(call[u], f) => t = u
  BY DEF IOInv, Modes
<1>2. \A u \in Threads \ {c} : Owns(call'[u], f) <=> Owns(call[u], f)
  OBVIOUS
<1>3. \/ mode'[f] = mode[f] /\ (Owns(call'[c], f) <=> Owns(call[c], f))
      \/ mode[f] = "BLOCK" /\ mode'[f] = "NONBLOCK" /\ ~Owns(call[c], f) /\ Owns(call'[c], f)
      \/ mode'[f] = "BLOCK" /\ Owns(call[c], f) /\ ~Owns(call'[c], f)
  BY DEF ModesBy
<1> QED
  BY <1>1, <1>2, <1>3, "BLOCK" # "NONBLOCK"

LEMMA CountsKept ==
    ASSUME NEW c \in Threads, IOInv, Counted(c),
           \A u \in Threads : u # c => call'[u] = call[u]
    PROVE  PartialWritesCounted'
<1>1. \A t \in Threads : call'[t] # NULL /\ call'[t].op = "write" =>
          call'[t].left = pth_writev_iov_bytes(call'[t].iov)
  BY DEF IOInv, PartialWritesCounted, Counted
<1> QED
  BY <1>1 DEF Counted, PartialWritesCounted

\* What a thread is woken for only another one takes.
LEMMA LeftStays ==
    ASSUME NEW c \in Threads, NEW u \in Threads \ {c}, TypeOK, FilesOK, FilesOK', Takes1(c),
           call[u] # NULL, WaitsIn(u, call[u]), call[u].op = "read", call'[u] = call[u], Left(u)
    PROVE  Left(u)'
<1> DEFINE f == call[u].fd
<1>1. f \in Fds
  BY DEF TypeOK, Calls
<1>2. \A v \in Threads : <<"accept", f>> \notin Does[v]
  BY <1>1, IOAssumption DEF WaitsIn
<1>3. \/ in'[f] = in[f] /\ taker'[f] = taker[f]
      \/ in'[f] > 0
      \/ taker'[f] = c
  BY <1>1, <1>2 DEF Takes1
<1>4. c # NULL /\ c # u
  BY IOAssumption
<1> QED
  BY <1>3, <1>4 DEF Left

LEMMA EndsKeeps ==
    ASSUME NEW c \in Threads, IOInv, pth_current = c, Ends(c), open' = open, FilesOK', Takes1(c)
    PROVE  TypeOK' /\ Places' /\ Failing' /\ Woken' /\ Met'
<1> USE DEF IOInv
<1>1. TypeOK'
  BY DEF TypeOK, Ends, Kept
<1>2. /\ call'[c] = NULL /\ events'[c] = NULL /\ Quiet(links', c) /\ state'[c] = "ready"
      /\ status'[Io(c)] = "PENDING"
  BY OwnEvents DEF TypeOK, Ends, Places
<1>3. ASSUME NEW u \in Threads \ {c}
      PROVE  /\ call'[u] = call[u] /\ events'[u] = events[u] /\ state'[u] = state[u]
             /\ cancelreq'[u] = cancelreq[u] /\ status'[Io(u)] = status[Io(u)]
             /\ Quiet(links', u) <=> Quiet(links, u)
             /\ Shape(links', u, call[u]) <=> Shape(links, u, call[u])
             /\ pth_current' = c
  BY OwnEvents, OthersKeep DEF TypeOK, Ends
<1>4. Places'
  BY <1>2, <1>3 DEF Places, WaitsIn
<1>5. Failing'
  BY <1>2, <1>3 DEF Failing
<1>6. Woken'
  BY <1>2, <1>3 DEF Woken
<1>7. Met'
  <2>1. ASSUME NEW u \in Threads, events'[u] # NULL, call'[u].op = "read",
               status'[Io(u)] = "OCCURRED"
        PROVE  Left(u)'
    <3>1. u \in Threads \ {c}
      BY <1>2, <2>1
    <3>2. call[u] # NULL /\ WaitsIn(u, call[u]) /\ call[u].op = "read" /\ Left(u)
      BY <1>3, <2>1, <3>1 DEF Places, Met
    <3> QED BY <1>3, <3>1, <3>2, LeftStays
  <2>2. ASSUME NEW u \in Threads, call'[u] # NULL, call'[u].op = "blocked" PROVE FALSE
    BY <1>2, <1>3, <2>2 DEF Places, WaitsIn
  <2> QED BY <2>1, <2>2 DEF Met
<1> QED
  BY <1>1, <1>4, <1>5, <1>6, <1>7

LEMMA WaitsKeeps ==
    ASSUME NEW c \in Threads, NEW cl, IOInv, pth_current = c, WaitsWith(c, cl),
           open' = open, FilesOK', Takes1(c)
    PROVE  TypeOK' /\ Places' /\ Failing' /\ Woken' /\ Met'
<1> USE DEF IOInv
<1>0. PICK l : pth_wait(c, Io(c), l) /\ Kept(links, l, c) /\ Shape(l, c, cl)
  BY DEF WaitsWith
<1> DEFINE ring == pth_event_walk(l, Io(c))
<1>1. /\ Io(c) \in ring /\ \A e \in ring : e \in Event /\ e[1] = c
      /\ l \in Links /\ links' = l
  BY <1>0, CallRing DEF Kept, pth_wait
<1>2. /\ status' = [x \in Event |-> IF x \in ring THEN "PENDING" ELSE status[x]]
      /\ events' = [events EXCEPT ![c] = Io(c)]
      /\ state' = [state EXCEPT ![c] = "waiting"]
      /\ pth_current' = NULL /\ cancelreq' = cancelreq /\ cancelstate' = cancelstate
      /\ call' = [call EXCEPT ![c] = cl] /\ cl \in Calls
  BY <1>0 DEF pth_wait, cancel, WaitsWith
<1> HIDE DEF ring
<1>3. TypeOK'
  BY <1>1, <1>2, OwnEvents DEF TypeOK
<1>4. /\ call'[c] = cl /\ cl # NULL /\ cl.op # "blocked" /\ events'[c] = Io(c) /\ Io(c) # NULL
      /\ Shape(links', c, cl) /\ state'[c] = "waiting" /\ status'[Io(c)] = "PENDING"
      /\ WaitsIn(c, cl)
  BY <1>0, <1>1, <1>2, OwnEvents, IOAssumption DEF TypeOK, WaitsWith, WaitsIn
<1>5. ASSUME NEW u \in Threads \ {c}
      PROVE  /\ call'[u] = call[u] /\ events'[u] = events[u] /\ state'[u] = state[u]
             /\ cancelreq'[u] = cancelreq[u] /\ status'[Io(u)] = status[Io(u)]
             /\ Quiet(links', u) <=> Quiet(links, u)
             /\ Shape(links', u, call[u]) <=> Shape(links, u, call[u])
             /\ ~(call[u] # NULL /\ call[u].op = "blocked")
  <2>1. Io(u) \notin ring
    BY <1>1, OwnEvents
  <2>2. status'[Io(u)] = status[Io(u)]
    BY <1>2, <2>1, OwnEvents
  <2>3. /\ Quiet(links', u) <=> Quiet(links, u)
        /\ Shape(links', u, call[u]) <=> Shape(links, u, call[u])
    BY <1>0, <1>1, OthersKeep
  <2>4. ~(call[u] # NULL /\ call[u].op = "blocked")
    BY DEF Places, WaitsIn
  <2> QED BY <1>2, <2>2, <2>3, <2>4 DEF TypeOK
<1>6. pth_current' \notin Threads
  BY <1>2, IOAssumption
<1>7. Places'
  BY <1>4, <1>5, <1>6 DEF Places, WaitsIn
<1>8. Failing'
  BY <1>4, <1>5 DEF Failing
<1>9. Woken'
  BY <1>4, <1>5 DEF Woken
<1>10. Met'
  <2>1. ASSUME NEW u \in Threads, events'[u] # NULL, call'[u].op = "read",
               status'[Io(u)] = "OCCURRED"
        PROVE  Left(u)'
    <3>1. u \in Threads \ {c}
      BY <1>4, <2>1
    <3>2. call[u] # NULL /\ WaitsIn(u, call[u]) /\ call[u].op = "read" /\ Left(u)
      BY <1>5, <2>1, <3>1 DEF Places, Met
    <3> QED BY <1>5, <3>1, <3>2, LeftStays
  <2>2. ASSUME NEW u \in Threads, call'[u] # NULL, call'[u].op = "blocked" PROVE FALSE
    BY <1>4, <1>5, <2>2
  <2> QED BY <2>1, <2>2 DEF Met
<1> QED
  BY <1>3, <1>7, <1>8, <1>9, <1>10

LEMMA BlocksKeeps ==
    ASSUME NEW c \in Threads, NEW cl, IOInv, pth_current = c, BlocksWith(c, cl),
           open' = open, FilesOK', Takes1(c)
    PROVE  TypeOK' /\ Places' /\ Failing' /\ Woken' /\ Met'
<1> USE DEF IOInv
<1>1. TypeOK'
  BY DEF TypeOK, BlocksWith, Kept
<1>2. /\ call'[c] = cl /\ cl # NULL /\ cl.op = "blocked" /\ events'[c] = NULL
      /\ Quiet(links', c) /\ state'[c] = "ready" /\ status' = status
      /\ status[Io(c)] = "FAILED" => ~open[cl.fd]
      /\ in'[cl.fd] > 0 \/ taker'[cl.fd] \notin {NULL, c} \/ Excused(c, cl)'
      /\ pth_current' = c
  BY IOAssumption DEF TypeOK, BlocksWith, Places, Excused
<1>3. ASSUME NEW u \in Threads \ {c}
      PROVE  /\ call'[u] = call[u] /\ events'[u] = events[u] /\ state'[u] = state[u]
             /\ cancelreq'[u] = cancelreq[u]
             /\ Quiet(links', u) <=> Quiet(links, u)
             /\ Shape(links', u, call[u]) <=> Shape(links, u, call[u])
  BY OthersKeep DEF TypeOK, BlocksWith
<1>4. Places'
  BY <1>2, <1>3 DEF Places, WaitsIn
<1>5. Failing'
  BY <1>2, <1>3 DEF Failing
<1>6. Woken'
  BY <1>2, <1>3 DEF Woken
<1>7. Met'
  <2>1. ASSUME NEW u \in Threads, events'[u] # NULL, call'[u].op = "read",
               status'[Io(u)] = "OCCURRED"
        PROVE  Left(u)'
    <3>1. u \in Threads \ {c}
      BY <1>2, <2>1
    <3>2. call[u] # NULL /\ WaitsIn(u, call[u]) /\ call[u].op = "read" /\ Left(u)
      BY <1>2, <1>3, <2>1, <3>1 DEF Places, Met
    <3> QED BY <1>3, <3>1, <3>2, LeftStays
  <2>2. ASSUME NEW u \in Threads, call'[u] # NULL, call'[u].op = "blocked"
        PROVE  Left(u)' \/ Excused(u, call[u])'
    <3>1. CASE u = c
      BY <1>2, <3>1 DEF Left, Excused
    <3>2. CASE u # c
      BY <1>3, <2>2, <3>2 DEF Places, WaitsIn
    <3> QED BY <3>1, <3>2
  <2> QED BY <2>1, <2>2 DEF Met
<1> QED
  BY <1>1, <1>4, <1>5, <1>6, <1>7

LEMMA CallStepKeeps ==
    ASSUME NEW c \in Threads, IOInv, CallStep(c)
    PROVE  IOInv'
<1>1. TypeOK' /\ Places' /\ Failing' /\ Woken' /\ Met'
  BY EndsKeeps, WaitsKeeps, BlocksKeeps DEF CallStep
<1>2. \A u \in Threads : u # c => call'[u] = call[u]
  BY DEF CallStep, Ends, WaitsWith, BlocksWith, IOInv, TypeOK
<1>3. Modes'
  BY <1>2, ModesKept DEF CallStep
<1>4. PartialWritesCounted'
  BY <1>2, CountsKept DEF CallStep
<1> QED
  BY <1>1, <1>3, <1>4 DEF IOInv, CallStep

-----------------------------------------------------------------------------
(*                           Calls that only read                          *)

LEMMA ReturnEnds ==
    ASSUME NEW c \in Threads, NEW cl, NEW l, NEW rv, NEW err, TypeOK,
           Return(c, cl, l, rv, err), Kept(links, l, c), Quiet(l, c)
    PROVE  /\ Ends(c) /\ call'[c] = NULL
           /\ cl.op # "write" => ret' = NULL
           /\ cl.op = "write" => ret' = [rv |-> rv, err |-> err, wrote |-> cl.wrote]
BY DEF Return, Unwatched, cancel, Ends, TypeOK

\* A call that has just been made.
Entered(cl, op, fd, extra) ==
    /\ cl \in Calls /\ cl # NULL
    /\ cl.op = op /\ cl.fd = fd /\ cl.extra = extra /\ cl.timed = FALSE
    /\ cl.old = mode[fd] /\ cl.iov = <<>> /\ cl.left = 0 /\ cl.wrote = 0

LEMMA EnterIs ==
    ASSUME NEW c \in Threads, NEW op \in {"read", "write", "accept", "connect", "select"},
           NEW fd \in Fds, NEW extra \in BOOLEAN, FilesOK
    PROVE  Entered(Enter(c, op, fd, extra, mode[fd]), op, fd, extra)
<1> DEFINE cl == Enter(c, op, fd, extra, mode[fd])
<1>1. mode[fd] \in {"BLOCK", "NONBLOCK"} /\ <<>> \in Seq(Nat) /\ 0 \in Nat /\ FALSE \in BOOLEAN
  BY DEF FilesOK
<1>2. cl \in Calls
  BY <1>1 DEF Enter, Calls
<1>3. /\ cl.op = op /\ cl.fd = fd /\ cl.timed = FALSE
      /\ cl.old = mode[fd] /\ cl.iov = <<>> /\ cl.left = 0 /\ cl.wrote = 0
  BY DEF Enter
<1>4. cl.extra = extra
  BY DEF Enter
<1>5. cl # NULL
  BY <1>2, IOAssumption
<1> QED
  BY <1>2, <1>3, <1>4, <1>5 DEF Entered

LEMMA MineIs ==
    ASSUME NEW c \in Threads, NEW op, NEW fd, IOInv, Mine(c, op, fd)
    PROVE  /\ pth_current = c /\ call[c] = NULL /\ <<op, fd>> \in Does[c]
           /\ links \in Links /\ Kept(links, links, c) /\ Quiet(links, c)
           /\ status[Io(c)] # "FAILED"
           /\ \A f \in Fds : ~Owns(call[c], f)
BY DEF Mine, Running, IOInv, Places, Failing, TypeOK, Kept, Owns

LEMMA BackIs ==
    ASSUME NEW c \in Threads, NEW op \in {"read", "write", "accept", "connect", "select"},
           IOInv, Back(c, op)
    PROVE  /\ pth_current = c /\ call[c] # NULL /\ call[c] \in Calls /\ call[c].op = op
           /\ WaitsIn(c, call[c]) /\ events[c] # NULL /\ Shape(links, c, call[c])
           /\ state[c] = "ready" /\ ~Cancelled(c)
           /\ links \in Links
BY DEF Back, IOInv, Places, TypeOK

LEMMA IsolatedQuiet ==
    ASSUME NEW c \in Threads, NEW op \in {"read", "write", "accept", "connect"},
           IOInv, Back(c, op)
    PROVE  Isolated(c) \in Links /\ Kept(links, Isolated(c), c) /\ Quiet(Isolated(c), c)
<1>1. call[c].op = op /\ Shape(links, c, call[c]) /\ links \in Links
  BY BackIs
<1>2. CASE call[c].extra
  <2>1. Attached(links, c) \/ Quiet(links, c)
    BY <1>1, <1>2 DEF Shape
  <2> QED BY <1>1, <1>2, <2>1, CallLeaves DEF Isolated, Kept
<1>3. CASE ~call[c].extra
  BY <1>1, <1>3 DEF Shape, Isolated, Kept
<1> QED
  BY <1>2, <1>3

\* The ring of the call's event and the extra events.
LEMMA RingOfCall ==
    ASSUME NEW l \in Links, NEW t \in Threads, NEW cl, Quiet(l, t),
           cl.extra \in BOOLEAN, ~cl.timed, cl.op = "select" /\ cl.extra => t \notin Pair
    PROVE  LET k == WithExtra(t, NewRing(l, Io(t)), cl.extra)
           IN  Kept(l, k, t) /\ Shape(k, t, cl)
<1> DEFINE m == NewRing(l, Io(t))
<1>1. m \in Links /\ Kept(l, m, t) /\ Quiet(m, t)
  BY RingIsQuiet DEF Kept
<1> HIDE DEF m
<1>2. CASE cl.extra
  <2> DEFINE k == pth_event_concat(m, Io(t), Msg(t))
  <2>1. Kept(m, k, t) /\ Attached(k, t)
    BY <1>1, RingIsAttached
  <2> HIDE DEF k
  <2>2. Kept(l, k, t) /\ Shape(k, t, cl)
    BY <1>1, <1>2, <2>1, KeptTwice DEF Shape
  <2>3. WithExtra(t, m, cl.extra) = k
    BY <1>2 DEF WithExtra, k
  <2> QED BY <2>2, <2>3 DEF m
<1>3. CASE ~cl.extra
  <2>1. WithExtra(t, m, cl.extra) = m /\ Shape(m, t, cl)
    BY <1>1, <1>3 DEF WithExtra, Shape
  <2> QED BY <1>1, <2>1 DEF m
<1> QED
  BY <1>2, <1>3

LEMMA ModesLeft ==
    ASSUME NEW c \in Threads, mode' = mode,
           \A f \in Fds : Owns(call'[c], f) <=> Owns(call[c], f)
    PROVE  ModesBy(c)
BY DEF ModesBy

LEMMA DoReadSteps ==
    ASSUME NEW c \in Threads, NEW cl \in Calls, NEW l, IOInv, pth_current = c,
           cl.op = "read", Kept(links, l, c), Quiet(l, c), DoRead(c, cl, l),
           UNCHANGED <<open, mode, out, conn, ports>>,
           \A f \in Fds : ~Owns(call[c], f),
           status[Io(c)] = "FAILED" => ~open[cl.fd],
           open[cl.fd] => \/ in[cl.fd] > 0 \/ mode[cl.fd] = "NONBLOCK"
                          \/ taker[cl.fd] \notin {NULL, c} \/ Excused(c, cl)
    PROVE  CallStep(c)
<1> USE DEF IOInv
<1>0. cl.fd \in Fds /\ FilesOK /\ TypeOK
  BY DEF Calls
<1>1. ASSUME NEW rv, NEW err, Return(c, cl, l, rv, err)
      PROVE  Ends(c) /\ call'[c] = NULL /\ ret' = NULL /\ ModesBy(c) /\ Counted(c)
  <2>1. Ends(c) /\ call'[c] = NULL /\ ret' = NULL
    BY <1>0, <1>1, ReturnEnds
  <2>2. ModesBy(c)
    BY <2>1, ModesLeft DEF Owns
  <2> QED BY <2>1, <2>2 DEF Counted
<1>2. CASE ~open[cl.fd] /\ Return(c, cl, l, -1, "EBADF") /\ UNCHANGED <<in, taker>>
  BY <1>0, <1>1, <1>2 DEF CallStep, FilesOK, Takes1
<1>3. ASSUME open[cl.fd], in[cl.fd] > 0, NEW n \in 1 .. in[cl.fd],
             in' = [in EXCEPT ![cl.fd] = @ - n], taker' = [taker EXCEPT ![cl.fd] = c],
             Return(c, cl, l, n, "none")
      PROVE  CallStep(c)
  <2>1. FilesOK' /\ Takes1(c)
    BY <1>0, <1>3 DEF FilesOK, Takes1
  <2> QED BY <1>1, <1>3, <2>1 DEF CallStep
<1>4. CASE Return(c, cl, l, -1, "EAGAIN") /\ UNCHANGED <<in, taker>>
  BY <1>0, <1>1, <1>4 DEF CallStep, FilesOK, Takes1
<1>5. ASSUME open[cl.fd], in[cl.fd] = 0, mode[cl.fd] = "BLOCK",
             call' = [call EXCEPT ![c] = [cl EXCEPT !.op = "blocked"]],
             links' = l, events' = [events EXCEPT ![c] = NULL], ret' = NULL,
             UNCHANGED <<pth_current, state, cancel, status, in, taker>>
      PROVE  CallStep(c)
  <2> DEFINE cl2 == [cl EXCEPT !.op = "blocked"]
  <2>1. cl2 \in Calls /\ cl2.op = "blocked" /\ cl2.fd = cl.fd /\ cl2.extra = cl.extra
    BY DEF Calls
  <2>2. call' = [call EXCEPT ![c] = cl2]
    BY <1>5
  <2> HIDE DEF cl2
  <2>3. BlocksWith(c, cl2)
    BY <1>0, <1>5, <2>1, <2>2 DEF BlocksWith, cancel, Excused
  <2>4. call'[c] = cl2
    BY <2>2 DEF TypeOK
  <2>5. ModesBy(c) /\ Counted(c)
    BY <1>5, <2>1, <2>4, ModesLeft DEF Owns, Counted
  <2>6. FilesOK' /\ Takes1(c)
    BY <1>0, <1>5 DEF FilesOK, Takes1
  <2> QED BY <2>3, <2>5, <2>6 DEF CallStep
<1> QED
  BY <1>2, <1>3, <1>4, <1>5 DEF DoRead

\* A call that waits before it has done anything to a descriptor.
LEMMA WaitSteps ==
    ASSUME NEW c \in Threads, NEW cl \in Calls, NEW l, IOInv, pth_current = c,
           WaitsIn(c, cl), call' = [call EXCEPT ![c] = cl],
           pth_wait(c, Io(c), l), Kept(links, l, c), Shape(l, c, cl),
           UNCHANGED <<open, mode, in, taker>>, FilesOK',
           \A f \in Fds : Owns(cl, f) <=> Owns(call[c], f),
           cl.op = "write" => cl.left = pth_writev_iov_bytes(cl.iov)
    PROVE  CallStep(c)
<1>1. WaitsWith(c, cl)
  BY DEF WaitsWith
<1>2. call'[c] = cl
  BY DEF IOInv, TypeOK
<1>3. ModesBy(c)
  BY <1>2, ModesLeft
<1>4. Counted(c)
  BY <1>2 DEF Counted, pth_wait
<1>5. Takes1(c)
  BY DEF Takes1
<1> QED
  BY <1>1, <1>3, <1>4, <1>5 DEF CallStep

LEMMA ReadingSteps ==
    ASSUME NEW c \in Threads, NEW fd \in Fds, NEW extra \in BOOLEAN, IOInv, Reading(c, fd, extra)
    PROVE  CallStep(c)
<1> DEFINE cl == Enter(c, "read", fd, extra, mode[fd])
           l  == WithExtra(c, NewRing(links, Io(c)), extra)
<1>0. TypeOK /\ FilesOK
  BY DEF IOInv
<1>1. /\ cl \in Calls /\ cl.op = "read" /\ cl.fd = fd /\ cl.extra = extra /\ cl.timed = FALSE
  <2>1. Entered(cl, "read", fd, extra)
    BY <1>0, EnterIs
  <2> HIDE DEF cl
  <2> QED BY <2>1 DEF Entered
<1>2. /\ pth_current = c /\ call[c] = NULL /\ <<"read", fd>> \in Does[c]
      /\ links \in Links /\ Kept(links, links, c) /\ Quiet(links, c)
      /\ status[Io(c)] # "FAILED"
      /\ \A f \in Fds : ~Owns(call[c], f)
  BY MineIs DEF Reading
<1>3. CASE open[fd] /\ mode[fd] = "BLOCK" /\ in[fd] = 0
  <2>1. call' = [call EXCEPT ![c] = cl] /\ pth_wait(c, Io(c), l)
        /\ UNCHANGED <<open, mode, in, out, taker>>
    BY <1>3 DEF Reading
  <2>2. Kept(links, l, c) /\ Shape(l, c, cl)
    <3> HIDE DEF cl
    <3>1. Kept(links, WithExtra(c, NewRing(links, Io(c)), cl.extra), c)
          /\ Shape(WithExtra(c, NewRing(links, Io(c)), cl.extra), c, cl)
      BY <1>1, <1>2, RingOfCall
    <3> QED BY <1>1, <3>1
  <2>3. WaitsIn(c, cl)
    BY <1>1, <1>2 DEF WaitsIn
  <2>4. FilesOK'
    BY <1>0, <2>1 DEF FilesOK
  <2> HIDE DEF cl, l
  <2>5. \A f \in Fds : Owns(cl, f) <=> Owns(call[c], f)
    BY <1>1, <1>2 DEF Owns
  <2> QED BY <1>1, <1>2, <2>1, <2>2, <2>3, <2>4, <2>5, WaitSteps
<1>4. CASE ~(open[fd] /\ mode[fd] = "BLOCK" /\ in[fd] = 0)
  <2>1. DoRead(c, cl, links) /\ UNCHANGED <<open, mode, out, conn, ports>>
    BY <1>4 DEF Reading
  <2>2. open[fd] => in[fd] > 0 \/ mode[fd] = "NONBLOCK"
    BY <1>0, <1>4 DEF FilesOK
  <2> HIDE DEF cl
  <2> QED BY <1>1, <1>2, <2>1, <2>2, DoReadSteps
<1> QED
  BY <1>3, <1>4

\* Nothing has to be looked at again after a wait that extra events did not
\* end: the descriptor has something, unless it was taken or closed. What did
\* end it may also be a request of cancellation that is not heeded.
LEMMA ReadReturnsSteps ==
    ASSUME NEW c \in Threads, IOInv, ReadReturns(c)
    PROVE  CallStep(c)
<1>0. TypeOK /\ FilesOK
  BY DEF IOInv
<1>1. /\ pth_current = c /\ call[c] # NULL /\ call[c] \in Calls /\ call[c].op = "read"
      /\ WaitsIn(c, call[c]) /\ events[c] # NULL /\ Shape(links, c, call[c])
      /\ state[c] = "ready" /\ ~Cancelled(c)
  BY BackIs DEF ReadReturns
<1>2. Kept(links, Isolated(c), c) /\ Quiet(Isolated(c), c)
  BY IsolatedQuiet DEF ReadReturns
<1>3. \A f \in Fds : ~Owns(call[c], f)
  BY <1>1 DEF Owns
<1>4. CASE Interrupted(c)
  <2>1. Return(c, call[c], Isolated(c), -1, "EINTR")
        /\ UNCHANGED <<open, mode, in, out, taker>>
    BY <1>4 DEF ReadReturns
  <2>2. Ends(c) /\ call'[c] = NULL /\ ret' = NULL
    BY <1>0, <1>1, <1>2, <2>1, ReturnEnds
  <2>3. ModesBy(c)
    BY <1>3, <2>1, <2>2, ModesLeft DEF Owns
  <2>4. FilesOK' /\ Takes1(c) /\ Counted(c)
    BY <1>0, <2>1, <2>2 DEF FilesOK, Takes1, Counted
  <2> QED BY <1>1, <2>1, <2>2, <2>3, <2>4 DEF CallStep
<1>5. CASE ~Interrupted(c)
  <2>1. DoRead(c, call[c], Isolated(c)) /\ UNCHANGED <<open, mode, out, conn, ports>>
    BY <1>5 DEF ReadReturns
  <2>2. status[Io(c)] # "PENDING" \/ Excused(c, call[c])
    <3>1. cancelreq[c] => cancelstate[c] = "disabled"
      BY <1>0, <1>1 DEF Cancelled, TypeOK
    <3> QED BY <1>1, <1>5, <3>1 DEF IOInv, Woken, Interrupted, Excused
  <2>3. status[Io(c)] \in {"PENDING", "OCCURRED", "FAILED"}
    BY <1>0, OwnEvents DEF TypeOK
  <2>4. status[Io(c)] = "FAILED" => ~open[call[c].fd]
    BY DEF IOInv, Failing
  <2>5. status[Io(c)] = "OCCURRED" => Left(c)
    BY <1>1 DEF IOInv, Met
  <2>6. open[call[c].fd] => \/ in[call[c].fd] > 0 \/ taker[call[c].fd] \notin {NULL, c}
                            \/ Excused(c, call[c])
    BY <2>2, <2>3, <2>4, <2>5 DEF Left
  <2> QED BY <1>1, <1>2, <1>3, <2>1, <2>4, <2>6, DoReadSteps
<1> QED
  BY <1>4, <1>5

LEMMA ReadUnblocksSteps ==
    ASSUME NEW c \in Threads, IOInv, ReadUnblocks(c)
    PROVE  CallStep(c)
<1> DEFINE cl == [call[c] EXCEPT !.op = "read"]
<1>0. TypeOK /\ FilesOK
  BY DEF IOInv
<1>1. /\ pth_current = c /\ call[c] # NULL /\ call[c] \in Calls /\ call[c].op = "blocked"
      /\ in[call[c].fd] > 0 /\ DoRead(c, cl, links)
      /\ UNCHANGED <<open, mode, out, conn, ports>>
  BY <1>0 DEF ReadUnblocks, TypeOK
<1>2. cl \in Calls /\ cl.op = "read" /\ cl.fd = call[c].fd
  BY <1>1 DEF Calls
<1>3. Kept(links, links, c) /\ Quiet(links, c)
  BY <1>0, <1>1 DEF IOInv, Places, WaitsIn, Kept, TypeOK
<1>4. \A f \in Fds : ~Owns(call[c], f)
  BY <1>1 DEF Owns
<1>5. status[Io(c)] = "FAILED" => ~open[cl.fd]
  BY <1>2 DEF IOInv, Failing
<1> HIDE DEF cl
<1> QED
  BY <1>1, <1>2, <1>3, <1>4, <1>5, DoReadSteps

-----------------------------------------------------------------------------
(*                   Calls that change the mode and write                  *)

(* The modes md a call goes by: those there are, but for its descriptor,   *)
(* which it has just changed or had changed when it began.                 *)
HeldModes(c, fd, md) ==
    /\ md \in [Fds -> {"BLOCK", "NONBLOCK"}]
    /\ \A f \in Fds \ {fd} : md[f] = mode[f] /\ ~Owns(call[c], f)
    /\ open[fd] => \/ mode[fd] = "BLOCK" /\ md[fd] = "NONBLOCK" /\ ~Owns(call[c], fd)
                   \/ md[fd] = mode[fd] /\ Owns(call[c], fd)

LEMMA ModesGivenBack ==
    ASSUME NEW c \in Threads, NEW fd \in Fds, NEW md, HeldModes(c, fd, md),
           mode' = pth_fdmode(md, fd, "BLOCK"), call'[c] = NULL
    PROVE  ModesBy(c) /\ mode' \in [Fds -> {"BLOCK", "NONBLOCK"}]
<1>1. \A f \in Fds : ~Owns(call'[c], f)
  BY DEF Owns
<1> HIDE DEF Owns
<1>2. \A f \in Fds \ {fd} : mode'[f] = mode[f] /\ ~Owns(call[c], f)
  BY DEF HeldModes, pth_fdmode
<1>3. open[fd] => mode'[fd] = "BLOCK"
  BY DEF HeldModes, pth_fdmode
<1>4. mode' \in [Fds -> {"BLOCK", "NONBLOCK"}]
  BY DEF HeldModes, pth_fdmode
<1>5. open[fd] => mode[fd] = "BLOCK" \/ Owns(call[c], fd)
  BY DEF HeldModes
<1>6. open[fd] => Owns(call[c], fd) \/ mode'[fd] = mode[fd]
  BY <1>3, <1>5
<1> QED
  BY <1>1, <1>2, <1>3, <1>4, <1>6 DEF ModesBy

LEMMA ModesHeld ==
    ASSUME NEW c \in Threads, NEW fd \in Fds, NEW md, HeldModes(c, fd, md),
           mode' = md, Owns(call'[c], fd)
    PROVE  ModesBy(c)
<1>1. \A f \in Fds \ {fd} : ~Owns(call'[c], f)
  BY DEF Owns
<1> QED
  BY <1>1 DEF ModesBy, HeldModes

LEMMA CountedReturn ==
    ASSUME NEW c \in Threads, NEW cl \in Calls, NEW l, NEW rv, NEW err, TypeOK,
           Return(c, cl, l, rv, err),
           cl.op = "write" => \/ rv = -1 /\ (cl.wrote = 0 \/ err = "EINTR")
                              \/ rv = cl.wrote
    PROVE  Counted(c)
<1>1. call'[c] = NULL
  BY DEF Return, TypeOK
<1>2. CASE cl.op = "write"
  <2>1. ret' = [rv |-> rv, err |-> err, wrote |-> cl.wrote]
    BY <1>2 DEF Return
  <2>2. ret'.rv = rv /\ ret'.err = err /\ ret'.wrote = cl.wrote /\ cl.wrote \in Nat
    BY <2>1 DEF Calls
  <2> QED BY <1>1, <1>2, <2>2 DEF Counted
<1>3. CASE cl.op # "write"
  BY <1>1, <1>3 DEF Return, Counted
<1> QED
  BY <1>2, <1>3

LEMMA WriteTurnSteps ==
    ASSUME NEW c \in Threads, NEW cl \in Calls, NEW l \in Links, NEW md, IOInv, pth_current = c,
           cl.op = "write", cl.old = "BLOCK", cl.timed = FALSE, WaitsIn(c, cl),
           cl.left = pth_writev_iov_bytes(cl.iov),
           Kept(links, l, c), Quiet(l, c), HeldModes(c, cl.fd, md),
           WriteTurn(c, cl, l, md), UNCHANGED <<open, in, taker>>
    PROVE  CallStep(c)
<1> DEFINE Cl2(s) == [cl EXCEPT !.wrote = @ + s, !.left = @ - s,
                                !.iov = pth_writev_iov_advance(@, s)]
<1>0. TypeOK /\ FilesOK /\ cl.fd \in Fds /\ cl.left \in Nat /\ cl.wrote \in Nat /\ cl.iov \in Seq(Nat)
  BY DEF IOInv, Calls
<1>1. PICK s \in Written(cl.fd, cl.left) :
          \/ /\ s = -1
             /\ IF cl.wrote = 0 THEN Return(c, cl, l, -1, WriteError(cl.fd))
                                ELSE Return(c, cl, l, cl.wrote, "none")
             /\ mode' = pth_fdmode(md, cl.fd, cl.old)
             /\ UNCHANGED out
          \/ /\ s = cl.left
             /\ Return(c, Cl2(s), l, Cl2(s).wrote, "none")
             /\ mode' = pth_fdmode(md, cl.fd, cl.old)
             /\ out' = [out EXCEPT ![cl.fd] = @ + s]
          \/ /\ s \in 1 .. cl.left - 1
             /\ call' = [call EXCEPT ![c] = Cl2(s)]
             /\ pth_wait(c, Io(c), WithExtra(c, NewRing(l, Io(c)), cl.extra))
             /\ mode' = md
             /\ out' = [out EXCEPT ![cl.fd] = @ + s]
  BY DEF WriteTurn
<1>2. ASSUME s \in Nat, s <= cl.left
      PROVE  /\ Cl2(s) \in Calls /\ Cl2(s).op = "write" /\ Cl2(s).old = "BLOCK" /\ Cl2(s).fd = cl.fd
             /\ Cl2(s).extra = cl.extra /\ ~Cl2(s).timed /\ Cl2(s).wrote \in Nat
             /\ Cl2(s).left = pth_writev_iov_bytes(Cl2(s).iov)
  <2>1. /\ pth_writev_iov_advance(cl.iov, s) \in Seq(Nat)
        /\ pth_writev_iov_bytes(pth_writev_iov_advance(cl.iov, s)) = cl.left - s
    BY <1>0, <1>2, AdvanceCounts
  <2> DEFINE iov2 == pth_writev_iov_advance(cl.iov, s)
  <2>2. /\ Cl2(s).iov = iov2 /\ Cl2(s).left = cl.left - s /\ Cl2(s).wrote = cl.wrote + s
        /\ Cl2(s).op = cl.op /\ Cl2(s).old = cl.old /\ Cl2(s).fd = cl.fd
        /\ Cl2(s).extra = cl.extra /\ Cl2(s).timed = cl.timed
    BY DEF Calls
  <2>3. cl.left - s \in Nat /\ cl.wrote + s \in Nat
    BY <1>0, <1>2
  <2>4. Cl2(s) \in Calls
    <3> HIDE DEF iov2
    <3>1. iov2 \in Seq(Nat)
      BY <2>1 DEF iov2
    <3>2. Cl2(s) = [cl EXCEPT !.wrote = cl.wrote + s, !.left = cl.left - s, !.iov = iov2]
      BY DEF iov2, Calls
    <3> HIDE DEF Cl2
    <3> QED BY <2>3, <3>1, <3>2 DEF Calls
  <2> HIDE DEF Cl2
  <2> QED BY <2>1, <2>2, <2>3, <2>4
<1>3. cl.extra \in BOOLEAN
  BY DEF Calls
<1> HIDE DEF Cl2
<1>4. ASSUME NEW cl2 \in Calls, NEW rv, NEW err, Return(c, cl2, l, rv, err),
             mode' = pth_fdmode(md, cl.fd, cl.old), out' \in [Fds -> Nat],
             cl2.op = "write", \/ rv = -1 /\ (cl2.wrote = 0 \/ err = "EINTR")
                               \/ rv = cl2.wrote
      PROVE  CallStep(c)
  <2>1. Ends(c) /\ call'[c] = NULL
    BY <1>0, <1>4, ReturnEnds
  <2>2. ModesBy(c) /\ mode' \in [Fds -> {"BLOCK", "NONBLOCK"}]
    BY <1>0, <1>4, <2>1, ModesGivenBack
  <2>3. Counted(c)
    BY <1>0, <1>4, CountedReturn
  <2>4. FilesOK' /\ Takes1(c)
    BY <1>0, <1>4, <2>2 DEF FilesOK, Takes1
  <2> QED BY <2>1, <2>2, <2>3, <2>4 DEF CallStep
<1>5. CASE s = -1 /\ mode' = pth_fdmode(md, cl.fd, cl.old) /\ UNCHANGED out
           /\ IF cl.wrote = 0 THEN Return(c, cl, l, -1, WriteError(cl.fd))
                              ELSE Return(c, cl, l, cl.wrote, "none")
  <2>1. out' \in [Fds -> Nat]
    BY <1>0, <1>5 DEF FilesOK
  <2>2. CASE cl.wrote = 0
    BY <1>4, <1>5, <2>1, <2>2
  <2>3. CASE cl.wrote # 0
    BY <1>4, <1>5, <2>1, <2>3
  <2> QED BY <2>2, <2>3
<1>6. CASE s = cl.left /\ Return(c, Cl2(s), l, Cl2(s).wrote, "none")
           /\ mode' = pth_fdmode(md, cl.fd, cl.old) /\ out' = [out EXCEPT ![cl.fd] = @ + s]
  <2>1. out' \in [Fds -> Nat]
    BY <1>0, <1>6 DEF FilesOK
  <2>2. Cl2(s) \in Calls /\ Cl2(s).op = "write"
    BY <1>0, <1>2, <1>6
  <2> QED BY <1>4, <1>6, <2>1, <2>2
<1>7. CASE s \in 1 .. cl.left - 1 /\ call' = [call EXCEPT ![c] = Cl2(s)]
           /\ pth_wait(c, Io(c), WithExtra(c, NewRing(l, Io(c)), cl.extra))
           /\ mode' = md /\ out' = [out EXCEPT ![cl.fd] = @ + s]
  <2> DEFINE cl2 == Cl2(s)
             k   == WithExtra(c, NewRing(l, Io(c)), cl2.extra)
  <2>1. /\ cl2 \in Calls /\ cl2.op = "write" /\ cl2.old = "BLOCK" /\ cl2.fd = cl.fd
        /\ cl2.extra = cl.extra /\ ~cl2.timed
        /\ cl2.left = pth_writev_iov_bytes(cl2.iov)
    BY <1>0, <1>2, <1>7
  <2>2. WaitsIn(c, cl2)
    BY <2>1 DEF WaitsIn
  <2> HIDE DEF cl2
  <2>3. Kept(l, k, c) /\ Shape(k, c, cl2)
    BY <1>3, <2>1, RingOfCall
  <2>4. Kept(links, k, c)
    BY <1>0, <2>3, KeptTwice DEF TypeOK
  <2>5. pth_wait(c, Io(c), k) /\ call' = [call EXCEPT ![c] = cl2]
    BY <1>7, <2>1 DEF cl2
  <2> HIDE DEF k
  <2>6. WaitsWith(c, cl2)
    BY <2>1, <2>2, <2>3, <2>4, <2>5 DEF WaitsWith
  <2>7. call'[c] = cl2 /\ cl2 # NULL
    BY <1>0, <2>1, <2>5, IOAssumption DEF TypeOK
  <2>8. ModesBy(c)
    BY <1>0, <1>7, <2>1, <2>7, ModesHeld DEF Owns
  <2>9. Counted(c)
    BY <2>1, <2>5, <2>7 DEF Counted, pth_wait
  <2>10. FilesOK' /\ Takes1(c)
    BY <1>0, <1>7 DEF FilesOK, Takes1, HeldModes
  <2> QED BY <2>6, <2>8, <2>9, <2>10 DEF CallStep
<1> QED
  BY <1>1, <1>5, <1>6, <1>7

LEMMA WritingSteps ==
    ASSUME NEW c \in Threads, NEW fd \in Fds, NEW iov \in Vectors, NEW extra \in BOOLEAN,
           IOInv, Writing(c, fd, iov, extra)
    PROVE  CallStep(c)
<1> DEFINE e  == Enter(c, "write", fd, extra, mode[fd])
           md == pth_fdmode(mode, fd, "NONBLOCK")
           cl == [e EXCEPT !.iov = iov, !.left = pth_writev_iov_bytes(iov)]
           l  == WithExtra(c, NewRing(links, Io(c)), extra)
<1>0. TypeOK /\ FilesOK
  BY DEF IOInv
<1>1. Entered(e, "write", fd, extra)
  BY <1>0, EnterIs
<1>2. iov \in Seq(Nat) /\ pth_writev_iov_bytes(iov) \in Nat
  BY IOAssumption, BytesIs DEF pth_writev_iov_bytes
<1>3. /\ pth_current = c /\ call[c] = NULL /\ <<"write", fd>> \in Does[c]
      /\ links \in Links /\ Kept(links, links, c) /\ Quiet(links, c)
      /\ \A f \in Fds : ~Owns(call[c], f)
  BY MineIs DEF Writing
<1>4. /\ \/ ~open[fd] /\ Return(c, cl, links, -1, "EBADF") /\ UNCHANGED <<mode, out>>
         \/ open[fd] /\ mode[fd] = "NONBLOCK" /\ WriteOnce(c, cl)
         \/ open[fd] /\ mode[fd] = "BLOCK" /\ Space(fd) > 0 /\ WriteTurn(c, cl, links, md)
         \/ /\ open[fd] /\ mode[fd] = "BLOCK" /\ Space(fd) = 0
            /\ call' = [call EXCEPT ![c] = cl]
            /\ pth_wait(c, Io(c), l)
            /\ mode' = md
            /\ UNCHANGED out
      /\ UNCHANGED <<open, in, taker>>
  BY DEF Writing
<1> HIDE DEF e
<1>5. /\ cl \in Calls /\ cl.op = "write" /\ cl.fd = fd /\ cl.extra = extra /\ cl.timed = FALSE
      /\ cl.old = mode[fd] /\ cl.wrote = 0
      /\ cl.left = pth_writev_iov_bytes(cl.iov)
  BY <1>1, <1>2 DEF Entered, Calls
<1> HIDE DEF cl
<1>6. open[fd] /\ mode[fd] = "BLOCK" => HeldModes(c, fd, md)
  BY <1>0, <1>3 DEF HeldModes, pth_fdmode, FilesOK
<1>7. mode[fd] = "BLOCK" => WaitsIn(c, cl)
  BY <1>3, <1>5 DEF WaitsIn
<1>8. ASSUME NEW cl2 \in Calls, NEW rv, NEW err, Return(c, cl2, links, rv, err), mode' = mode,
             out' \in [Fds -> Nat], cl2.op = "write", \/ rv = -1 /\ cl2.wrote = 0
                                                      \/ rv = cl2.wrote
      PROVE  CallStep(c)
  <2>1. Ends(c) /\ call'[c] = NULL
    BY <1>0, <1>3, <1>8, ReturnEnds
  <2>2. ModesBy(c)
    BY <1>3, <1>8, <2>1, ModesLeft DEF Owns
  <2>3. Counted(c)
    BY <1>0, <1>8, CountedReturn
  <2>4. FilesOK' /\ Takes1(c)
    BY <1>0, <1>4, <1>8 DEF FilesOK, Takes1
  <2> QED BY <1>3, <1>4, <2>1, <2>2, <2>3, <2>4 DEF CallStep
<1>9. CASE ~open[fd] /\ Return(c, cl, links, -1, "EBADF") /\ UNCHANGED <<mode, out>>
  BY <1>0, <1>5, <1>8, <1>9 DEF FilesOK
<1>10. CASE WriteOnce(c, cl)
  <2>1. PICK s \in Written(cl.fd, cl.left) :
           /\ IF s > 0 THEN /\ Return(c, [cl EXCEPT !.wrote = s], links, s, "none")
                            /\ out' = [out EXCEPT ![cl.fd] = @ + s]
                       ELSE /\ Return(c, cl, links, -1, WriteError(cl.fd))
                            /\ UNCHANGED out
           /\ UNCHANGED mode
    BY <1>10 DEF WriteOnce
  <2>2. CASE s > 0
    <3>1. s \in Nat
      BY <1>0, <1>5, <2>2 DEF Written, Space, Calls
    <3>2. /\ [cl EXCEPT !.wrote = s] \in Calls /\ [cl EXCEPT !.wrote = s].wrote = s
          /\ [cl EXCEPT !.wrote = s].op = "write"
      BY <1>5, <3>1 DEF Calls
    <3>3. out' \in [Fds -> Nat]
      BY <1>0, <1>5, <2>1, <2>2, <3>1 DEF FilesOK
    <3> QED BY <1>8, <2>1, <2>2, <3>2, <3>3
  <2>3. CASE ~(s > 0)
    BY <1>0, <1>5, <1>8, <2>1, <2>3 DEF FilesOK
  <2> QED BY <2>2, <2>3
<1>11. CASE open[fd] /\ mode[fd] = "BLOCK" /\ WriteTurn(c, cl, links, md)
  <2> HIDE DEF md
  <2> QED BY <1>3, <1>4, <1>5, <1>6, <1>7, <1>11, WriteTurnSteps
<1>12. CASE /\ open[fd] /\ mode[fd] = "BLOCK"
            /\ call' = [call EXCEPT ![c] = cl]
            /\ pth_wait(c, Io(c), l)
            /\ mode' = md
            /\ UNCHANGED out
  <2>1. Kept(links, l, c) /\ Shape(l, c, cl)
    <3>1. /\ Kept(links, WithExtra(c, NewRing(links, Io(c)), cl.extra), c)
          /\ Shape(WithExtra(c, NewRing(links, Io(c)), cl.extra), c, cl)
      BY <1>3, <1>5, RingOfCall
    <3> QED BY <1>5, <3>1
  <2> HIDE DEF l, md
  <2>2. WaitsWith(c, cl)
    BY <1>5, <1>7, <1>12, <2>1 DEF WaitsWith
  <2>3. call'[c] = cl /\ cl # NULL
    BY <1>0, <1>5, <1>12, IOAssumption DEF TypeOK
  <2>4. ModesBy(c)
    BY <1>5, <1>6, <1>12, <2>3, ModesHeld DEF Owns
  <2>5. Counted(c)
    BY <1>5, <1>12, <2>3 DEF Counted, pth_wait
  <2>6. FilesOK' /\ Takes1(c)
    BY <1>0, <1>4, <1>6, <1>12 DEF FilesOK, Takes1, HeldModes
  <2> QED BY <1>3, <1>4, <2>2, <2>4, <2>5, <2>6 DEF CallStep
<1> QED
  BY <1>4, <1>9, <1>10, <1>11, <1>12

\* An interrupted call may have written: that is the one error after which
\* something is.
LEMMA WriteReturnsSteps ==
    ASSUME NEW c \in Threads, IOInv, WriteReturns(c)
    PROVE  CallStep(c)
<1>0. TypeOK /\ FilesOK
  BY DEF IOInv
<1>1. /\ pth_current = c /\ call[c] # NULL /\ call[c] \in Calls /\ call[c].op = "write"
      /\ WaitsIn(c, call[c]) /\ events[c] # NULL /\ Shape(links, c, call[c])
  BY BackIs DEF WriteReturns
<1>2. Isolated(c) \in Links /\ Kept(links, Isolated(c), c) /\ Quiet(Isolated(c), c)
  BY IsolatedQuiet DEF WriteReturns
<1>3. /\ call[c].old = "BLOCK" /\ call[c].timed = FALSE /\ call[c].fd \in Fds
      /\ call[c].left = pth_writev_iov_bytes(call[c].iov)
  BY <1>1 DEF WaitsIn, Shape, Calls, IOInv, PartialWritesCounted
<1>4. HeldModes(c, call[c].fd, mode)
  BY <1>0, <1>1, <1>3 DEF HeldModes, Owns, FilesOK
<1>5. CASE Interrupted(c)
  <2>1. /\ Return(c, call[c], Isolated(c), -1, "EINTR")
        /\ mode' = pth_fdmode(mode, call[c].fd, call[c].old)
        /\ UNCHANGED <<open, in, out, taker>>
    BY <1>5 DEF WriteReturns
  <2>2. Ends(c) /\ call'[c] = NULL
    BY <1>0, <1>2, <2>1, ReturnEnds
  <2>3. ModesBy(c) /\ mode' \in [Fds -> {"BLOCK", "NONBLOCK"}]
    BY <1>3, <1>4, <2>1, <2>2, ModesGivenBack
  <2>4. Counted(c)
    BY <1>0, <1>1, <2>1, CountedReturn
  <2>5. FilesOK' /\ Takes1(c)
    BY <1>0, <2>1, <2>3 DEF FilesOK, Takes1
  <2> QED BY <1>1, <2>1, <2>2, <2>3, <2>4, <2>5 DEF CallStep
<1>6. CASE ~Interrupted(c)
  <2>1. WriteTurn(c, call[c], Isolated(c), mode) /\ UNCHANGED <<open, in, taker>>
    BY <1>6 DEF WriteReturns
  <2> QED BY <1>1, <1>2, <1>3, <1>4, <2>1, WriteTurnSteps
<1> QED
  BY <1>5, <1>6

-----------------------------------------------------------------------------
(*                     Accepting, connecting, selecting                    *)

\* The call has found the descriptor nonblocking and leaves it so.
FoundNonblocking(c, cl, md) ==
    /\ cl.old = "NONBLOCK" /\ md = mode
    /\ open[cl.fd] => mode[cl.fd] = "NONBLOCK"
    /\ \A f \in Fds : ~Owns(call[c], f)

LEMMA AcceptTurnSteps ==
    ASSUME NEW c \in Threads, NEW cl \in Calls, NEW l \in Links, NEW md, NEW ring, IOInv,
           pth_current = c, cl.op = "accept", <<"accept", cl.fd>> \in Does[c],
           Kept(links, l, c), Quiet(l, c), Kept(links, ring, c), Shape(ring, c, cl),
           (cl.old = "BLOCK" /\ HeldModes(c, cl.fd, md)) \/ FoundNonblocking(c, cl, md),
           AcceptTurn(c, cl, l, md, ring), UNCHANGED <<open, out, taker>>
    PROVE  CallStep(c)
<1> DEFINE fd == cl.fd
<1>0. TypeOK /\ FilesOK /\ fd \in Fds
  BY DEF IOInv, Calls
<1>1. ASSUME NEW rv, NEW err, Return(c, cl, l, rv, err), in' \in [Fds -> Nat],
             in' = in \/ in' = [in EXCEPT ![fd] = @ - 1],
             (mode' = md /\ ~open[fd]) \/ mode' = pth_fdmode(md, fd, cl.old)
      PROVE  CallStep(c)
  <2>1. Ends(c) /\ call'[c] = NULL
    BY <1>0, <1>1, ReturnEnds
  <2>2. mode' = pth_fdmode(md, fd, cl.old)
    BY <1>1 DEF pth_fdmode
  <2>3. ModesBy(c) /\ mode' \in [Fds -> {"BLOCK", "NONBLOCK"}]
    <3>1. CASE cl.old = "BLOCK" /\ HeldModes(c, cl.fd, md)
      BY <1>0, <2>1, <2>2, <3>1, ModesGivenBack
    <3>2. CASE FoundNonblocking(c, cl, md)
      <4>1. mode' = mode
        BY <1>0, <2>2, <3>2 DEF FoundNonblocking, pth_fdmode, FilesOK
      <4>2. \A f \in Fds : Owns(call'[c], f) <=> Owns(call[c], f)
        BY <2>1, <3>2 DEF FoundNonblocking, Owns
      <4> QED BY <1>0, <4>1, <4>2, ModesLeft DEF FilesOK
    <3> QED BY <3>1, <3>2
  <2>4. Counted(c)
    BY <1>0, <1>1, CountedReturn
  <2>5. FilesOK' /\ Takes1(c)
    BY <1>0, <1>1, <2>3 DEF FilesOK, Takes1
  <2> QED BY <2>1, <2>3, <2>4, <2>5 DEF CallStep
<1>2. CASE ~open[fd] /\ Return(c, cl, l, -1, "EBADF") /\ mode' = md /\ UNCHANGED in
  BY <1>0, <1>1, <1>2 DEF FilesOK
<1>3. CASE /\ open[fd] /\ in[fd] > 0
           /\ in' = [in EXCEPT ![fd] = @ - 1]
           /\ Return(c, cl, l, 0, "none")
           /\ mode' = pth_fdmode(md, fd, cl.old)
  <2>1. in' \in [Fds -> Nat]
    BY <1>0, <1>3 DEF FilesOK
  <2> QED BY <1>1, <1>3, <2>1
<1>4. CASE /\ Return(c, cl, l, -1, "EAGAIN")
           /\ mode' = pth_fdmode(md, fd, cl.old)
           /\ UNCHANGED in
  BY <1>0, <1>1, <1>4 DEF FilesOK
<1>5. CASE /\ cl.old = "BLOCK"
           /\ call' = [call EXCEPT ![c] = cl]
           /\ pth_wait(c, Io(c), ring)
           /\ mode' = md
           /\ UNCHANGED in
  <2>1. HeldModes(c, fd, md)
    BY <1>5 DEF FoundNonblocking
  <2>2. WaitsWith(c, cl)
    BY <1>5 DEF WaitsWith, WaitsIn
  <2>3. call'[c] = cl /\ cl # NULL
    BY <1>0, <1>5, IOAssumption DEF TypeOK
  <2>4. ModesBy(c)
    BY <1>0, <1>5, <2>1, <2>3, ModesHeld DEF Owns
  <2>5. Counted(c)
    BY <1>5, <2>3 DEF Counted, pth_wait
  <2>6. FilesOK' /\ Takes1(c)
    BY <1>0, <1>5, <2>1 DEF FilesOK, Takes1, HeldModes
  <2> QED BY <2>2, <2>4, <2>5, <2>6 DEF CallStep
<1> QED
  BY <1>2, <1>3, <1>4, <1>5 DEF AcceptTurn

LEMMA AcceptSteps ==
    ASSUME NEW c \in Threads, NEW fd \in Fds, NEW extra \in BOOLEAN, IOInv,
           pth_accept_ev(c, fd, extra)
    PROVE  CallStep(c)
<1> DEFINE cl   == Enter(c, "accept", fd, extra, mode[fd])
           md   == pth_fdmode(mode, fd, "NONBLOCK")
           ring == WithExtra(c, NewRing(links, Io(c)), extra)
<1>0. TypeOK /\ FilesOK
  BY DEF IOInv
<1>1. Entered(cl, "accept", fd, extra)
  BY <1>0, EnterIs
<1>2. /\ pth_current = c /\ call[c] = NULL /\ <<"accept", fd>> \in Does[c]
      /\ links \in Links /\ Kept(links, links, c) /\ Quiet(links, c)
      /\ \A f \in Fds : ~Owns(call[c], f)
  BY MineIs DEF pth_accept_ev
<1>3. AcceptTurn(c, cl, links, md, ring) /\ UNCHANGED <<open, out, taker>>
  BY DEF pth_accept_ev
<1> HIDE DEF cl
<1>4. cl \in Calls /\ cl.op = "accept" /\ cl.fd = fd /\ cl.extra = extra /\ cl.timed = FALSE
      /\ cl.old = mode[fd]
  BY <1>1 DEF Entered
<1>5. Kept(links, ring, c) /\ Shape(ring, c, cl)
  <2>1. /\ Kept(links, WithExtra(c, NewRing(links, Io(c)), cl.extra), c)
        /\ Shape(WithExtra(c, NewRing(links, Io(c)), cl.extra), c, cl)
    BY <1>2, <1>4, RingOfCall
  <2> QED BY <1>4, <2>1
<1>6. CASE mode[fd] = "BLOCK"
  <2>1. HeldModes(c, fd, md)
    BY <1>0, <1>2, <1>6 DEF HeldModes, pth_fdmode, FilesOK
  <2> HIDE DEF md, ring
  <2> QED BY <1>2, <1>3, <1>4, <1>5, <1>6, <2>1, AcceptTurnSteps
<1>7. CASE mode[fd] = "NONBLOCK"
  <2>1. md = mode
    BY <1>0, <1>7 DEF pth_fdmode, FilesOK
  <2>2. FoundNonblocking(c, cl, md)
    BY <1>2, <1>4, <1>7, <2>1 DEF FoundNonblocking
  <2> HIDE DEF md, ring
  <2> QED BY <1>2, <1>3, <1>4, <1>5, <2>2, AcceptTurnSteps
<1> QED
  BY <1>0, <1>6, <1>7 DEF FilesOK

LEMMA AcceptReturnsSteps ==
    ASSUME NEW c \in Threads, IOInv, AcceptReturns(c)
    PROVE  CallStep(c)
<1>0. TypeOK /\ FilesOK
  BY DEF IOInv
<1>1. /\ pth_current = c /\ call[c] # NULL /\ call[c] \in Calls /\ call[c].op = "accept"
      /\ WaitsIn(c, call[c]) /\ events[c] # NULL /\ Shape(links, c, call[c])
  BY BackIs DEF AcceptReturns
<1>2. Isolated(c) \in Links /\ Kept(links, Isolated(c), c) /\ Quiet(Isolated(c), c)
  BY IsolatedQuiet DEF AcceptReturns
<1>3. /\ call[c].old = "BLOCK" /\ call[c].timed = FALSE /\ call[c].fd \in Fds
      /\ <<"accept", call[c].fd>> \in Does[c]
  BY <1>1 DEF WaitsIn, Shape, Calls
<1>4. HeldModes(c, call[c].fd, mode)
  BY <1>0, <1>1, <1>3 DEF HeldModes, Owns, FilesOK
<1>5. Shape(Isolated(c), c, call[c])
  BY <1>1, <1>2, <1>3 DEF Shape
<1>6. CASE Interrupted(c)
  <2>1. /\ Return(c, call[c], Isolated(c), -1, "EINTR")
        /\ mode' = pth_fdmode(mode, call[c].fd, call[c].old)
        /\ UNCHANGED <<open, in, out, taker>>
    BY <1>6 DEF AcceptReturns
  <2>2. Ends(c) /\ call'[c] = NULL
    BY <1>0, <1>2, <2>1, ReturnEnds
  <2>3. ModesBy(c) /\ mode' \in [Fds -> {"BLOCK", "NONBLOCK"}]
    BY <1>3, <1>4, <2>1, <2>2, ModesGivenBack
  <2>4. Counted(c)
    BY <1>0, <1>1, <2>1, CountedReturn
  <2>5. FilesOK' /\ Takes1(c)
    BY <1>0, <2>1, <2>3 DEF FilesOK, Takes1
  <2> QED BY <1>1, <2>1, <2>2, <2>3, <2>4, <2>5 DEF CallStep
<1>7. CASE ~Interrupted(c)
  <2>1. AcceptTurn(c, call[c], Isolated(c), mode, Isolated(c)) /\ UNCHANGED <<open, out, taker>>
    BY <1>7 DEF AcceptReturns
  <2> QED BY <1>1, <1>2, <1>3, <1>4, <1>5, <2>1, AcceptTurnSteps
<1> QED
  BY <1>6, <1>7

\* A step that returns and leaves what is read, written and taken.
LEMMA ReturnSteps ==
    ASSUME NEW c \in Threads, NEW cl \in Calls, NEW l, NEW rv, NEW err, IOInv, pth_current = c,
           cl.op # "write", Return(c, cl, l, rv, err), Kept(links, l, c), Quiet(l, c),
           \A f \in Fds : ~Owns(call[c], f),
           UNCHANGED <<open, mode, in, out, taker>>
    PROVE  CallStep(c)
<1>0. TypeOK /\ FilesOK
  BY DEF IOInv
<1>1. Ends(c) /\ call'[c] = NULL /\ ret' = NULL
  BY <1>0, ReturnEnds
<1>2. ModesBy(c)
  BY <1>1, ModesLeft DEF Owns
<1>3. FilesOK' /\ Takes1(c) /\ Counted(c)
  BY <1>0, <1>1 DEF FilesOK, Takes1, Counted
<1> QED
  BY <1>1, <1>2, <1>3 DEF CallStep

LEMMA ConnectSteps ==
    ASSUME NEW c \in Threads, NEW fd \in Fds, NEW extra \in BOOLEAN, IOInv,
           pth_connect_ev(c, fd, extra)
    PROVE  CallStep(c)
<1> DEFINE cl == Enter(c, "connect", fd, extra, mode[fd])
           l  == WithExtra(c, NewRing(links, Io(c)), extra)
<1>0. TypeOK /\ FilesOK
  BY DEF IOInv
<1>1. Entered(cl, "connect", fd, extra)
  BY <1>0, EnterIs
<1>2. /\ pth_current = c /\ call[c] = NULL /\ <<"connect", fd>> \in Does[c]
      /\ links \in Links /\ Kept(links, links, c) /\ Quiet(links, c)
      /\ \A f \in Fds : ~Owns(call[c], f)
  BY MineIs DEF pth_connect_ev
<1>3. /\ UNCHANGED <<open, mode, in, out, taker>>
      /\ \/ \E rv, err : Return(c, cl, links, rv, err)
         \/ call' = [call EXCEPT ![c] = cl] /\ pth_wait(c, Io(c), l)
  BY DEF pth_connect_ev
<1> HIDE DEF cl
<1>4. cl \in Calls /\ cl.op = "connect" /\ cl.fd = fd /\ cl.extra = extra /\ cl.timed = FALSE
  BY <1>1 DEF Entered
<1>5. CASE \E rv, err : Return(c, cl, links, rv, err)
  BY <1>2, <1>3, <1>4, <1>5, ReturnSteps
<1>6. CASE call' = [call EXCEPT ![c] = cl] /\ pth_wait(c, Io(c), l)
  <2>1. Kept(links, l, c) /\ Shape(l, c, cl)
    <3>1. /\ Kept(links, WithExtra(c, NewRing(links, Io(c)), cl.extra), c)
          /\ Shape(WithExtra(c, NewRing(links, Io(c)), cl.extra), c, cl)
      BY <1>2, <1>4, RingOfCall
    <3> QED BY <1>4, <3>1
  <2> HIDE DEF l
  <2>2. WaitsIn(c, cl) /\ \A f \in Fds : Owns(cl, f) <=> Owns(call[c], f)
    BY <1>2, <1>4 DEF WaitsIn, Owns
  <2>3. FilesOK'
    BY <1>0, <1>3 DEF FilesOK
  <2> QED BY <1>2, <1>3, <1>4, <1>6, <2>1, <2>2, <2>3, WaitSteps
<1> QED
  BY <1>3, <1>5, <1>6

LEMMA ConnectReturnsSteps ==
    ASSUME NEW c \in Threads, IOInv, ConnectReturns(c)
    PROVE  CallStep(c)
<1>1. /\ pth_current = c /\ call[c] \in Calls /\ call[c].op = "connect"
  BY BackIs DEF ConnectReturns
<1>2. Kept(links, Isolated(c), c) /\ Quiet(Isolated(c), c)
  BY IsolatedQuiet DEF ConnectReturns
<1>3. \A f \in Fds : ~Owns(call[c], f)
  BY <1>1 DEF Owns
<1>4. UNCHANGED <<open, mode, in, out, taker>> /\ \E rv, err : Return(c, call[c], Isolated(c), rv, err)
  BY DEF ConnectReturns, files
<1> QED
  BY <1>1, <1>2, <1>3, <1>4, ReturnSteps

LEMMA SelectSteps ==
    ASSUME NEW c \in Threads, NEW fd \in Fds, NEW extra \in BOOLEAN, NEW timed \in BOOLEAN,
           IOInv, pth_select_ev(c, fd, extra, timed)
    PROVE  CallStep(c)
<1> DEFINE e    == Enter(c, "select", fd, extra, mode[fd])
           cl   == [e EXCEPT !.timed = timed]
           both == pth_event_concat(NewRing(NewRing(links, Io(c)), Time(c)), Io(c), Time(c))
           l    == WithExtra(c, IF timed THEN both ELSE NewRing(links, Io(c)), extra)
<1>0. TypeOK /\ FilesOK
  BY DEF IOInv
<1>1. Entered(e, "select", fd, extra)
  BY <1>0, EnterIs
<1>2. /\ pth_current = c /\ call[c] = NULL /\ <<"select", fd>> \in Does[c]
      /\ links \in Links /\ Kept(links, links, c) /\ Quiet(links, c)
      /\ \A f \in Fds : ~Owns(call[c], f)
  BY MineIs DEF pth_select_ev
<1>3. /\ UNCHANGED <<open, mode, in, out, taker>> /\ ~(extra /\ c \in Pair)
      /\ \/ \E rv, err : Return(c, cl, links, rv, err)
         \/ call' = [call EXCEPT ![c] = cl] /\ pth_wait(c, Io(c), l)
  BY DEF pth_select_ev, files
<1> HIDE DEF e
<1>4. cl \in Calls /\ cl.op = "select" /\ cl.fd = fd /\ cl.extra = extra /\ cl.timed = timed
  BY <1>1 DEF Entered, Calls
<1> HIDE DEF cl
<1>5. CASE \E rv, err : Return(c, cl, links, rv, err)
  BY <1>2, <1>3, <1>4, <1>5, ReturnSteps
<1>6. CASE call' = [call EXCEPT ![c] = cl] /\ pth_wait(c, Io(c), l)
  <2>1. Kept(links, l, c) /\ Shape(l, c, cl)
    <3>1. CASE ~timed
      <4>1. /\ Kept(links, WithExtra(c, NewRing(links, Io(c)), cl.extra), c)
            /\ Shape(WithExtra(c, NewRing(links, Io(c)), cl.extra), c, cl)
        BY <1>2, <1>3, <1>4, <3>1, RingOfCall
      <4> QED BY <1>4, <3>1, <4>1
    <3>2. CASE timed
      <4>1. Kept(links, both, c) /\ Timed(both, c)
        BY <1>2, TimerJoins
      <4> HIDE DEF both
      <4>2. CASE extra
        <5> DEFINE k == pth_event_concat(both, Io(c), Msg(c))
        <5>1. Kept(both, k, c) /\ TimedAttached(k, c)
          BY <1>3, <4>1, <4>2, TimerAttaches DEF Kept
        <5> HIDE DEF k
        <5>2. Kept(links, k, c) /\ Shape(k, c, cl)
          BY <1>2, <1>3, <1>4, <3>2, <4>1, <4>2, <5>1, KeptTwice DEF Shape
        <5>3. l = k
          BY <3>2, <4>2 DEF WithExtra, k
        <5> QED BY <5>2, <5>3
      <4>3. CASE ~extra
        <5>1. l = both
          BY <3>2, <4>3 DEF WithExtra
        <5>2. Shape(both, c, cl)
          BY <1>4, <3>2, <4>1, <4>3 DEF Shape
        <5> QED BY <4>1, <5>1, <5>2
      <4> QED BY <4>2, <4>3
    <3> QED BY <3>1, <3>2
  <2> HIDE DEF l
  <2>2. WaitsIn(c, cl) /\ \A f \in Fds : Owns(cl, f) <=> Owns(call[c], f)
    BY <1>2, <1>4 DEF WaitsIn, Owns
  <2>3. FilesOK'
    BY <1>0, <1>3 DEF FilesOK
  <2> QED BY <1>2, <1>3, <1>4, <1>6, <2>1, <2>2, <2>3, WaitSteps
<1> QED
  BY <1>3, <1>5, <1>6

\* First the extra event leaves the ring, then the timeout.
LEMMA SelectReturnsSteps ==
    ASSUME NEW c \in Threads, IOInv, SelectReturns(c)
    PROVE  CallStep(c)
<1>1. /\ pth_current = c /\ call[c] \in Calls /\ call[c].op = "select"
      /\ Shape(links, c, call[c]) /\ links \in Links
  BY BackIs DEF SelectReturns
<1>2. Kept(links, SelectLinks(c), c) /\ Quiet(SelectLinks(c), c)
  <2> DEFINE l == IF call[c].extra THEN pth_event_isolate(links, Msg(c)) ELSE links
  <2>1. /\ Kept(links, l, c)
        /\ IF call[c].timed THEN Timed(l, c) ELSE Quiet(l, c)
    <3>1. CASE call[c].extra
      BY <1>1, <3>1, ExtraLeaves DEF Shape
    <3>2. CASE ~call[c].extra
      BY <1>1, <3>2 DEF Shape, Kept
    <3> QED BY <3>1, <3>2
  <2>2. SelectLinks(c) = IF call[c].timed THEN pth_event_isolate(l, Time(c)) ELSE l
    BY DEF SelectLinks
  <2> HIDE DEF l
  <2>3. CASE call[c].timed
    <3>1. Kept(l, pth_event_isolate(l, Time(c)), c) /\ Quiet(pth_event_isolate(l, Time(c)), c)
      BY <2>1, <2>3, TimerLeaves DEF Kept
    <3> QED BY <1>1, <2>1, <2>2, <2>3, <3>1, KeptTwice
  <2>4. CASE ~call[c].timed
    BY <2>1, <2>2, <2>4
  <2> QED BY <2>3, <2>4
<1>3. \A f \in Fds : ~Owns(call[c], f)
  BY <1>1 DEF Owns
<1>4. UNCHANGED <<open, mode, in, out, taker>> /\ \E rv, err : Return(c, call[c], SelectLinks(c), rv, err)
  BY DEF SelectReturns, files
<1> QED
  BY <1>1, <1>2, <1>3, <1>4, ReturnSteps

-----------------------------------------------------------------------------
(*                 The scheduler, cancellation, the outside                *)

\* The status Of(e) of an event e of a waiting thread after a look at it.
LEMMA IoStatusIs ==
    ASSUME NEW t \in Threads, IOInv, state[t] = "waiting"
    PROVE  /\ IoStatus(t) \in {"PENDING", "OCCURRED", "FAILED"}
           /\ IoStatus(t) = "FAILED" => ~open[call[t].fd]
           /\ IoStatus(t) = "OCCURRED" /\ call[t].op = "read" => in[call[t].fd] > 0
<1>1. call[t].op = "read" => (IoReady(t) <=> in[call[t].fd] > 0)
  BY DEF IoReady
<1> QED
  BY <1>1 DEF IoStatus

LEMMA ScheduleKeeps ==
    ASSUME NEW next \in Threads, IOInv, Schedule(next)
    PROVE  IOInv'
<1> DEFINE woken == WokenBy(status')
<1>0. TypeOK /\ FilesOK
  BY DEF IOInv
<1>1. /\ pth_current = NULL /\ pth_current' = next /\ ret' = NULL
      /\ UNCHANGED <<events, cancelreq, cancelstate, links, call, open, mode, in, out, taker>>
  BY DEF Schedule, cancel, files
<1>2. /\ next \in Ready \cup woken
      /\ state' = [t \in Threads |-> IF t \in woken THEN "ready" ELSE state[t]]
      /\ \E chance : status' = Looked(chance)
  BY DEF Schedule
<1> PICK chance : status' = [e \in Event |-> IF e[1] \in Waiting /\ e \in RingOf(e[1])
                                            THEN StatusOf(e, chance) ELSE status[e]]
  BY <1>2 DEF Looked
<1>3. \A t \in Threads : t \in Waiting <=> state[t] = "waiting"
  BY DEF Waiting
<1>4. ASSUME NEW e \in Event
      PROVE  status'[e] \in {"PENDING", "OCCURRED", "FAILED"}
  <2>1. e[1] \in Threads
    BY EveryEvent
  <2>2. CASE e[1] \in Waiting
    <3>1. IoStatus(e[1]) \in {"PENDING", "OCCURRED", "FAILED"}
      BY <1>3, <2>1, <2>2, IoStatusIs
    <3>2. StatusOf(e, chance) \in {"PENDING", "OCCURRED", "FAILED"}
      BY <3>1 DEF StatusOf
    <3> QED BY <1>0, <1>2, <3>2 DEF TypeOK
  <2>3. CASE e[1] \notin Waiting
    BY <1>0, <1>2, <2>3 DEF TypeOK
  <2> QED BY <2>2, <2>3
<1>5. ASSUME NEW t \in Threads
      PROVE  /\ state[t] # "waiting" => status'[Io(t)] = status[Io(t)] /\ state'[t] = state[t]
             /\ state[t] = "waiting" => \/ status'[Io(t)] = status[Io(t)]
                                        \/ status'[Io(t)] = IoStatus(t)
             /\ state'[t] \in {state[t], "ready"}
  <2>1. Io(t) \in Event /\ Io(t)[1] = t /\ Io(t)[2] = "io"
    BY OwnEvents
  <2>2. StatusOf(Io(t), chance) = IoStatus(t)
    BY <2>1 DEF StatusOf
  <2>3. status'[Io(t)] = IF t \in Waiting /\ Io(t) \in RingOf(t) THEN IoStatus(t) ELSE status[Io(t)]
    BY <2>1, <2>2
  <2>4. t \in woken => t \in Waiting
    BY DEF WokenBy
  <2> QED BY <1>2, <1>3, <2>3, <2>4
<1>6. TypeOK'
  <2>1. status' = [e \in Event |-> status'[e]]
    BY <1>2
  <2>2. status' \in [Event -> {"PENDING", "OCCURRED", "FAILED"}]
    BY <1>4, <2>1
  <2>3. state' \in [Threads -> {"ready", "waiting", "dead"}]
    BY <1>0, <1>2 DEF TypeOK
  <2> QED BY <1>0, <1>1, <2>2, <2>3 DEF TypeOK
<1>7. FilesOK'
  BY <1>0, <1>1 DEF FilesOK
<1>8. \A t \in Threads : ~(call[t] # NULL /\ call[t].op = "blocked")
  BY <1>1, IOAssumption DEF IOInv, Places, WaitsIn
<1>9. state'[next] = "ready"
  BY <1>2 DEF Ready
<1>10. Places'
  <2> SUFFICES ASSUME NEW t \in Threads
               PROVE  /\ events[t] # NULL => /\ events[t] = Io(t) /\ call[t] # NULL
                                             /\ call[t].op # "blocked"
                                             /\ Shape(links, t, call[t])
                      /\ events[t] = NULL => Quiet(links, t) /\ state'[t] # "waiting"
                      /\ pth_current' = t => state'[t] = "ready"
                      /\ call[t] # NULL => WaitsIn(t, call[t])
    BY <1>1 DEF Places, WaitsIn
  <2>1. /\ events[t] # NULL => /\ events[t] = Io(t) /\ call[t] # NULL
                               /\ call[t].op # "blocked"
                               /\ Shape(links, t, call[t])
        /\ events[t] = NULL => Quiet(links, t) /\ state[t] # "waiting"
        /\ call[t] # NULL => WaitsIn(t, call[t])
    BY <1>8 DEF IOInv, Places
  <2> QED BY <1>1, <1>5, <1>9, <2>1
<1>11. Failing'
  <2> SUFFICES ASSUME NEW t \in Threads, status'[Io(t)] = "FAILED"
               PROVE  call[t] # NULL /\ ~open[call[t].fd]
    BY <1>1 DEF Failing
  <2>1. CASE status[Io(t)] = "FAILED"
    BY <2>1 DEF IOInv, Failing
  <2>2. CASE status[Io(t)] # "FAILED"
    <3>1. state[t] = "waiting" /\ IoStatus(t) = "FAILED"
      BY <1>5, <2>2
    <3>2. call[t] # NULL
      BY <3>1 DEF IOInv, Places
    <3> QED BY <3>1, <3>2, IoStatusIs
  <2> QED BY <2>1, <2>2
<1>12. Woken'
  <2> SUFFICES ASSUME NEW t \in Threads, events[t] # NULL, call[t].op = "read",
                      state'[t] = "ready", ~cancelreq[t], ~call[t].extra
               PROVE  status'[Io(t)] # "PENDING"
    BY <1>1 DEF Woken
  <2>1. CASE state[t] = "waiting"
    <3>1. t \in woken
      <4>1. state'[t] = IF t \in woken THEN "ready" ELSE state[t]
        BY <1>2
      <4> QED BY <2>1, <4>1
    <3>2. PICK e \in RingOf(t) : status'[e] # "PENDING"
      BY <3>1 DEF WokenBy
    <3>3. RingOf(t) = {Io(t)}
      <4>1. events[t] = Io(t) /\ Shape(links, t, call[t]) /\ links \in Links
        BY <1>0 DEF IOInv, Places, TypeOK
      <4>2. ~call[t].timed
        BY <4>1 DEF Shape
      <4> QED BY <4>1, <4>2, CallRing DEF RingOf
    <3> QED BY <3>2, <3>3
  <2>2. CASE state[t] # "waiting"
    <3>1. status'[Io(t)] = status[Io(t)] /\ state[t] = "ready"
      BY <1>5, <2>2
    <3> QED BY <3>1 DEF IOInv, Woken
  <2> QED BY <2>1, <2>2
<1>13. Met'
  <2> SUFFICES ASSUME NEW t \in Threads, events[t] # NULL, call[t].op = "read",
                      status'[Io(t)] = "OCCURRED"
               PROVE  Left(t)
    BY <1>1, <1>8 DEF Met, Left
  <2>1. CASE status[Io(t)] = "OCCURRED"
    BY <2>1 DEF IOInv, Met
  <2>2. CASE status[Io(t)] # "OCCURRED"
    <3>1. state[t] = "waiting" /\ IoStatus(t) = "OCCURRED"
      BY <1>5, <2>2
    <3> QED BY <3>1, IoStatusIs DEF Left
  <2> QED BY <2>1, <2>2
<1>14. Modes'
  BY <1>1 DEF IOInv, Modes, Owns
<1>15. PartialWritesCounted'
  BY <1>1 DEF IOInv, PartialWritesCounted
<1> QED
  BY <1>6, <1>7, <1>10, <1>11, <1>12, <1>13, <1>14, <1>15 DEF IOInv

\* A thread that ends in a call stays in it, its events apart.
LEMMA DieKeeps ==
    ASSUME NEW t \in Threads, IOInv, Die(t), ret' = NULL,
           UNCHANGED <<cancelstate, call, open, mode, in, out, taker>>,
           cancelreq' \in [Threads -> BOOLEAN],
           \A u \in Threads \ {t} : cancelreq'[u] = cancelreq[u],
           pth_current' \in {pth_current, NULL}, pth_current' # t,
           \A u \in Threads : ~(call[u] # NULL /\ call[u].op = "blocked")
    PROVE  IOInv'
<1>0. TypeOK /\ FilesOK
  BY DEF IOInv
<1>1. /\ state' = [state EXCEPT ![t] = "dead"]
      /\ events' = [events EXCEPT ![t] = NULL]
      /\ links' = Destroyed(links, t)
      /\ status' = [e \in Event |-> IF e[1] = t THEN "PENDING" ELSE status[e]]
  BY DEF Die, Destroyed, Unwatched
<1>2. Kept(links, links', t) /\ Quiet(links', t)
  <2>1. Quiet(links, t) \/ Shape(links, t, call[t])
    BY DEF IOInv, Places
  <2>2. links \in Links
    BY <1>0 DEF TypeOK
  <2> QED BY <1>1, <2>1, <2>2, DestroyedQuiet
<1>3. TypeOK' /\ FilesOK'
  BY <1>0, <1>1, <1>2 DEF TypeOK, FilesOK, Kept
<1>4. events'[t] = NULL /\ state'[t] = "dead" /\ status'[Io(t)] = "PENDING"
  BY <1>0, <1>1, OwnEvents DEF TypeOK
<1>5. ASSUME NEW u \in Threads \ {t}
      PROVE  /\ events'[u] = events[u] /\ state'[u] = state[u]
             /\ status'[Io(u)] = status[Io(u)]
             /\ Quiet(links', u) <=> Quiet(links, u)
             /\ Shape(links', u, call[u]) <=> Shape(links, u, call[u])
             /\ pth_current' = u => pth_current = u
  <2>1. events'[u] = events[u] /\ state'[u] = state[u] /\ status'[Io(u)] = status[Io(u)]
    BY <1>0, <1>1, OwnEvents DEF TypeOK
  <2>2. /\ Quiet(links', u) <=> Quiet(links, u)
        /\ Shape(links', u, call[u]) <=> Shape(links, u, call[u])
    BY <1>0, <1>2, OthersKeep
  <2>3. pth_current' = u => pth_current = u
    BY IOAssumption
  <2> QED BY <2>1, <2>2, <2>3
<1>6. Places'
  <2>1. \A u \in Threads : call[u] # NULL => WaitsIn(u, call[u])
    BY DEF IOInv, Places
  <2> QED BY <1>2, <1>4, <1>5, <2>1 DEF IOInv, Places, WaitsIn
<1>7. Failing'
  BY <1>4, <1>5 DEF IOInv, Failing
<1>8. Woken'
  BY <1>4, <1>5 DEF IOInv, Woken
<1>9. Met'
  BY <1>4, <1>5 DEF IOInv, Met, Left
<1>10. Modes'
  BY DEF IOInv, Modes, Owns
<1>11. PartialWritesCounted'
  BY DEF IOInv, PartialWritesCounted
<1> QED
  BY <1>3, <1>6, <1>7, <1>8, <1>9, <1>10, <1>11 DEF IOInv

LEMMA CancelPointKeeps ==
    ASSUME NEW c \in Threads, IOInv, CancelPoint(c)
    PROVE  IOInv'
<1>1. TypeOK /\ \A u \in Threads : ~(call[u] # NULL /\ call[u].op = "blocked")
  BY DEF CancelPoint, IOInv, Places, WaitsIn
<1> QED
  BY <1>1, DieKeeps, IOAssumption DEF CancelPoint, files, TypeOK

LEMMA CancelKeeps ==
    ASSUME NEW c \in Threads, NEW t \in Threads, IOInv, pth_cancel(c, t), cancelstate[t] = "async"
    PROVE  IOInv'
<1>1. TypeOK /\ \A u \in Threads : ~(call[u] # NULL /\ call[u].op = "blocked")
  BY DEF pth_cancel, Running, IOInv, Places, WaitsIn
<1>2. pth_current' = pth_current /\ pth_current' # t /\ Die(t)
  BY DEF pth_cancel, Running
<1> QED
  BY <1>1, <1>2, DieKeeps DEF pth_cancel, files, TypeOK

\* The ports, a call of the scheduler, requests of cancellation and their state.
LEMMA AsideKeeps ==
    ASSUME IOInv, ret' = NULL,
           UNCHANGED <<events, links, status, call, open, mode, in, out, taker>>,
           \/ UNCHANGED <<pth_current, state, cancelreq, cancelstate>>
           \/ /\ pth_current' = NULL /\ UNCHANGED <<state, cancelreq, cancelstate>>
              /\ \A t \in Threads : pth_current = t => call[t] = NULL
           \/ /\ UNCHANGED <<pth_current, state, cancelreq>>
              /\ \A t \in Threads : pth_current = t => call[t] = NULL
              /\ \E t \in Threads, new \in {"deferred", "async", "disabled"} :
                    cancelstate' = [cancelstate EXCEPT ![t] = new]
           \/ /\ UNCHANGED <<pth_current, state, cancelstate>>
              /\ \E t \in Threads : cancelreq' = [cancelreq EXCEPT ![t] = TRUE]
    PROVE  IOInv'
<1>0. TypeOK /\ FilesOK
  BY DEF IOInv
<1>1. /\ state' = state
      /\ \A t \in Threads : pth_current' = t => pth_current = t
      /\ \A t \in Threads : cancelreq[t] => cancelreq'[t]
      /\ pth_current' \in Threads \cup {NULL} /\ cancelreq' \in [Threads -> BOOLEAN]
      /\ \A t \in Threads : call[t] # NULL /\ pth_current = t => pth_current' = t
  <2>1. /\ state' = state /\ pth_current' \in Threads \cup {NULL}
        /\ \A t \in Threads : pth_current' = t => pth_current = t
        /\ \A t \in Threads : call[t] # NULL /\ pth_current = t => pth_current' = t
    BY <1>0, IOAssumption DEF TypeOK
  <2>2. CASE UNCHANGED cancelreq
    BY <1>0, <2>1, <2>2 DEF TypeOK
  <2>3. ASSUME NEW t \in Threads, cancelreq' = [cancelreq EXCEPT ![t] = TRUE]
        PROVE  /\ \A u \in Threads : cancelreq[u] => cancelreq'[u]
               /\ cancelreq' \in [Threads -> BOOLEAN]
    BY <1>0, <2>3 DEF TypeOK
  <2> QED BY <2>1, <2>2, <2>3
<1>6. /\ cancelstate' \in [Threads -> {"deferred", "async", "disabled"}]
      /\ \A t \in Threads : call[t] # NULL /\ pth_current = t => cancelstate'[t] = cancelstate[t]
  <2>1. CASE UNCHANGED cancelstate
    BY <1>0, <2>1 DEF TypeOK
  <2>2. ASSUME \A t \in Threads : pth_current = t => call[t] = NULL,
               NEW t \in Threads, NEW new \in {"deferred", "async", "disabled"},
               cancelstate' = [cancelstate EXCEPT ![t] = new]
        PROVE  /\ cancelstate' \in [Threads -> {"deferred", "async", "disabled"}]
               /\ \A u \in Threads : ~(call[u] # NULL /\ pth_current = u)
    BY <1>0, <2>2 DEF TypeOK
  <2> QED BY <2>1, <2>2
<1>2. TypeOK' /\ FilesOK'
  BY <1>0, <1>1, <1>6 DEF TypeOK, FilesOK
<1>3. Places'
  BY <1>1 DEF IOInv, Places, WaitsIn
<1>4. Failing' /\ Woken'
  BY <1>1 DEF IOInv, Failing, Woken
<1>7. Met'
  <2>1. \A t \in Threads : call[t] # NULL /\ call[t].op = "blocked" => pth_current = t
    BY DEF IOInv, Places, WaitsIn
  <2>2. \A t \in Threads : call[t] # NULL /\ call[t].op = "blocked" =>
            (Excused(t, call[t]) => Excused(t, call[t])')
    BY <1>1, <1>6, <2>1 DEF Excused
  <2>3. \A t \in Threads : Left(t)' <=> Left(t)
    BY DEF Left
  <2> QED BY <2>2, <2>3 DEF IOInv, Met
<1>5. Modes' /\ PartialWritesCounted'
  BY DEF IOInv, Modes, Owns, PartialWritesCounted
<1> QED
  BY <1>2, <1>3, <1>4, <1>5, <1>7 DEF IOInv

LEMMA CloseKeeps ==
    ASSUME NEW c \in Threads, NEW fd \in Fds, IOInv, Close(c, fd)
    PROVE  IOInv'
<1>0. TypeOK /\ FilesOK
  BY DEF IOInv
<1>1. /\ open' = [open EXCEPT ![fd] = FALSE] /\ ret' = NULL
      /\ UNCHANGED <<pth_current, state, events, cancelreq, cancelstate, links, status, call,
                     mode, in, out, taker>>
  BY DEF Close, sched, cancel
<1>2. open' \in [Fds -> BOOLEAN] /\ \A f \in Fds : open'[f] => open[f]
  BY <1>0, <1>1 DEF FilesOK
<1>3. TypeOK' /\ FilesOK'
  BY <1>0, <1>1, <1>2 DEF TypeOK, FilesOK
<1>4. \A t \in Threads : call[t] # NULL => call[t].fd \in Fds
  BY <1>0 DEF TypeOK, Calls
<1>5. Places' /\ Woken' /\ Met'
  BY <1>1 DEF IOInv, Places, WaitsIn, Woken, Met, Left, Excused
<1>6. Failing'
  BY <1>1, <1>2, <1>4 DEF IOInv, Failing
<1>7. Modes'
  BY <1>1, <1>2 DEF IOInv, Modes, Owns
<1>8. PartialWritesCounted'
  BY <1>1 DEF IOInv, PartialWritesCounted
<1> QED
  BY <1>3, <1>5, <1>6, <1>7, <1>8 DEF IOInv

LEMMA PeerKeeps ==
    ASSUME NEW fd \in Fds, IOInv, Peer(fd)
    PROVE  IOInv'
<1>0. TypeOK /\ FilesOK
  BY DEF IOInv
<1>1. /\ ret' = NULL
      /\ UNCHANGED <<pth_current, state, events, cancelreq, cancelstate, links, status, call,
                     open, mode>>
      /\ \/ in' = [in EXCEPT ![fd] = @ + 1] /\ taker' = [taker EXCEPT ![fd] = NULL]
            /\ UNCHANGED out
         \/ out[fd] > 0 /\ out' = [out EXCEPT ![fd] = @ - 1] /\ UNCHANGED <<in, taker>>
         \/ UNCHANGED <<in, out, taker>>
  BY DEF Peer, sched, cancel
<1>2. /\ in' \in [Fds -> Nat] /\ out' \in [Fds -> Nat] /\ taker' \in [Fds -> Threads \cup {NULL}]
      /\ \A f \in Fds : in'[f] > 0 \/ (in'[f] = in[f] /\ taker'[f] = taker[f])
  <2>1. CASE in' = [in EXCEPT ![fd] = @ + 1] /\ taker' = [taker EXCEPT ![fd] = NULL]
             /\ UNCHANGED out
    BY <1>0, <2>1 DEF FilesOK
  <2>2. CASE out[fd] > 0 /\ out' = [out EXCEPT ![fd] = @ - 1] /\ UNCHANGED <<in, taker>>
    BY <1>0, <2>2 DEF FilesOK
  <2>3. CASE UNCHANGED <<in, out, taker>>
    BY <1>0, <2>3 DEF FilesOK
  <2> QED BY <1>1, <2>1, <2>2, <2>3
<1>3. TypeOK' /\ FilesOK'
  BY <1>0, <1>1, <1>2 DEF TypeOK, FilesOK
<1>4. \A t \in Threads : call[t] # NULL => call[t].fd \in Fds
  BY <1>0 DEF TypeOK, Calls
<1>5. Places' /\ Woken' /\ Failing'
  BY <1>1 DEF IOInv, Places, WaitsIn, Woken, Failing
<1>6. Met'
  <2>1. \A t \in Threads : call[t] # NULL /\ Left(t) => Left(t)'
    BY <1>1, <1>2, <1>4 DEF Left
  <2>2. \A t \in Threads : events[t] # NULL => call[t] # NULL
    BY DEF IOInv, Places
  <2> HIDE DEF Left
  <2> QED BY <1>1, <2>1, <2>2 DEF IOInv, Met, Excused
<1>7. Modes' /\ PartialWritesCounted'
  BY <1>1 DEF IOInv, Modes, Owns, PartialWritesCounted
<1> QED
  BY <1>3, <1>5, <1>6, <1>7 DEF IOInv

-----------------------------------------------------------------------------
(*                               The theorems                              *)

LEMMA InitIOInv == Init => IOInv
<1> SUFFICES ASSUME Init PROVE IOInv
  OBVIOUS
<1> PICK fds \in Opened : open = [f \in Fds |-> f \in fds]
  BY DEF Init
<1>1. links \in Links /\ \A t \in Threads : Quiet(links, t)
  <2>1. ASSUME NEW t \in Threads
        PROVE  Given(t) \in Links /\ Quiet(Given(t), t)
    <3>1. CASE t \in Pair
      BY <3>1, OwnEvents
      DEF Given, Chain, Unlinked, Links, Quiet, ExtrasApart, Linked
    <3>2. CASE t \notin Pair
      BY <3>2, OwnEvents
      DEF Given, Unlinked, Links, Quiet, ExtrasApart, Linked
    <3> QED BY <3>1, <3>2
  <2>2. /\ links.next = [e \in Event |-> Given(e[1]).next[e]]
        /\ links.prev = [e \in Event |-> Given(e[1]).prev[e]]
        /\ links = [next |-> links.next, prev |-> links.prev]
    BY DEF Init
  <2>3. \A e \in Event : Given(e[1]).next[e] \in Event /\ Given(e[1]).prev[e] \in Event
    BY <2>1, EveryEvent DEF Links
  <2>4. links \in Links
    <3>1. links.next \in [Event -> Event] /\ links.prev \in [Event -> Event]
      BY <2>2, <2>3
    <3> QED BY <2>2, <3>1 DEF Links
  <2>5. ASSUME NEW t \in Threads PROVE Quiet(links, t)
    <3>1. \A e \in {Io(t), Time(t), Msg(t), Other(t)} :
             links.next[e] = Given(t).next[e] /\ links.prev[e] = Given(t).prev[e]
      <4>1. \A e \in Event : /\ links.next[e] = Given(e[1]).next[e]
                              /\ links.prev[e] = Given(e[1]).prev[e]
        BY <2>2
      <4>2. \A e \in {Io(t), Time(t), Msg(t), Other(t)} : e \in Event /\ e[1] = t
        BY OwnEvents
      <4> QED BY <4>1, <4>2
    <3>2. Quiet(Given(t), t)
      BY <2>1
    <3> QED BY <3>1, <3>2 DEF Quiet, ExtrasApart, Linked
  <2> QED BY <2>4, <2>5
<1>2. /\ pth_current = NULL /\ ret = NULL
      /\ state = [t \in Threads |-> "ready"] /\ events = [t \in Threads |-> NULL]
      /\ cancelreq = [t \in Threads |-> FALSE] /\ status = [e \in Event |-> "PENDING"]
      /\ call = [t \in Threads |-> NULL]
      /\ cancelstate = [t \in Threads |-> "deferred"]
      /\ mode = [f \in Fds |-> "BLOCK"]
      /\ in = [f \in Fds |-> 0] /\ out = [f \in Fds |-> 0] /\ taker = [f \in Fds |-> NULL]
  BY DEF Init
<1>3. TypeOK
  BY <1>1, <1>2 DEF TypeOK
<1>4. FilesOK
  <2>1. open \in [Fds -> BOOLEAN]
    OBVIOUS
  <2> QED BY <1>2, <2>1 DEF FilesOK
<1>5. Places
  BY <1>1, <1>2, IOAssumption DEF Places, WaitsIn
<1>6. Failing /\ Woken /\ Met
  BY <1>2, OwnEvents DEF Failing, Woken, Met
<1>7. Modes
  BY <1>2 DEF Modes, Owns
<1>8. PartialWritesCounted
  BY <1>2 DEF PartialWritesCounted
<1> QED
  BY <1>3, <1>4, <1>5, <1>6, <1>7, <1>8 DEF IOInv

LEMMA StepKeeps ==
    ASSUME NEW c \in Threads, IOInv, Step(c)
    PROVE  IOInv'
<1>1. ASSUME NEW fd \in Fds, NEW extra \in Extras(c),
             \/ pth_read_ev(c, fd, extra) \/ pth_readv_ev(c, fd, extra)
             \/ pth_recvfrom_ev(c, fd, extra)
             \/ pth_write_ev(c, fd, extra) \/ pth_writev_ev(c, fd, extra)
             \/ pth_sendto_ev(c, fd, extra)
             \/ pth_accept_ev(c, fd, extra) \/ pth_connect_ev(c, fd, extra)
             \/ \E timed \in BOOLEAN : pth_select_ev(c, fd, extra, timed)
      PROVE  IOInv'
  <2>0. extra \in BOOLEAN
    BY DEF Extras
  <2>1. CASE pth_read_ev(c, fd, extra) \/ pth_readv_ev(c, fd, extra) \/ pth_recvfrom_ev(c, fd, extra)
    BY <2>0, <2>1, ReadingSteps, CallStepKeeps DEF pth_read_ev, pth_readv_ev, pth_recvfrom_ev
  <2>2. CASE pth_write_ev(c, fd, extra) \/ pth_writev_ev(c, fd, extra) \/ pth_sendto_ev(c, fd, extra)
    BY <2>0, <2>2, WritingSteps, CallStepKeeps DEF pth_write_ev, pth_writev_ev, pth_sendto_ev
  <2>3. CASE pth_accept_ev(c, fd, extra)
    BY <2>0, <2>3, AcceptSteps, CallStepKeeps
  <2>4. CASE pth_connect_ev(c, fd, extra)
    BY <2>0, <2>4, ConnectSteps, CallStepKeeps
  <2>5. CASE \E timed \in BOOLEAN : pth_select_ev(c, fd, extra, timed)
    BY <2>0, <2>5, SelectSteps, CallStepKeeps
  <2> QED BY <1>1, <2>1, <2>2, <2>3, <2>4, <2>5
<1>2. ASSUME NEW m \in Messages,
             pth_msgport_reply(c, m) \/ \E p \in Threads : pth_msgport_put(c, m, p)
      PROVE  IOInv'
  BY <1>2, AsideKeeps DEF pth_msgport_reply, pth_msgport_put, Put, sched, cancel, files
<1>3. CASE pth_msgport_get(c) \/ pth_msgport_destroy(c)
  BY <1>3, AsideKeeps DEF pth_msgport_get, pth_msgport_destroy, sched, cancel, files
<1>4. ASSUME NEW t \in Threads, pth_cancel(c, t) PROVE IOInv'
  <2>1. CASE cancelstate[t] = "async"
    BY <1>4, <2>1, CancelKeeps
  <2>2. CASE cancelstate[t] # "async"
    <3>1. /\ ret' = NULL
          /\ UNCHANGED <<events, links, status, call, open, mode, in, out, taker>>
          /\ UNCHANGED <<pth_current, state, cancelstate>>
          /\ cancelreq' = [cancelreq EXCEPT ![t] = TRUE]
      BY <1>4, <2>2 DEF pth_cancel, files
    <3> QED BY <3>1, AsideKeeps
  <2> QED BY <2>1, <2>2
<1>6. ASSUME NEW new \in {"deferred", "async", "disabled"}, pth_cancel_state(c, new) PROVE IOInv'
  <2>1. /\ ret' = NULL
        /\ UNCHANGED <<events, links, status, call, open, mode, in, out, taker>>
        /\ UNCHANGED <<pth_current, state, cancelreq>>
        /\ \A t \in Threads : pth_current = t => call[t] = NULL
        /\ cancelstate' = [cancelstate EXCEPT ![c] = new]
    BY <1>6 DEF pth_cancel_state, Running, files
  <2> QED BY <2>1, AsideKeeps
<1>5. ASSUME NEW fd \in Fds, Close(c, fd) PROVE IOInv'
  BY <1>5, CloseKeeps
<1> QED
  BY <1>1, <1>2, <1>3, <1>4, <1>5, <1>6 DEF Step

LEMMA NextKeeps == IOInv /\ [Next]_vars => IOInv'
<1> SUFFICES ASSUME IOInv, [Next]_vars PROVE IOInv'
  OBVIOUS
<1>1. ASSUME NEW c \in Threads, Schedule(c) PROVE IOInv'
  BY <1>1, ScheduleKeeps
<1>2. ASSUME NEW c \in Threads, Step(c) PROVE IOInv'
  BY <1>2, StepKeeps
<1>3. ASSUME NEW c \in Threads, Returns(c) PROVE IOInv'
  BY <1>3, ReadReturnsSteps, WriteReturnsSteps, AcceptReturnsSteps, ConnectReturnsSteps,
     SelectReturnsSteps, CallStepKeeps, CancelPointKeeps DEF Returns
<1>4. ASSUME NEW c \in Threads, ReadUnblocks(c) PROVE IOInv'
  BY <1>4, ReadUnblocksSteps, CallStepKeeps
<1>5. ASSUME NEW c \in Threads, Yield(c) PROVE IOInv'
  BY <1>5, AsideKeeps DEF Yield, Running, cancel, files
<1>6. ASSUME NEW fd \in Fds, Peer(fd) PROVE IOInv'
  BY <1>6, PeerKeeps
<1>7. CASE UNCHANGED vars
  BY <1>7
  DEF vars, sched, cancel, files, ports, IOInv, TypeOK, FilesOK, Places, WaitsIn, Failing, Woken,
      Met, Left, Excused, Modes, Owns, PartialWritesCounted
<1> QED
  BY <1>1, <1>2, <1>3, <1>4, <1>5, <1>6, <1>7 DEF Next

(* What the four theorems below rest on, kept by every step of any number   *)
(* of threads: the event rings of a thread have one of the few shapes that *)
(* pth_event_concat and pth_event_isolate give them in its call, a thread  *)
(* waits only in a call and at the head of such a ring, a mode is borrowed *)
(* by one thread at a time, and what is left to write is what the vector   *)
(* holds.                                                                  *)
THEOREM IOInvariant == Spec => []IOInv
<1>1. Init => IOInv
  BY InitIOInv
<1>2. IOInv /\ [Next]_vars => IOInv'
  BY NextKeeps
<1> QED
  BY <1>1, <1>2, PTL DEF Spec

\* The shapes of the rings are all closed.
LEMMA RingsClosed ==
    ASSUME IOInv PROVE RingsWhole
<1>0. links \in Links /\ Places
  BY DEF IOInv, TypeOK
<1>1. ASSUME NEW t \in Threads
      PROVE  Quiet(links, t) \/ Attached(links, t) \/ Timed(links, t) \/ TimedAttached(links, t)
  BY <1>0 DEF Places, Shape
<1>2. ASSUME NEW t \in Threads, NEW e \in {Io(t), Time(t), Msg(t), Other(t)}
      PROVE  links.prev[links.next[e]] = e /\ links.next[links.prev[e]] = e
  <2>1. CASE Quiet(links, t)
    BY <1>2, <2>1 DEF Quiet, ExtrasApart, Linked
  <2>2. CASE Attached(links, t)
    BY <1>2, <2>2 DEF Attached, Linked
  <2>3. CASE Timed(links, t)
    BY <1>2, <2>3 DEF Timed, ExtrasApart, Linked
  <2>4. CASE TimedAttached(links, t)
    BY <1>2, <2>4 DEF TimedAttached, Linked
  <2> QED BY <1>1, <2>1, <2>2, <2>3, <2>4
<1>3. Closed(links)
  BY <1>2, EveryEvent DEF Closed
<1>4. ASSUME NEW t \in Threads, call[t] = NULL
      PROVE  /\ Alone(links, Io(t)) /\ Alone(links, Time(t))
             /\ pth_event_walk(links, Msg(t)) = IF t \in Pair THEN {Msg(t), Other(t)} ELSE {Msg(t)}
  <2>1. Quiet(links, t)
    BY <1>0, <1>4 DEF Places
  <2>2. Alone(links, Io(t)) /\ Alone(links, Time(t))
    BY <2>1 DEF Quiet, Linked, Alone
  <2>3. CASE t \in Pair
    BY <1>0, <2>1, <2>2, <2>3, OwnEvents, WalkTwo DEF Quiet, ExtrasApart, Linked
  <2>4. CASE t \notin Pair
    BY <1>0, <2>1, <2>2, <2>4, OwnEvents, WalkAlone DEF Quiet, ExtrasApart, Linked
  <2> QED BY <2>2, <2>3, <2>4
<1> QED
  BY <1>3, <1>4 DEF RingsWhole

LEMMA ModesOwned ==
    ASSUME IOInv PROVE ModeRestored
<1> SUFFICES ASSUME NEW fd \in Fds, open[fd]
             PROVE  /\ (mode[fd] = "NONBLOCK") = (ModeOwners(fd) # {})
                    /\ Cardinality(ModeOwners(fd)) <= 1
  BY DEF ModeRestored
<1>1. \A t \in Threads : t \in ModeOwners(fd) <=> Owns(call[t], fd)
  BY DEF ModeOwners, Inside, Owns
<1>2. /\ mode[fd] = "NONBLOCK" <=> \E t \in Threads : Owns(call[t], fd)
      /\ \A t, u \in Threads : Owns(call[t], fd) /\ Owns(call[u], fd) => t = u
  BY DEF IOInv, Modes
<1>3. ModeOwners(fd) \subseteq Threads
  BY DEF ModeOwners
<1>4. (mode[fd] = "NONBLOCK") = (ModeOwners(fd) # {})
  BY <1>1, <1>2, <1>3
<1>5. Cardinality(ModeOwners(fd)) <= 1
  <2>1. CASE ModeOwners(fd) = {}
    BY <2>1, FS_EmptySet
  <2>2. CASE ModeOwners(fd) # {}
    <3>1. PICK t \in Threads : ModeOwners(fd) = {t}
      BY <1>1, <1>2, <1>3, <2>2
    <3> QED BY <3>1, FS_Singleton
  <2> QED BY <2>1, <2>2
<1> QED
  BY <1>4, <1>5

(* Whichever way a call of pth_high.c ends, by what it waited for, by an   *)
(* extra event, by a closed descriptor or by the cancellation of its       *)
(* thread, all event rings are closed, a thread that is in no call has its *)
(* events as it gave them, and a descriptor is nonblocking just as long as *)
(* the one thread that made it so is in its call.                          *)
THEOREM TracesGone == Spec => []CallsLeaveNoTrace
<1>1. IOInv => CallsLeaveNoTrace
  BY RingsClosed, ModesOwned DEF CallsLeaveNoTrace
<1> QED
  BY <1>1, IOInvariant, PTL

(* The promise of the comment before the system call of pth_read_ev, for   *)
(* any number of threads at any descriptors: a read that has waited blocks *)
(* the process only if another thread has read what it was woken for, or   *)
(* if it was woken by a request of cancellation that its thread has        *)
(* disabled and had no extra events, for which it would look again.        *)
THEOREM OnlyRobbedBlock == Spec => []BlocksOnlyWhenRobbed
<1>1. IOInv => BlocksOnlyWhenRobbed
  <2> SUFFICES ASSUME IOInv, NEW t \in Threads, NEW fd \in Fds, Inside(t, fd, {"blocked"}),
                      in[fd] = 0
               PROVE  \/ taker[fd] \notin {NULL, t}
                      \/ cancelreq[t] /\ cancelstate[t] = "disabled" /\ ~call[t].extra
    BY DEF BlocksOnlyWhenRobbed
  <2>1. Left(t) \/ Excused(t, call[t])
    BY DEF Inside, IOInv, Met
  <2>2. call[t].fd = fd
    BY DEF Inside
  <2> QED BY <2>1, <2>2 DEF Left, Excused
<1> QED
  BY <1>1, IOInvariant, PTL

(* A vector of any segments, written in any portions between any waits:    *)
(* what a writing call returns is what it has written, what it has still   *)
(* to write is what is left of the vector, and an error other than an      *)
(* interruption means that nothing was written.                            *)
THEOREM WritesCounted == Spec => []PartialWritesCounted
<1>1. IOInv => PartialWritesCounted
  BY DEF IOInv
<1> QED
  BY <1>1, IOInvariant, PTL

(* When a descriptor that some thread waits for is closed, and select(2)   *)
(* fails for all of them, pth_sched_eventmanager fails those that wait for *)
(* that descriptor; the mark is gone with the call or its next wait.       *)
THEOREM FailuresHit == Spec => []OnlyClosedFail
<1>1. IOInv => OnlyClosedFail
  <2> SUFFICES ASSUME IOInv, NEW t \in Threads, NEW fd \in Fds, status[Io(t)] = "FAILED",
                      Inside(t, fd, {"read", "write", "accept", "connect", "select"})
               PROVE  ~open[fd]
    BY DEF OnlyClosedFail
  <2>1. call[t].fd = fd /\ ~open[call[t].fd]
    BY DEF Inside, IOInv, Failing
  <2> QED BY <2>1
<1> QED
  BY <1>1, IOInvariant, PTL

=============================================================================
