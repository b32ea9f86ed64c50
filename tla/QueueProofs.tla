----------------------------- MODULE QueueProofs ------------------------------
(***************************************************************************)
(* Proofs about the queues of both libraries.  The ring of PthPqueue       *)
(* implements the queue of PrioQueueSpec and the ring of PthRing is a      *)
(* sequence, for any set of threads or nodes and any priorities; what it   *)
(* takes to link one into a circle and out of it is proved once for both   *)
(* (CircleGrows, CircleShrinks).  The schedulers of CoSched start every    *)
(* coroutine once, and the service of CoTimer keeps every timer in one     *)
(* place, for any number of callers.                                       *)
(***************************************************************************)
EXTENDS PthPqueue, PthRing, CoSched, CoTimer, PrioQueueProofs, NaturalsInduction

Rings ==
    [head : Threads \cup {NULL}, num : Nat,
     next : [Threads -> Threads \cup {NULL}],
     prev : [Threads -> Threads \cup {NULL}],
     prio : [Threads -> Int]]

(* n nodes s linked both ways in a circle.                                 *)
Circle(next, prev, s, n) ==
    \A i \in 1 .. n :
        /\ next[s[i]] = IF i = n THEN s[1] ELSE s[i + 1]
        /\ prev[s[i]] = IF i = 1 THEN s[n] ELSE s[i - 1]

(* The ring r stores the threads s with the absolute priorities p. *)
Linked(r, s) == Circle(r.next, r.prev, s, r.num)

Differences(r, s, p) ==
    \A i \in 1 .. r.num : r.prio[s[i]] = IF i = 1 THEN p[1] ELSE p[i - 1] - p[i]

\* Nobody is queued twice, and priorities only fall along the queue.
OnceEach(s, n) == \A i, j \in 1 .. n : s[i] = s[j] => i = j

Falling(p, n) == \A i, j \in 1 .. n : i <= j => p[i] >= p[j]

Stores(r, s, p) ==
    /\ r \in Rings
    /\ s \in [1 .. r.num -> Threads] /\ p \in [1 .. r.num -> Int]
    /\ OnceEach(s, r.num) /\ Falling(p, r.num)
    /\ r.head = IF r.num = 0 THEN NULL ELSE s[1]
    /\ Linked(r, s) /\ Differences(r, s, p)

IInv == \E s, p : Stores(q, s, p)

LEMMA PQSame ==
    /\ \A x, prio, t : PQ!Insert(x, prio, t) = Insert(x, prio, t)
    /\ \A x, t : PQ!PushFavorite(x, t) = PushFavorite(x, t)
    /\ \A x, t : PQ!Delete(x, t) = Delete(x, t)
    /\ \A x, t : PQ!Favorite(x, t) = Favorite(x, t)
    /\ \A x : PQ!Increase(x) = Increase(x)
    /\ \A x : PQ!Members(x) = Members(x)
<1>1. \A x, prio, t : PQ!Insert(x, prio, t) = Insert(x, prio, t)
  <2>1. \A x, prio : PQ!Place(x, prio) = Place(x, prio)
    BY DEF PQ!Place, Place, PQ!Cardinality, Cardinality
  <2>2. \A x, k, e : PQ!InsertAt(x, k, e) = InsertAt(x, k, e)
    BY DEF PQ!InsertAt, InsertAt
  <2> QED BY <2>1, <2>2 DEF PQ!Insert, Insert
<1>2. \A x, t : PQ!PushFavorite(x, t) = PushFavorite(x, t)
  BY DEF PQ!PushFavorite, PushFavorite, PQ!FavoritePrio, FavoritePrio, PQ!Clamp, Clamp
<1>3. \A x, t : PQ!Delete(x, t) = Delete(x, t)
  BY DEF PQ!Delete, Delete, PQ!Position, Position, PQ!RemoveAt, RemoveAt
<1>4. \A x, t : PQ!Favorite(x, t) = Favorite(x, t)
  BY <1>2, <1>3 DEF PQ!Favorite, Favorite
<1>5. \A x : PQ!Increase(x) = Increase(x)
  BY DEF PQ!Increase, Increase, PQ!Clamp, Clamp
<1>6. \A x : PQ!Members(x) = Members(x)
  BY DEF PQ!Members, Members
<1> QED BY <1>1, <1>2, <1>3, <1>4, <1>5, <1>6

LEMMA Least ==
    ASSUME NEW S \in SUBSET Nat, S # {}
    PROVE  \E k \in S : \A j \in S : k <= j
<1> DEFINE Less == {ss \in Nat \X Nat : ss[1] < ss[2]}
<1>1. IsWellFoundedOn(Less, Nat)
  BY NatLessThanWellFounded, Zenon DEF OpToRel
<1>2. PICK m \in S : \A n \in S : <<n, m>> \notin Less
  <2> HIDE DEF Less
  <2> QED BY <1>1, WFMin
<1>3. \A n \in S : ~(n < m)
  <2>1. \A n \in S : <<n, m>> \in Nat \X Nat /\ <<n, m>>[1] = n /\ <<n, m>>[2] = m
    OBVIOUS
  <2> QED BY <1>2, <2>1
<1> QED BY <1>3

LEMMA Steps ==
    ASSUME NEW S, 0 \in S, \A n \in Nat : n \in S => n + 1 \in S
    PROVE  Nat \subseteq S
<1> DEFINE T == {n \in Nat : n \notin S}
<1> SUFFICES ASSUME T # {} PROVE FALSE
  OBVIOUS
<1>1. PICK m \in T : \A n \in T : m <= n
  BY Least
<1>2. m # 0 /\ m - 1 \in Nat /\ m - 1 \notin T
  BY <1>1
<1> QED BY <1>2

-----------------------------------------------------------------------------
(*                     What Chain and AbsPrio read                         *)

LEMMA ChainReads ==
    ASSUME NEW r, NEW s, NEW p, Stores(r, s, p)
    PROVE  Chain(r) = s
<1> DEFINE F(c) == [i \in 1 .. r.num |-> IF i = 1 THEN r.head ELSE r.next[c[i-1]]]
           c0 == CHOOSE c : c = F(c)
<1>0. r.num \in Nat /\ s \in [1 .. r.num -> Threads]
  BY DEF Stores, Rings
<1>1. s = F(s)
  <2>1. \A i \in 1 .. r.num : s[i] = IF i = 1 THEN r.head ELSE r.next[s[i-1]]
    BY <1>0 DEF Stores, Linked, Circle
  <2>2. DOMAIN F(s) = 1 .. r.num /\ \A i \in 1 .. r.num : F(s)[i] = s[i]
    BY <2>1
  <2>3. s = [i \in 1 .. r.num |-> s[i]]
    BY <1>0
  <2> QED BY <2>1, <2>3
<1>2. c0 = F(c0)
  <2> HIDE DEF F
  <2> QED BY <1>1
<1>3. Chain(r) = c0
  BY DEF Chain
<1> HIDE DEF c0
<1> DEFINE S == {n \in Nat : n \in 1 .. r.num => c0[n] = s[n]}
<1>4. Nat \subseteq S
  <2>1. 0 \in S
    OBVIOUS
  <2>2. ASSUME NEW n \in Nat, n \in S PROVE n + 1 \in S
    <3> SUFFICES ASSUME n + 1 \in 1 .. r.num PROVE c0[n + 1] = s[n + 1]
      OBVIOUS
    <3>1. c0[n + 1] = IF n + 1 = 1 THEN r.head ELSE r.next[c0[(n + 1) - 1]]
      BY <1>2
    <3>2. s[n + 1] = IF n + 1 = 1 THEN r.head ELSE r.next[s[(n + 1) - 1]]
      BY <1>1
    <3>3. (n + 1) - 1 = n /\ (n # 0 => n \in 1 .. r.num)
      BY <1>0
    <3>4. CASE n = 0
      BY <3>1, <3>2, <3>4
    <3>5. CASE n # 0
      BY <2>2, <3>1, <3>2, <3>3, <3>5
    <3> QED BY <3>4, <3>5
  <2> HIDE DEF S
  <2> QED BY <2>1, <2>2, Steps
<1>5. c0 = s
  <2>1. \A i \in 1 .. r.num : c0[i] = s[i]
    BY <1>0, <1>4
  <2>2. c0 = [i \in 1 .. r.num |-> c0[i]]
    BY <1>2
  <2>3. s = [i \in 1 .. r.num |-> s[i]]
    BY <1>0
  <2> QED BY <2>1, <2>2, <2>3
<1> QED BY <1>3, <1>5

LEMMA AbsPrioReads ==
    ASSUME NEW r, NEW s, NEW p, Stores(r, s, p)
    PROVE  AbsPrio(r) = p
<1> DEFINE F(a) == [i \in 1 .. r.num |->
                      IF i = 1 THEN r.prio[r.head] ELSE a[i-1] - r.prio[Chain(r)[i]]]
           a0 == CHOOSE a : a = F(a)
<1>0. r.num \in Nat /\ p \in [1 .. r.num -> Int] /\ Chain(r) = s
  BY ChainReads DEF Stores, Rings
<1>1. p = F(p)
  <2>1. \A i \in 1 .. r.num :
          p[i] = IF i = 1 THEN r.prio[r.head] ELSE p[i-1] - r.prio[Chain(r)[i]]
    <3> SUFFICES ASSUME NEW i \in 1 .. r.num
                 PROVE  p[i] = IF i = 1 THEN r.prio[r.head] ELSE p[i-1] - r.prio[Chain(r)[i]]
      OBVIOUS
    <3>1. r.prio[s[i]] = IF i = 1 THEN p[1] ELSE p[i - 1] - p[i]
      BY DEF Stores, Differences
    <3>2. CASE i = 1
      BY <1>0, <3>1, <3>2 DEF Stores
    <3>3. CASE i # 1
      <4>1. i - 1 \in 1 .. r.num /\ p[i] \in Int /\ p[i - 1] \in Int
        BY <1>0, <3>3
      <4> QED BY <1>0, <3>1, <3>3, <4>1
    <3> QED BY <3>2, <3>3
  <2>3. p = [i \in 1 .. r.num |-> p[i]]
    BY <1>0
  <2> QED BY <2>1, <2>3
<1>2. a0 = F(a0)
  <2> HIDE DEF F
  <2> QED BY <1>1
<1>3. AbsPrio(r) = a0
  BY DEF AbsPrio
<1> HIDE DEF a0
<1> DEFINE S == {n \in Nat : n \in 1 .. r.num => a0[n] = p[n]}
<1>4. Nat \subseteq S
  <2>1. 0 \in S
    OBVIOUS
  <2>2. ASSUME NEW n \in Nat, n \in S PROVE n + 1 \in S
    <3> SUFFICES ASSUME n + 1 \in 1 .. r.num PROVE a0[n + 1] = p[n + 1]
      OBVIOUS
    <3>1. a0[n + 1] = IF n + 1 = 1 THEN r.prio[r.head]
                      ELSE a0[(n + 1) - 1] - r.prio[Chain(r)[n + 1]]
      BY <1>2
    <3>2. p[n + 1] = IF n + 1 = 1 THEN r.prio[r.head]
                     ELSE p[(n + 1) - 1] - r.prio[Chain(r)[n + 1]]
      BY <1>1
    <3>3. (n + 1) - 1 = n /\ (n # 0 => n \in 1 .. r.num)
      BY <1>0
    <3>4. CASE n = 0
      BY <3>1, <3>2, <3>4
    <3>5. CASE n # 0
      BY <2>2, <3>1, <3>2, <3>3, <3>5
    <3> QED BY <3>4, <3>5
  <2> HIDE DEF S
  <2> QED BY <2>1, <2>2, Steps
<1>5. a0 = p
  <2>1. \A i \in 1 .. r.num : a0[i] = p[i]
    BY <1>0, <1>4
  <2>2. a0 = [i \in 1 .. r.num |-> a0[i]]
    BY <1>2
  <2>3. p = [i \in 1 .. r.num |-> p[i]]
    BY <1>0
  <2> QED BY <2>1, <2>2, <2>3
<1> QED BY <1>3, <1>5

-----------------------------------------------------------------------------
(*                              Insertion                                  *)

\* A function on 1 .. n with x behind its first k values.
With(f, n, k, x) ==
    [i \in 1 .. n + 1 |-> IF i <= k THEN f[i] ELSE IF i = k + 1 THEN x ELSE f[i - 1]]

LEMMA WithInjective ==
    ASSUME NEW S, NEW n \in Nat, NEW k \in 0 .. n, NEW s \in [1 .. n -> S], NEW t \in S,
           OnceEach(s, n), \A i \in 1 .. n : s[i] # t
    PROVE  /\ With(s, n, k, t) \in [1 .. n + 1 -> S]
           /\ OnceEach(With(s, n, k, t), n + 1)
<1> DEFINE w == With(s, n, k, t)
           From(i) == IF i <= k THEN i ELSE i - 1
<1>1. \A i \in 1 .. n + 1 : IF i = k + 1 THEN w[i] = t
                            ELSE From(i) \in 1 .. n /\ w[i] = s[From(i)]
  BY DEF With
<1>2. w \in [1 .. n + 1 -> S]
  BY DEF With
<1>3. ASSUME NEW i \in 1 .. n + 1, NEW j \in 1 .. n + 1, w[i] = w[j] PROVE i = j
  <2>1. CASE i = k + 1 \/ j = k + 1
    <3> HIDE DEF w, From
    <3> QED BY <1>1, <1>3, <2>1
  <2>2. CASE i # k + 1 /\ j # k + 1
    <3>1. From(i) = From(j)
      <4> HIDE DEF w, From
      <4> QED BY <1>1, <1>3, <2>2 DEF OnceEach
    <3> QED BY <2>2, <3>1
  <2> QED BY <2>1, <2>2
<1> QED BY <1>2, <1>3 DEF OnceEach

LEMMA WithOrdered ==
    ASSUME NEW n \in Nat, NEW k \in 0 .. n, NEW p \in [1 .. n -> Int], NEW x \in Int,
           Falling(p, n),
           k = 0 \/ p[k] >= x, k = n \/ x >= p[k + 1]
    PROVE  /\ With(p, n, k, x) \in [1 .. n + 1 -> Int]
           /\ Falling(With(p, n, k, x), n + 1)
<1> DEFINE w == With(p, n, k, x)
           From(i) == IF i <= k THEN i ELSE i - 1
<1>1. \A i \in 1 .. n + 1 : IF i = k + 1 THEN w[i] = x
                            ELSE From(i) \in 1 .. n /\ w[i] = p[From(i)]
  BY DEF With
<1>2. w \in [1 .. n + 1 -> Int]
  BY DEF With
<1>3. \A i \in 1 .. n : (i <= k => p[i] >= x) /\ (i > k => x >= p[i])
  <2> SUFFICES ASSUME NEW i \in 1 .. n PROVE (i <= k => p[i] >= x) /\ (i > k => x >= p[i])
    OBVIOUS
  <2>1. CASE i <= k
    <3>1. k \in 1 .. n /\ p[i] >= p[k] /\ p[k] >= x /\ p[i] \in Int /\ p[k] \in Int
      BY <2>1 DEF Falling
    <3> QED BY <2>1, <3>1
  <2>2. CASE i > k
    <3>1. k + 1 \in 1 .. n /\ p[k + 1] >= p[i] /\ x >= p[k + 1] /\ p[i] \in Int /\ p[k + 1] \in Int
      BY <2>2 DEF Falling
    <3> QED BY <2>2, <3>1
  <2> QED BY <2>1, <2>2
<1>4. ASSUME NEW i \in 1 .. n + 1, NEW j \in 1 .. n + 1, i <= j PROVE w[i] >= w[j]
  <2>1. CASE i = k + 1 /\ j = k + 1
    BY <1>1, <2>1
  <2>2. CASE i = k + 1 /\ j # k + 1
    <3>1. From(j) > k /\ From(j) \in 1 .. n
      BY <1>4, <2>2
    <3> HIDE DEF w, From
    <3> QED BY <1>1, <1>3, <2>2, <3>1
  <2>3. CASE i # k + 1 /\ j = k + 1
    <3>1. From(i) <= k /\ From(i) \in 1 .. n
      BY <1>4, <2>3
    <3> HIDE DEF w, From
    <3> QED BY <1>1, <1>3, <2>3, <3>1
  <2>4. CASE i # k + 1 /\ j # k + 1
    <3>1. From(i) <= From(j) /\ From(i) \in 1 .. n /\ From(j) \in 1 .. n
      BY <1>4, <2>4
    <3> HIDE DEF w, From
    <3> QED BY <1>1, <2>4, <3>1 DEF Falling
  <2> QED BY <2>1, <2>2, <2>3, <2>4
<1> QED BY <1>2, <1>4 DEF Falling

\* The first thread of an empty queue.
LEMMA InsertFirstStores ==
    ASSUME NEW r, NEW s, NEW p, Stores(r, s, p), r.num = 0,
           NEW t \in Threads, NEW x \in Int
    PROVE  Stores(InsertFirst(r, x, t), With(s, 0, 0, t), With(p, 0, 0, x))
<1> DEFINE r1 == InsertFirst(r, x, t)
           s1 == With(s, 0, 0, t)
           p1 == With(p, 0, 0, x)
<1>1. r \in Rings
  BY DEF Stores
<1>2. /\ r1 \in Rings /\ r1.num = 1 /\ r1.head = t
      /\ r1.next[t] = t /\ r1.prev[t] = t /\ r1.prio[t] = x
  BY <1>1 DEF Rings, InsertFirst
<1>3. /\ s1 \in [1 .. 1 -> Threads] /\ s1[1] = t
      /\ p1 \in [1 .. 1 -> Int] /\ p1[1] = x
  BY DEF With
<1>4. \A i \in 1 .. 1 : i = 1
  OBVIOUS
<1> HIDE DEF r1, s1, p1
<1>5. Linked(r1, s1) /\ Differences(r1, s1, p1)
  BY <1>2, <1>3, <1>4 DEF Linked, Circle, Differences
<1>6. /\ s1 \in [1 .. r1.num -> Threads] /\ p1 \in [1 .. r1.num -> Int]
      /\ OnceEach(s1, r1.num) /\ Falling(p1, r1.num)
      /\ r1.head = IF r1.num = 0 THEN NULL ELSE s1[1]
  BY <1>2, <1>3, <1>4 DEF OnceEach, Falling
<1>7. Stores(r1, s1, p1)
  BY <1>2, <1>5, <1>6 DEF Stores
<1> QED BY <1>7 DEF r1, s1, p1

(* The neighbours in the ring of the gap behind the first k of n threads.  *)
Ahead(s, n, k) == IF k = 0 THEN s[n] ELSE s[k]

After(s, n, k) == IF k = n THEN s[1] ELSE s[k + 1]

(* A node t linked in between these neighbours.                            *)
LEMMA CircleGrows ==
    ASSUME NEW Node, NEW n \in Nat, n # 0, NEW s \in [1 .. n -> Node], OnceEach(s, n),
           NEW next, NEW prev, Circle(next, prev, s, n),
           Node \subseteq DOMAIN next, Node \subseteq DOMAIN prev,
           NEW t \in Node, \A i \in 1 .. n : s[i] # t, NEW k \in 0 .. n,
           NEW next1, next1 = [next EXCEPT ![t] = After(s, n, k), ![Ahead(s, n, k)] = t],
           NEW prev1, prev1 = [prev EXCEPT ![t] = Ahead(s, n, k), ![After(s, n, k)] = t]
    PROVE  Circle(next1, prev1, With(s, n, k, t), n + 1)
<1> DEFINE w == With(s, n, k, t)
           a == Ahead(s, n, k)
           b == After(s, n, k)
<1>1. /\ n \in Nat /\ n >= 1 /\ k \in 0 .. n
      /\ s \in [1 .. n -> Node] /\ \A i \in 1 .. n : s[i] # t
      /\ OnceEach(s, n) /\ Circle(next, prev, s, n)
  OBVIOUS
<1>2. n \in Nat /\ n >= 1 /\ k \in 0 .. n
  OBVIOUS
<1>3. /\ \A j \in 1 .. k : w[j] = s[j] /\ j \in 1 .. n
      /\ w[k + 1] = t
      /\ \A j \in k + 1 .. n : w[j + 1] = s[j] /\ j \in 1 .. n
  BY <1>1 DEF With
<1> DEFINE ia == IF k = 0 THEN n ELSE k
           ib == IF k = n THEN 1 ELSE k + 1
<1>4. ia \in 1 .. n /\ ib \in 1 .. n /\ a = s[ia] /\ b = s[ib]
  BY <1>2 DEF Ahead, After
<1> HIDE DEF a, b
<1>5. a \in Node /\ b \in Node /\ a # t /\ b # t
  <2>1. /\ s[ia] \in Node /\ s[ia] # t
        /\ s[ib] \in Node /\ s[ib] # t
    <3> HIDE DEF ia, ib
    <3> QED BY <1>1, <1>4
  <2> QED BY <1>4, <2>1
<1>6. /\ next1[t] = b /\ prev1[t] = a
      /\ \A u \in Node \ {t} : /\ next1[u] = IF u = a THEN t ELSE next[u]
                               /\ prev1[u] = IF u = b THEN t ELSE prev[u]
  <2>1. /\ a # t /\ b # t /\ a \in Node /\ b \in Node
        /\ next1 = [next EXCEPT ![t] = b, ![a] = t]
        /\ prev1 = [prev EXCEPT ![t] = a, ![b] = t]
    BY <1>5 DEF a, b
  <2> HIDE DEF ia, ib
  <2> QED BY <1>1, <2>1
<1> HIDE DEF w
<1>7. ASSUME NEW j \in 1 .. n
      PROVE  /\ next1[s[j]] = IF j = ia THEN t ELSE IF j = n THEN s[1] ELSE s[j + 1]
             /\ prev1[s[j]] = IF j = ib THEN t ELSE IF j = 1 THEN s[n] ELSE s[j - 1]
  <2>1. s[j] \in Node \ {t} /\ (s[j] = a <=> j = ia) /\ (s[j] = b <=> j = ib)
    <3>1. \A i \in 1 .. n : s[i] = s[j] => i = j
      BY <1>1 DEF OnceEach
    <3> HIDE DEF ia, ib
    <3> QED BY <1>1, <1>4, <3>1
  <2>2. /\ next[s[j]] = IF j = n THEN s[1] ELSE s[j + 1]
        /\ prev[s[j]] = IF j = 1 THEN s[n] ELSE s[j - 1]
    BY <1>1 DEF Circle
  <2> HIDE DEF ia, ib
  <2> QED BY <1>6, <2>1, <2>2
<1>8. Circle(next1, prev1, w, n + 1)
  <2> SUFFICES ASSUME NEW i \in 1 .. n + 1
               PROVE  /\ next1[w[i]] = IF i = n + 1 THEN w[1] ELSE w[i + 1]
                      /\ prev1[w[i]] = IF i = 1 THEN w[n + 1] ELSE w[i - 1]
    BY DEF Circle
  <2>0. /\ k # 0 => w[1] = s[1] /\ w[k] = s[k]
        /\ k # n => w[n + 1] = s[n] /\ w[k + 2] = s[k + 1]
    <3>1. k # 0 => 1 \in 1 .. k /\ k \in 1 .. k
      BY <1>1
    <3>2. k # n => n \in k + 1 .. n /\ k + 1 \in k + 1 .. n /\ (k + 1) + 1 = k + 2
      BY <1>1
    <3> QED BY <1>3, <3>1, <3>2
  <2>1. CASE i = k + 1
    <3>1. next1[w[i]] = b /\ prev1[w[i]] = a
      BY <1>3, <1>6, <2>1
    <3>2. b = IF i = n + 1 THEN w[1] ELSE w[i + 1]
      <4>1. CASE k = n
        BY <1>1, <1>4, <2>0, <2>1, <4>1
      <4>2. CASE k # n
        BY <1>1, <1>4, <2>0, <2>1, <4>2
      <4> QED BY <4>1, <4>2
    <3>3. a = IF i = 1 THEN w[n + 1] ELSE w[i - 1]
      <4>1. CASE k = 0
        BY <1>1, <1>4, <2>0, <2>1, <4>1
      <4>2. CASE k # 0
        BY <1>1, <1>4, <2>0, <2>1, <4>2
      <4> QED BY <4>1, <4>2
    <3> QED BY <3>1, <3>2, <3>3
  <2>2. CASE i <= k
    <3>1. i \in 1 .. k /\ i \in 1 .. n /\ w[i] = s[i] /\ i # n + 1
      BY <1>1, <1>3, <2>2
    <3>2. next1[s[i]] = w[i + 1]
      <4>1. CASE i = k
        <5>1. i = ia /\ w[i + 1] = t
          BY <1>2, <1>3, <3>1, <4>1
        <5> QED BY <1>7, <3>1, <5>1
      <4>2. CASE i # k
        <5>1. i + 1 \in 1 .. k /\ i # n /\ i # ia
          BY <1>1, <3>1, <4>2
        <5> QED BY <1>3, <1>7, <3>1, <5>1
      <4> QED BY <4>1, <4>2
    <3>3. prev1[s[i]] = IF i = 1 THEN w[n + 1] ELSE w[i - 1]
      <4>1. CASE i = 1
        <5>1. prev1[s[i]] = IF k = n THEN t ELSE s[n]
          <6>1. ib = 1 <=> k = n
            BY <1>2, <2>2, <4>1
          <6>2. i = ib <=> k = n
            BY <4>1, <6>1
          <6> HIDE DEF ia, ib
          <6> QED BY <1>7, <3>1, <4>1, <6>2
        <5>2. w[n + 1] = IF k = n THEN t ELSE s[n]
          BY <1>3, <2>0
        <5> QED BY <4>1, <5>1, <5>2
      <4>2. CASE i # 1
        <5>1. i - 1 \in 1 .. k /\ i # ib
          BY <1>1, <3>1, <4>2
        <5> QED BY <1>3, <1>7, <3>1, <4>2, <5>1
      <4> QED BY <4>1, <4>2
    <3> QED BY <3>1, <3>2, <3>3
  <2>3. CASE i > k + 1
    <3> DEFINE j == i - 1
    <3>1. j \in k + 1 .. n /\ j \in 1 .. n /\ i = j + 1 /\ w[i] = s[j] /\ i # 1
      BY <1>1, <1>3, <2>3
    <3>2. next1[s[j]] = IF i = n + 1 THEN w[1] ELSE w[i + 1]
      <4>1. CASE j = n
        <5>1. next1[s[j]] = IF k = 0 THEN t ELSE s[1]
          BY <1>1, <1>7, <3>1, <4>1
        <5>2. w[1] = IF k = 0 THEN t ELSE s[1]
          BY <1>1, <1>3, <2>0
        <5> QED BY <3>1, <4>1, <5>1, <5>2
      <4>2. CASE j # n
        <5>1. j + 1 \in k + 1 .. n /\ j # ia /\ i # n + 1
          BY <1>1, <3>1, <4>2
        <5>2. w[(j + 1) + 1] = s[j + 1] /\ (j + 1) + 1 = i + 1
          BY <1>3, <3>1, <5>1
        <5>3. next1[s[j]] = s[j + 1]
          <6> HIDE DEF ia, ib, j
          <6> QED BY <1>7, <3>1, <4>2, <5>1
        <5> QED BY <5>1, <5>2, <5>3
      <4> QED BY <4>1, <4>2
    <3>3. prev1[s[j]] = w[i - 1]
      <4>1. CASE j = k + 1
        <5>1. ib = j /\ w[i - 1] = t
          BY <1>1, <1>3, <3>1, <4>1
        <5>2. prev1[s[j]] = t
          <6> HIDE DEF ia, ib, j
          <6> QED BY <1>7, <3>1, <5>1
        <5> QED BY <5>1, <5>2
      <4>2. CASE j # k + 1
        <5>1. j - 1 \in k + 1 .. n /\ j # ib /\ j # 1
          <6>1. j \in k + 1 .. n /\ j # k + 1
            BY <3>1, <4>2
          <6> HIDE DEF j
          <6> QED BY <1>2, <6>1
        <5>2. w[(j - 1) + 1] = s[j - 1] /\ (j - 1) + 1 = i - 1
          BY <1>3, <3>1, <5>1
        <5>3. prev1[s[j]] = s[j - 1]
          <6> HIDE DEF ia, ib, j
          <6> QED BY <1>7, <3>1, <5>1
        <5> QED BY <5>2, <5>3
      <4> QED BY <4>1, <4>2
    <3> QED BY <3>1, <3>2, <3>3
  <2> QED BY <1>1, <2>1, <2>2, <2>3
<1> QED BY <1>8 DEF w

(* A thread t of priority x linked in between these neighbours.            *)
LEMMA InsertedStores ==
    ASSUME NEW r, NEW s, NEW p, Stores(r, s, p), r.num # 0,
           NEW t \in Threads, \A i \in 1 .. r.num : s[i] # t,
           NEW x \in Int, NEW k \in 0 .. r.num,
           k = 0 \/ p[k] >= x, k = r.num \/ x >= p[k + 1],
           NEW r1,
           r1.head = IF k = 0 THEN t ELSE s[1], r1.num = r.num + 1,
           r1.next = [r.next EXCEPT ![t] = After(s, r.num, k), ![Ahead(s, r.num, k)] = t],
           r1.prev = [r.prev EXCEPT ![t] = Ahead(s, r.num, k), ![After(s, r.num, k)] = t],
           r1.prio \in [Threads -> Int], r1 \in Rings,
           r1.prio[t] = IF k = 0 THEN x ELSE p[k] - x,
           \A i \in 1 .. r.num :
              r1.prio[s[i]] = IF i = k + 1 THEN x - p[i] ELSE r.prio[s[i]]
    PROVE  Stores(r1, With(s, r.num, k, t), With(p, r.num, k, x))
<1> DEFINE n == r.num
           w == With(s, n, k, t)
           v == With(p, n, k, x)
<1>1. /\ n \in Nat /\ n >= 1 /\ k \in 0 .. n
      /\ r.next \in [Threads -> Threads \cup {NULL}] /\ r.prev \in [Threads -> Threads \cup {NULL}]
      /\ s \in [1 .. n -> Threads] /\ p \in [1 .. n -> Int]
      /\ OnceEach(s, n) /\ Falling(p, n)
      /\ \A i \in 1 .. n : s[i] # t
      /\ Linked(r, s) /\ Differences(r, s, p)
  BY DEF Stores, Rings
<1>2. n \in Nat /\ n >= 1 /\ k \in 0 .. n
  BY <1>1
<1>3. w \in [1 .. n + 1 -> Threads] /\ OnceEach(w, n + 1)
  <2>1. n \in Nat /\ k \in 0 .. n /\ s \in [1 .. n -> Threads] /\ t \in Threads
    BY <1>1
  <2> HIDE DEF w, n
  <2> QED BY <1>1, <2>1, WithInjective DEF w
<1>4. v \in [1 .. n + 1 -> Int] /\ Falling(v, n + 1)
  <2>1. /\ n \in Nat /\ k \in 0 .. n /\ p \in [1 .. n -> Int] /\ x \in Int
        /\ k = 0 \/ p[k] >= x
        /\ k = n \/ x >= p[k + 1]
    BY <1>1
  <2> HIDE DEF v, n
  <2> QED BY <1>1, <2>1, WithOrdered DEF v
<1>5. /\ \A j \in 1 .. k : w[j] = s[j] /\ v[j] = p[j] /\ j \in 1 .. n
      /\ w[k + 1] = t /\ v[k + 1] = x
      /\ \A j \in k + 1 .. n : w[j + 1] = s[j] /\ v[j + 1] = p[j] /\ j \in 1 .. n
  BY <1>1 DEF With
<1> HIDE DEF w, v
<1>6. Linked(r1, w)
  <2>1. r1.num = n + 1 /\ n \in Nat /\ n # 0 /\ k \in 0 .. n
    BY <1>2
  <2>2. /\ s \in [1 .. n -> Threads] /\ OnceEach(s, n) /\ Circle(r.next, r.prev, s, n)
        /\ Threads \subseteq DOMAIN r.next /\ Threads \subseteq DOMAIN r.prev
        /\ t \in Threads /\ \A i \in 1 .. n : s[i] # t
        /\ r1.next = [r.next EXCEPT ![t] = After(s, n, k), ![Ahead(s, n, k)] = t]
        /\ r1.prev = [r.prev EXCEPT ![t] = Ahead(s, n, k), ![After(s, n, k)] = t]
    BY <1>1 DEF Linked
  <2> HIDE DEF n
  <2>3. Circle(r1.next, r1.prev, With(s, n, k, t), n + 1)
    BY ONLY <2>1, <2>2, CircleGrows
  <2> QED BY <2>1, <2>3 DEF Linked, w
<1>7. Differences(r1, w, v)
  <2> SUFFICES ASSUME NEW i \in 1 .. n + 1
               PROVE  r1.prio[w[i]] = IF i = 1 THEN v[1] ELSE v[i - 1] - v[i]
    BY DEF Differences
  <2>0. \A j \in 1 .. n :
           /\ r1.prio[s[j]] = IF j = k + 1 THEN x - p[j]
                              ELSE IF j = 1 THEN p[1] ELSE p[j - 1] - p[j]
           /\ p[j] \in Int
    BY <1>1 DEF Differences
  <2>1. CASE i = k + 1
    <3>1. w[i] = t /\ v[i] = x
      BY <1>5, <2>1
    <3>2. CASE k = 0
      BY <2>1, <3>1, <3>2
    <3>3. CASE k # 0
      <4>1. k \in 1 .. k /\ i - 1 = k /\ i # 1
        BY <1>1, <2>1, <3>3
      <4>2. v[i - 1] = p[k]
        BY <1>5, <4>1
      <4> QED BY <3>1, <3>3, <4>1, <4>2
    <3> QED BY <3>2, <3>3
  <2>2. CASE i <= k
    <3>1. i \in 1 .. k /\ i \in 1 .. n /\ w[i] = s[i] /\ v[i] = p[i] /\ i # k + 1
      BY <1>1, <1>5, <2>2
    <3>2. i # 1 => i - 1 \in 1 .. k
      BY <3>1
    <3>3. i # 1 => v[i - 1] = p[i - 1]
      BY <1>5, <3>2
    <3> QED BY <2>0, <3>1, <3>3
  <2>3. CASE i > k + 1
    <3> DEFINE j == i - 1
    <3>0. j \in k + 1 .. n /\ j \in 1 .. n /\ i = j + 1 /\ i # 1
      BY <1>1, <2>3
    <3>a. w[j + 1] = s[j] /\ v[j + 1] = p[j]
      <4> HIDE DEF j
      <4> QED BY <1>5, <3>0
    <3>1. j \in k + 1 .. n /\ j \in 1 .. n /\ i = j + 1 /\ w[i] = s[j] /\ v[i] = p[j] /\ i # 1
      BY <3>0, <3>a
    <3>2. CASE j = k + 1
      <4>1. v[i - 1] = x
        BY <1>5, <3>1, <3>2
      <4> QED BY <2>0, <3>1, <3>2, <4>1
    <3>3. CASE j # k + 1
      <4>1. j - 1 \in k + 1 .. n /\ j # 1
        BY <1>1, <3>1, <3>3
      <4>2. v[(j - 1) + 1] = p[j - 1] /\ (j - 1) + 1 = i - 1
        BY <1>5, <3>1, <4>1
      <4>3. r1.prio[s[j]] = p[j - 1] - p[j]
        BY <2>0, <3>1, <3>3, <4>1
      <4> QED BY <3>1, <4>2, <4>3
    <3> QED BY <3>2, <3>3
  <2> QED BY <1>1, <2>1, <2>2, <2>3
<1>8. r1.head = w[1] /\ r1.num # 0
  <2>1. k # 0 => 1 \in 1 .. k
    BY <1>1
  <2> QED BY <1>1, <1>5, <2>1
<1>9. Stores(r1, w, v)
  BY <1>3, <1>4, <1>6, <1>7, <1>8 DEF Stores
<1> QED BY <1>9 DEF w, v

\* In front of the others: what pth_pqueue_favorite relies on.
LEMMA InsertHeadStores ==
    ASSUME NEW r, NEW s, NEW p, Stores(r, s, p), r.num # 0,
           NEW t \in Threads, \A i \in 1 .. r.num : s[i] # t,
           NEW x \in Int, x >= p[1]
    PROVE  Stores(InsertHead(r, x, t), With(s, r.num, 0, t), With(p, r.num, 0, x))
<1> DEFINE n == r.num
           r1 == InsertHead(r, x, t)
           a == s[n]
           b == s[1]
<1>1. /\ n \in Nat /\ n >= 1 /\ r \in Rings
      /\ s \in [1 .. n -> Threads] /\ p \in [1 .. n -> Int] /\ OnceEach(s, n)
      /\ r.head = b /\ r.prev[b] = a /\ r.prio[b] = p[1]
  <2>1. r \in Rings /\ r.num \in Nat /\ r.num >= 1
    BY DEF Stores, Rings
  <2>2. 1 \in 1 .. r.num
    BY <2>1
  <2> QED BY <2>1, <2>2 DEF Stores, Linked, Circle, Differences
<1>2. a \in Threads /\ b \in Threads /\ b # t /\ 1 \in 1 .. n
  <2>1. 1 \in 1 .. n /\ n \in 1 .. n
    BY <1>1
  <2> QED BY <1>1, <2>1
<1>3. r1 = [head |-> t, num |-> n + 1,
            next |-> [r.next EXCEPT ![t] = b, ![a] = t],
            prev |-> [r.prev EXCEPT ![t] = a, ![b] = t],
            prio |-> [r.prio EXCEPT ![t] = x, ![b] = x - @]]
  BY <1>1 DEF InsertHead
<1> HIDE DEF r1
<1>4. /\ r.next \in [Threads -> Threads \cup {NULL}]
      /\ r.prev \in [Threads -> Threads \cup {NULL}]
      /\ r.prio \in [Threads -> Int] /\ p[1] \in Int
  BY <1>1, <1>2 DEF Rings
<1> HIDE DEF a, b, n
<1>5. /\ r1.prio \in [Threads -> Int] /\ r1.prio[t] = x /\ r1.prio[b] = x - p[1]
      /\ \A u \in Threads : u # t /\ u # b => r1.prio[u] = r.prio[u]
  BY <1>1, <1>2, <1>3, <1>4
<1>6. r1 \in Rings
  <2>1. r1.next \in [Threads -> Threads \cup {NULL}] /\ r1.prev \in [Threads -> Threads \cup {NULL}]
    BY <1>2, <1>3, <1>4
  <2>2. r1.head = t /\ r1.num \in Nat
    BY <1>1, <1>3
  <2>3. r1 = [head |-> r1.head, num |-> r1.num, next |-> r1.next,
              prev |-> r1.prev, prio |-> r1.prio]
    BY <1>3
  <2> QED BY <1>5, <2>1, <2>2, <2>3 DEF Rings
<1>7. ASSUME NEW i \in 1 .. n
      PROVE  r1.prio[s[i]] = IF i = 1 THEN x - p[i] ELSE r.prio[s[i]]
  <2>1. CASE i = 1
    BY <1>5, <2>1 DEF b
  <2>2. CASE i # 1
    <3>1. s[i] \in Threads /\ s[i] # t /\ s[i] # b
      BY <1>1, <1>2, <2>2 DEF OnceEach, b, n
    <3> QED BY <1>5, <2>2, <3>1
  <2> QED BY <2>1, <2>2
<1>8. ASSUME NEW k, k = 0
      PROVE  Stores(r1, With(s, r.num, k, t), With(p, r.num, k, x))
  <2>1. /\ k \in 0 .. r.num
        /\ k = 0 \/ p[k] >= x
        /\ k = r.num \/ x >= p[k + 1]
        /\ a = Ahead(s, r.num, k) /\ b = After(s, r.num, k)
    BY <1>1, <1>8 DEF a, b, n, Ahead, After
  <2>2. /\ r1.head = IF k = 0 THEN t ELSE s[1]
        /\ r1.num = r.num + 1
        /\ r1.next = [r.next EXCEPT ![t] = After(s, r.num, k), ![Ahead(s, r.num, k)] = t]
        /\ r1.prev = [r.prev EXCEPT ![t] = Ahead(s, r.num, k), ![After(s, r.num, k)] = t]
        /\ r1.prio[t] = IF k = 0 THEN x ELSE p[k] - x
    BY <1>3, <1>5, <1>8, <2>1 DEF n
  <2>3. \A i \in 1 .. r.num :
           r1.prio[s[i]] = IF i = k + 1 THEN x - p[i] ELSE r.prio[s[i]]
    BY <1>7, <1>8 DEF n
  <2>4. /\ Stores(r, s, p) /\ r.num # 0 /\ t \in Threads /\ \A i \in 1 .. r.num : s[i] # t
        /\ x \in Int /\ r1.prio \in [Threads -> Int] /\ r1 \in Rings
    BY <1>5, <1>6
  <2> QED BY ONLY <2>1, <2>2, <2>3, <2>4, InsertedStores
<1> QED BY <1>8 DEF r1

\* Behind the thread the loop has stopped at.
LEMMA InsertBehindStores ==
    ASSUME NEW r, NEW s, NEW p, Stores(r, s, p),
           NEW t \in Threads, \A i \in 1 .. r.num : s[i] # t,
           NEW x \in Int, NEW k \in 1 .. r.num,
           p[k] >= x, k = r.num \/ x >= p[k + 1]
    PROVE  Stores(InsertBehind(r, x, t, s[k], p[k]),
                  With(s, r.num, k, t), With(p, r.num, k, x))
<1> DEFINE n == r.num
           r1 == InsertBehind(r, x, t, s[k], p[k])
           a == s[k]
           b == IF k = n THEN s[1] ELSE s[k + 1]
           d == p[k] - x
<1>1. /\ n \in Nat /\ n >= 1 /\ r \in Rings
      /\ s \in [1 .. n -> Threads] /\ p \in [1 .. n -> Int] /\ OnceEach(s, n)
      /\ r.head = s[1] /\ r.next[a] = b
      /\ Differences(r, s, p)
  <2>1. r \in Rings /\ r.num \in Nat /\ r.num >= 1
    BY DEF Stores, Rings
  <2> QED BY <2>1 DEF Stores, Linked, Circle
<1>2. /\ a \in Threads /\ b \in Threads /\ b # t /\ k \in 1 .. n
      /\ k # n => b = s[k + 1] /\ b # s[1]
      /\ k = n => b = s[1]
  <2>1. 1 \in 1 .. n /\ (k # n => k + 1 \in 1 .. n /\ k + 1 # 1)
    BY <1>1
  <2> QED BY <1>1, <2>1 DEF OnceEach
<1>3. /\ r1.head = s[1] /\ r1.num = n + 1
      /\ r1.next = [r.next EXCEPT ![t] = b, ![a] = t]
      /\ r1.prev = [r.prev EXCEPT ![t] = a, ![b] = t]
      /\ r1.prio = IF b = s[1] THEN [r.prio EXCEPT ![t] = d]
                               ELSE [r.prio EXCEPT ![t] = d, ![b] = @ - d]
  BY <1>1 DEF InsertBehind
<1>r. r1 = [head |-> r1.head, num |-> r1.num, next |-> r1.next,
            prev |-> r1.prev, prio |-> r1.prio]
  BY DEF InsertBehind
<1> HIDE DEF r1
<1>4. /\ r.next \in [Threads -> Threads \cup {NULL}]
      /\ r.prev \in [Threads -> Threads \cup {NULL}]
      /\ r.prio \in [Threads -> Int]
      /\ p[k] \in Int /\ d \in Int /\ s[1] \in Threads
  BY <1>1, <1>2 DEF Rings
<1>d. d = p[k] - x
  OBVIOUS
<1> HIDE DEF a, b, n, d
<1>5. /\ r1.prio \in [Threads -> Int] /\ r1.prio[t] = d
      /\ \A u \in Threads : u # t => r1.prio[u] = IF u = b /\ b # s[1] THEN r.prio[u] - d
                                                  ELSE r.prio[u]
  <2>1. CASE b = s[1]
    BY <1>2, <1>3, <1>4, <2>1
  <2>2. CASE b # s[1]
    BY <1>2, <1>3, <1>4, <2>2
  <2> QED BY <2>1, <2>2
<1>6. r1 \in Rings
  <2>1. /\ r1.next \in [Threads -> Threads \cup {NULL}]
        /\ r1.prev \in [Threads -> Threads \cup {NULL}]
    BY <1>2, <1>3, <1>4
  <2>2. r1.head \in Threads /\ r1.num \in Nat
    BY <1>1, <1>3, <1>4
  <2> QED BY <1>r, <1>5, <2>1, <2>2 DEF Rings
<1>7. ASSUME NEW i \in 1 .. n
      PROVE  r1.prio[s[i]] = IF i = k + 1 THEN x - p[i] ELSE r.prio[s[i]]
  <2>1. s[i] \in Threads /\ s[i] # t /\ p[i] \in Int
    BY <1>1 DEF n
  <2>2. CASE i = k + 1
    <3>1. k # n /\ s[i] = b /\ b # s[1] /\ i # 1 /\ i - 1 = k
      BY <1>1, <1>2, <2>2
    <3>2. r.prio[s[i]] = p[k] - p[i]
      BY <1>1, <3>1 DEF Differences, n
    <3> QED BY <1>4, <1>5, <1>d, <2>1, <2>2, <3>1, <3>2
  <2>3. CASE i # k + 1
    <3>1. ~(s[i] = b /\ b # s[1])
      <4> SUFFICES ASSUME s[i] = b, b # s[1] PROVE FALSE
        OBVIOUS
      <4>1. k # n /\ b = s[k + 1] /\ k + 1 \in 1 .. n
        BY <1>1, <1>2
      <4> QED BY <1>1, <2>3, <4>1 DEF OnceEach
    <3> QED BY <1>5, <2>1, <2>3, <3>1
  <2> QED BY <2>2, <2>3
<1>8. Stores(r1, With(s, r.num, k, t), With(p, r.num, k, x))
  <2>1. /\ k \in 0 .. r.num /\ k # 0 /\ r.num # 0
        /\ k = 0 \/ p[k] >= x
        /\ k = r.num \/ x >= p[k + 1]
        /\ a = Ahead(s, r.num, k) /\ b = After(s, r.num, k)
    BY <1>1 DEF a, b, n, Ahead, After
  <2>2. /\ r1.head = IF k = 0 THEN t ELSE s[1]
        /\ r1.num = r.num + 1
        /\ r1.next = [r.next EXCEPT ![t] = After(s, r.num, k), ![Ahead(s, r.num, k)] = t]
        /\ r1.prev = [r.prev EXCEPT ![t] = Ahead(s, r.num, k), ![After(s, r.num, k)] = t]
        /\ r1.prio[t] = IF k = 0 THEN x ELSE p[k] - x
    BY <1>3, <1>5, <1>d, <2>1 DEF n
  <2>3. \A i \in 1 .. r.num :
           r1.prio[s[i]] = IF i = k + 1 THEN x - p[i] ELSE r.prio[s[i]]
    BY <1>7 DEF n
  <2> QED BY <1>5, <1>6, <2>1, <2>2, <2>3, InsertedStores
<1> QED BY <1>8 DEF r1

\* The loop of pth_pqueue_insert finds its place.
LEMMA LoopStops ==
    ASSUME NEW r, NEW s, NEW p, Stores(r, s, p), r.num # 0, NEW x \in Int, p[1] >= x
    PROVE  \E k \in 1 .. r.num : StopsAt(r, x, k)
<1>1. /\ r.num \in Nat /\ r.num >= 1 /\ p \in [1 .. r.num -> Int]
      /\ Falling(p, r.num) /\ AbsPrio(r) = p
  <2>1. AbsPrio(r) = p
    BY AbsPrioReads
  <2>2. r.num \in Nat /\ r.num >= 1 /\ p \in [1 .. r.num -> Int] /\ Falling(p, r.num)
    BY DEF Stores, Rings
  <2> QED BY <2>1, <2>2
<1> SUFFICES ASSUME \A k \in 1 .. r.num : ~StopsAt(r, x, k) PROVE FALSE
  OBVIOUS
<1> DEFINE S == {m \in Nat : m \in 1 .. r.num => p[m] >= x}
<1>2. \A m \in 1 .. r.num : p[m] >= x => \A j \in 1 .. m : p[j] >= x
  <2> SUFFICES ASSUME NEW m \in 1 .. r.num, p[m] >= x, NEW j \in 1 .. m PROVE p[j] >= x
    OBVIOUS
  <2>1. j \in 1 .. r.num /\ p[j] \in Int /\ p[m] \in Int /\ p[j] >= p[m]
    BY <1>1 DEF Falling
  <2> QED BY <2>1
<1>3. Nat \subseteq S
  <2>1. 0 \in S
    OBVIOUS
  <2>2. ASSUME NEW m \in Nat, m \in S PROVE m + 1 \in S
    <3> SUFFICES ASSUME m + 1 \in 1 .. r.num PROVE p[m + 1] >= x
      OBVIOUS
    <3>1. CASE m = 0
      BY <3>1
    <3>2. CASE m # 0
      <4>1. m \in 1 .. r.num /\ m # r.num /\ p[m] >= x
        BY <1>1, <2>2, <3>2
      <4>2. \A j \in 2 .. m : p[j] >= x
        BY <1>2, <4>1
      <4>3. ~(p[m + 1] < x)
        BY <1>1, <4>1, <4>2 DEF StopsAt
      <4>4. p[m + 1] \in Int
        BY <1>1
      <4> QED BY <4>3, <4>4
    <3> QED BY <3>1, <3>2
  <2> HIDE DEF S
  <2> QED BY <2>1, <2>2, Steps
<1>4. p[r.num] >= x
  BY <1>1, <1>3
<1>5. \A j \in 2 .. r.num : p[j] >= x
  BY <1>1, <1>2, <1>4
<1> QED BY <1>1, <1>5 DEF StopsAt

\* Where pth_pqueue_insert puts a thread: behind all of its priority or more.
LEMMA InsertStores ==
    ASSUME NEW r, NEW s, NEW p, Stores(r, s, p),
           NEW t \in Threads, \A i \in 1 .. r.num : s[i] # t, NEW x \in Int
    PROVE  \E k \in 0 .. r.num :
              /\ \A i \in 1 .. r.num : p[i] >= x <=> i <= k
              /\ Stores(pth_pqueue_insert(r, x, t), With(s, r.num, k, t), With(p, r.num, k, x))
<1>1. /\ r.num \in Nat /\ p \in [1 .. r.num -> Int] /\ Falling(p, r.num)
      /\ (r.head = NULL <=> r.num = 0)
  <2>1. r.num \in Nat /\ p \in [1 .. r.num -> Int] /\ Falling(p, r.num)
    BY DEF Stores, Rings
  <2>2. r.num # 0 => r.head = s[1] /\ 1 \in 1 .. r.num
    BY <2>1 DEF Stores
  <2>3. r.num # 0 => r.head # NULL
    BY <2>2, PqueueAssumption DEF Stores
  <2> QED BY <2>1, <2>3 DEF Stores
<1>2. CASE r.num = 0
  <2>1. pth_pqueue_insert(r, x, t) = InsertFirst(r, x, t)
    BY <1>1, <1>2 DEF pth_pqueue_insert
  <2>2. Stores(InsertFirst(r, x, t), With(s, r.num, 0, t), With(p, r.num, 0, x))
    BY <1>2, InsertFirstStores
  <2>3. 0 \in 0 .. r.num /\ \A i \in 1 .. r.num : p[i] >= x <=> i <= 0
    BY <1>2
  <2> QED BY <2>1, <2>2, <2>3
<1>3. CASE r.num # 0
  <2>1. 1 \in 1 .. r.num /\ r.head = s[1] /\ r.prio[s[1]] = p[1] /\ r.head # NULL
    <3>1. 1 \in 1 .. r.num
      BY <1>1, <1>3
    <3> QED BY <1>1, <1>3, <3>1 DEF Stores, Differences
  <2>2. p[1] \in Int
    BY <1>1, <2>1
  <2>3. CASE p[1] < x
    <3>1. pth_pqueue_insert(r, x, t) = InsertHead(r, x, t)
      BY <2>1, <2>3 DEF pth_pqueue_insert
    <3>2. Stores(InsertHead(r, x, t), With(s, r.num, 0, t), With(p, r.num, 0, x))
      BY <1>3, <2>2, <2>3, InsertHeadStores
    <3>3. ASSUME NEW i \in 1 .. r.num PROVE ~(p[i] >= x) /\ ~(i <= 0)
      <4>1. p[i] \in Int /\ p[1] >= p[i]
        BY <1>1, <2>1 DEF Falling
      <4> QED BY <2>2, <2>3, <4>1
    <3>4. 0 \in 0 .. r.num
      BY <1>1
    <3> QED BY <3>1, <3>2, <3>3, <3>4
  <2>4. CASE ~(p[1] < x)
    <3> DEFINE k == CHOOSE k \in 1 .. r.num : StopsAt(r, x, k)
    <3>1. p[1] >= x
      BY <2>2, <2>4
    <3>2. k \in 1 .. r.num /\ StopsAt(r, x, k)
      BY <1>3, <3>1, LoopStops
    <3>3. Chain(r) = s /\ AbsPrio(r) = p
      BY ChainReads, AbsPrioReads
    <3>4. pth_pqueue_insert(r, x, t) = InsertBehind(r, x, t, s[k], p[k])
      BY <2>1, <2>4, <3>3 DEF pth_pqueue_insert
    <3> HIDE DEF k
    <3>5. /\ k = r.num \/ p[k + 1] < x
          /\ \A j \in 1 .. k : p[j] >= x
      BY <3>1, <3>2, <3>3 DEF StopsAt
    <3>6. k \in 0 .. r.num /\ p[k] >= x /\ (k = r.num \/ x >= p[k + 1])
      <4>1. k \in 1 .. k /\ (k # r.num => k + 1 \in 1 .. r.num)
        BY <1>1, <3>2
      <4> QED BY <1>1, <3>2, <3>5, <4>1
    <3>7. ASSUME NEW i \in 1 .. r.num PROVE p[i] >= x <=> i <= k
      <4>1. CASE i <= k
        BY <3>2, <3>5, <4>1
      <4>2. CASE ~(i <= k)
        <5>1. k # r.num /\ k + 1 \in 1 .. r.num /\ k + 1 <= i /\ p[k + 1] \in Int /\ p[i] \in Int
          BY <1>1, <3>2, <4>2
        <5>2. p[k + 1] >= p[i] /\ p[k + 1] < x
          BY <1>1, <3>5, <5>1 DEF Falling
        <5> QED BY <4>2, <5>1, <5>2
      <4> QED BY <4>1, <4>2
    <3>8. Stores(InsertBehind(r, x, t, s[k], p[k]), With(s, r.num, k, t), With(p, r.num, k, x))
      BY <3>2, <3>6, InsertBehindStores
    <3> QED BY <3>4, <3>6, <3>7, <3>8
  <2> QED BY <2>3, <2>4
<1> QED BY <1>2, <1>3

-----------------------------------------------------------------------------
(*                               Removal                                   *)

\* The place before removal of what is in place i once place k is removed.
Old(k, i) == IF i < k THEN i ELSE i + 1

\* A function on 1 .. n without its value at k.
Dropped(f, n, k) == [i \in 1 .. n - 1 |-> f[Old(k, i)]]

LEMMA DroppedProps ==
    ASSUME NEW S, NEW n \in Nat, NEW k \in 1 .. n,
           NEW s \in [1 .. n -> S], OnceEach(s, n)
    PROVE  /\ Dropped(s, n, k) \in [1 .. n - 1 -> S]
           /\ OnceEach(Dropped(s, n, k), n - 1)
           /\ \A i \in 1 .. n - 1 : Dropped(s, n, k)[i] # s[k]
<1>1. \A i \in 1 .. n - 1 : Old(k, i) \in 1 .. n /\ Old(k, i) # k
  BY DEF Old
<1>2. \A i, j \in 1 .. n - 1 : Old(k, i) = Old(k, j) => i = j
  BY DEF Old
<1>3. Dropped(s, n, k) \in [1 .. n - 1 -> S]
  BY <1>1 DEF Dropped
<1>4. OnceEach(Dropped(s, n, k), n - 1)
  BY <1>1, <1>2 DEF Dropped, OnceEach
<1>5. \A i \in 1 .. n - 1 : Dropped(s, n, k)[i] # s[k]
  BY <1>1 DEF Dropped, OnceEach
<1> QED BY <1>3, <1>4, <1>5

LEMMA DroppedOrdered ==
    ASSUME NEW n \in Nat, NEW k \in 1 .. n, NEW p \in [1 .. n -> Int], Falling(p, n)
    PROVE  /\ Dropped(p, n, k) \in [1 .. n - 1 -> Int]
           /\ Falling(Dropped(p, n, k), n - 1)
<1>1. \A i \in 1 .. n - 1 : Old(k, i) \in 1 .. n
  BY DEF Old
<1>2. \A i, j \in 1 .. n - 1 : i <= j => Old(k, i) <= Old(k, j)
  BY DEF Old
<1>3. Dropped(p, n, k) \in [1 .. n - 1 -> Int]
  BY <1>1 DEF Dropped
<1>4. Falling(Dropped(p, n, k), n - 1)
  BY <1>1, <1>2 DEF Dropped, Falling
<1> QED BY <1>3, <1>4

\* The last thread leaves the empty queue.
LEMMA RemoveOnlyStores ==
    ASSUME NEW r, NEW s, NEW p, Stores(r, s, p), r.num = 1
    PROVE  Stores(RemoveOnly(r), Dropped(s, 1, 1), Dropped(p, 1, 1))
<1> DEFINE r1 == RemoveOnly(r)
           s1 == Dropped(s, 1, 1)
           p1 == Dropped(p, 1, 1)
<1>1. r \in Rings
  BY DEF Stores
<1>2. r1 \in Rings /\ r1.num = 0 /\ r1.head = NULL
  <2>1. /\ [r.next EXCEPT ![r.head] = NULL] \in [Threads -> Threads \cup {NULL}]
        /\ [r.prev EXCEPT ![r.head] = NULL] \in [Threads -> Threads \cup {NULL}]
        /\ [r.prio EXCEPT ![r.head] = 0] \in [Threads -> Int]
    <3>1. /\ r.next \in [Threads -> Threads \cup {NULL}]
          /\ r.prev \in [Threads -> Threads \cup {NULL}]
          /\ r.prio \in [Threads -> Int]
      BY <1>1 DEF Rings
    <3>2. r.head \in Threads
      <4>1. 1 \in 1 .. r.num /\ r.head = s[1] /\ s \in [1 .. r.num -> Threads]
        BY DEF Stores
      <4> QED BY <4>1
    <3> QED BY <3>1, <3>2
  <2> QED BY <2>1 DEF Rings, RemoveOnly
<1>3. /\ s1 \in [1 .. 0 -> Threads] /\ p1 \in [1 .. 0 -> Int]
      /\ \A i \in 1 .. 0 : FALSE
  BY DEF Dropped
<1> HIDE DEF r1, s1, p1
<1>4. OnceEach(s1, 0) /\ Falling(p1, 0) /\ Linked(r1, s1) /\ Differences(r1, s1, p1)
  BY <1>2, <1>3 DEF OnceEach, Falling, Linked, Circle, Differences
<1>5. Stores(r1, s1, p1)
  BY <1>2, <1>3, <1>4 DEF Stores
<1> QED BY <1>5 DEF r1, s1, p1

(* One of several nodes linked out.                                        *)
LEMMA CircleShrinks ==
    ASSUME NEW Node, NEW n \in Nat, n >= 2, NEW s \in [1 .. n -> Node], OnceEach(s, n),
           NEW next, NEW prev, Circle(next, prev, s, n),
           Node \subseteq DOMAIN next, Node \subseteq DOMAIN prev, NEW k \in 1 .. n,
           NEW next1, next1 = [next EXCEPT ![prev[s[k]]] = next[s[k]]],
           NEW prev1, prev1 = [prev EXCEPT ![next[s[k]]] = prev[s[k]]]
    PROVE  Circle(next1, prev1, Dropped(s, n, k), n - 1)
<1> DEFINE w == Dropped(s, n, k)
           a == IF k = 1 THEN n ELSE k - 1
           b == IF k = n THEN 1 ELSE k + 1
           Nx(j) == IF j = a THEN b ELSE IF j = n THEN 1 ELSE j + 1
           Pv(j) == IF j = b THEN a ELSE IF j = 1 THEN n ELSE j - 1
<1>1. n \in Nat /\ n >= 2 /\ k \in 1 .. n
  OBVIOUS
<1>2. a \in 1 .. n /\ b \in 1 .. n /\ a # k /\ b # k
  BY <1>1
<1>3. next[s[k]] = s[b] /\ prev[s[k]] = s[a]
  BY DEF Circle
<1>4. /\ s \in [1 .. n -> Node] /\ OnceEach(s, n) /\ Circle(next, prev, s, n)
      /\ Node \subseteq DOMAIN next /\ Node \subseteq DOMAIN prev
      /\ next1 = [next EXCEPT ![s[a]] = s[b]] /\ prev1 = [prev EXCEPT ![s[b]] = s[a]]
  BY <1>3
<1>5. \A i \in 1 .. n - 1 : /\ Old(k, i) \in 1 .. n /\ Old(k, i) # k
                            /\ w[i] = s[Old(k, i)]
  BY <1>1 DEF Dropped, Old
<1> HIDE DEF w
<1>6. ASSUME NEW j \in 1 .. n, j # k
       PROVE  next1[s[j]] = s[Nx(j)] /\ prev1[s[j]] = s[Pv(j)]
  <2>1. s[j] \in Node /\ (s[j] = s[a] <=> j = a) /\ (s[j] = s[b] <=> j = b)
    <3>1. \A i \in 1 .. n : s[i] = s[j] => i = j
      BY <1>4 DEF OnceEach
    <3> HIDE DEF a, b
    <3> QED BY <1>4, <1>2, <3>1
  <2>2. /\ next[s[j]] = IF j = n THEN s[1] ELSE s[j + 1]
        /\ prev[s[j]] = IF j = 1 THEN s[n] ELSE s[j - 1]
    BY <1>4 DEF Circle
  <2>4. next1[s[j]] = IF j = a THEN s[b] ELSE next[s[j]]
    <3> HIDE DEF a, b
    <3> QED BY <1>4, <2>1
  <2>5. prev1[s[j]] = IF j = b THEN s[a] ELSE prev[s[j]]
    <3> HIDE DEF a, b
    <3> QED BY <1>4, <2>1
  <2> HIDE DEF a, b
  <2> QED BY <2>2, <2>4, <2>5
<1>7. Circle(next1, prev1, w, n - 1)
  <2> SUFFICES ASSUME NEW i \in 1 .. n - 1
               PROVE  /\ next1[w[i]] = IF i = n - 1 THEN w[1] ELSE w[i + 1]
                      /\ prev1[w[i]] = IF i = 1 THEN w[n - 1] ELSE w[i - 1]
    BY DEF Circle
  <2> DEFINE j == Old(k, i)
             nx == IF i = n - 1 THEN 1 ELSE i + 1
             pv == IF i = 1 THEN n - 1 ELSE i - 1
  <2>1. Nx(j) = Old(k, nx) /\ Pv(j) = Old(k, pv)
    BY <1>1 DEF Old
  <2>2. nx \in 1 .. n - 1 /\ pv \in 1 .. n - 1
    BY <1>1
  <2>3. j \in 1 .. n /\ j # k /\ w[i] = s[j]
    BY <1>5
  <2>4. next1[w[i]] = w[nx]
    <3> HIDE DEF Nx, Pv, j, nx, pv
    <3> QED BY <1>5, <1>6, <2>1, <2>2, <2>3
  <2>5. prev1[w[i]] = w[pv]
    <3> HIDE DEF Nx, Pv, j, nx, pv
    <3> QED BY <1>5, <1>6, <2>1, <2>2, <2>3
  <2> QED BY <2>4, <2>5
<1> QED BY <1>7 DEF w

(* One thread of several unlinked: its successor is given the difference   *)
(* to the thread ahead of the one that leaves.                             *)
LEMMA UnlinkStores ==
    ASSUME NEW r, NEW s, NEW p, Stores(r, s, p), NEW k \in 1 .. r.num, r.num >= 2,
           NEW h, h = IF k = 1 THEN s[2] ELSE s[1],
           NEW prio \in [Threads -> Int],
           \A i \in 1 .. r.num : i # k =>
              prio[s[i]] = IF i = k + 1 THEN IF k = 1 THEN p[2] ELSE p[k - 1] - p[i]
                           ELSE r.prio[s[i]]
    PROVE  Stores(Unlink(r, s[k], h, prio), Dropped(s, r.num, k), Dropped(p, r.num, k))
<1> DEFINE n == r.num
           w == Dropped(s, n, k)
           v == Dropped(p, n, k)
           r1 == Unlink(r, s[k], h, prio)
           a == IF k = 1 THEN n ELSE k - 1
           b == IF k = n THEN 1 ELSE k + 1
<1>1. /\ n \in Nat /\ n >= 2 /\ k \in 1 .. n /\ r \in Rings
      /\ s \in [1 .. n -> Threads] /\ p \in [1 .. n -> Int]
      /\ OnceEach(s, n) /\ Falling(p, n) /\ Linked(r, s) /\ Differences(r, s, p)
  BY DEF Stores, Rings
<1>0. n \in Nat /\ n >= 2 /\ k \in 1 .. n
  BY <1>1
<1>2. a \in 1 .. n /\ b \in 1 .. n /\ a # k /\ b # k
  BY <1>0
<1>3. r.next[s[k]] = s[b] /\ r.prev[s[k]] = s[a]
  BY <1>1 DEF Linked, Circle
<1>4. w \in [1 .. n - 1 -> Threads] /\ OnceEach(w, n - 1)
  <2> HIDE DEF w, n
  <2> QED BY <1>1, DroppedProps DEF w
<1>5. v \in [1 .. n - 1 -> Int] /\ Falling(v, n - 1)
  <2> HIDE DEF v, n
  <2> QED BY <1>1, DroppedOrdered DEF v
<1>6. \A i \in 1 .. n - 1 : /\ Old(k, i) \in 1 .. n /\ Old(k, i) # k
                            /\ w[i] = s[Old(k, i)] /\ v[i] = p[Old(k, i)]
  BY <1>0 DEF Dropped, Old
<1>7. /\ r1.head = h /\ r1.num = n - 1 /\ r1.prio = prio
      /\ r1.next = [r.next EXCEPT ![s[a]] = s[b]]
      /\ r1.prev = [r.prev EXCEPT ![s[b]] = s[a]]
      /\ r1 = [head |-> r1.head, num |-> r1.num, next |-> r1.next,
               prev |-> r1.prev, prio |-> r1.prio]
  BY <1>3 DEF Unlink
<1> HIDE DEF r1, w, v
<1>8. s[a] \in Threads /\ s[b] \in Threads /\ h \in Threads
  <2>1. 1 \in 1 .. n /\ 2 \in 1 .. n
    BY <1>0
  <2> HIDE DEF a, b, n
  <2> QED BY <1>1, <1>2, <2>1
<1>9. r1 \in Rings
  <2>1. r.next \in [Threads -> Threads \cup {NULL}] /\ r.prev \in [Threads -> Threads \cup {NULL}]
    BY <1>1 DEF Rings
  <2>2. r1.next \in [Threads -> Threads \cup {NULL}] /\ r1.prev \in [Threads -> Threads \cup {NULL}]
    <3> HIDE DEF a, b
    <3> QED BY <1>7, <1>8, <2>1
  <2>3. r1.head \in Threads /\ r1.num \in Nat
    BY <1>0, <1>7, <1>8
  <2>4. r1.prio \in [Threads -> Int]
    BY <1>7
  <2> QED BY <1>7, <2>2, <2>3, <2>4 DEF Rings
<1>11. Linked(r1, w)
  <2> DEFINE nx == r.next
             pv == r.prev
             nx1 == r1.next
             pv1 == r1.prev
  <2>1. n \in Nat /\ n >= 2 /\ k \in 1 .. n /\ s \in [1 .. n -> Threads] /\ OnceEach(s, n)
    BY <1>0, <1>1
  <2>2. /\ Circle(nx, pv, s, n) /\ Threads \subseteq DOMAIN nx /\ Threads \subseteq DOMAIN pv
    BY <1>1 DEF Linked, Rings
  <2>3. nx1 = [nx EXCEPT ![pv[s[k]]] = nx[s[k]]] /\ pv1 = [pv EXCEPT ![nx[s[k]]] = pv[s[k]]]
    BY <1>3, <1>7
  <2> HIDE DEF nx, pv, nx1, pv1
  <2>4. Circle(nx1, pv1, Dropped(s, n, k), n - 1)
    BY ONLY <2>1, <2>2, <2>3, CircleShrinks
  <2> QED BY <1>7, <2>4 DEF Linked, w, nx1, pv1, n
<1>12. Differences(r1, w, v)
  <2> SUFFICES ASSUME NEW i \in 1 .. n - 1
               PROVE  r1.prio[w[i]] = IF i = 1 THEN v[1] ELSE v[i - 1] - v[i]
    BY <1>7 DEF Differences
  <2> DEFINE j == Old(k, i)
  <2>1. /\ j \in 1 .. n /\ j # k /\ w[i] = s[j] /\ v[i] = p[j]
        /\ i # 1 => i - 1 \in 1 .. n - 1 /\ v[i - 1] = p[Old(k, i - 1)]
    <3>1. i # 1 => i - 1 \in 1 .. n - 1
      BY <1>0
    <3> QED BY <1>6, <3>1
  <2>2. r1.prio[s[j]] = IF j = k + 1 THEN IF k = 1 THEN p[2] ELSE p[k - 1] - p[j]
                        ELSE IF j = 1 THEN p[1] ELSE p[j - 1] - p[j]
    <3> HIDE DEF j
    <3> QED BY <1>1, <1>7, <2>1 DEF Differences
  <2>3. CASE i = 1
    <3>1. j = (IF k = 1 THEN 2 ELSE 1) /\ (j = k + 1 <=> k = 1)
      BY <1>0, <2>3 DEF Old
    <3> HIDE DEF j
    <3> QED BY <2>1, <2>2, <2>3, <3>1
  <2>4. CASE i # 1
    <3>1. Old(k, i - 1) = IF j = k + 1 THEN k - 1 ELSE j - 1
      BY <1>0, <2>4 DEF Old
    <3>2. j # 1 /\ (j = k + 1 => k # 1)
      BY <1>0, <2>4 DEF Old
    <3> HIDE DEF j
    <3> QED BY <2>1, <2>2, <2>4, <3>1, <3>2
  <2> QED BY <2>3, <2>4
<1>13. r1.head = w[1] /\ r1.num # 0
  <2>1. 1 \in 1 .. n - 1 /\ Old(k, 1) = IF k = 1 THEN 2 ELSE 1
    BY <1>0 DEF Old
  <2> QED BY <1>0, <1>6, <1>7, <2>1
<1>14. Stores(r1, w, v)
  BY <1>4, <1>5, <1>7, <1>9, <1>11, <1>12, <1>13 DEF Stores
<1> QED BY <1>14 DEF r1, w, v

\* pth_pqueue_delete, whichever of its three ways it takes.
LEMMA DeleteStores ==
    ASSUME NEW r, NEW s, NEW p, Stores(r, s, p), NEW k \in 1 .. r.num
    PROVE  Stores(pth_pqueue_delete(r, s[k]), Dropped(s, r.num, k), Dropped(p, r.num, k))
<1> DEFINE n == r.num
           prio == r.prio
           t == s[k]
<1>1. /\ n \in Nat /\ n >= 1 /\ k \in 1 .. n /\ r \in Rings
      /\ s \in [1 .. n -> Threads] /\ p \in [1 .. n -> Int]
      /\ OnceEach(s, n) /\ Linked(r, s) /\ Differences(r, s, p) /\ r.head = s[1]
  BY DEF Stores, Rings
<1>2. 1 \in 1 .. n /\ (r.head = t <=> k = 1)
  <2>1. 1 \in 1 .. n
    BY <1>1
  <2> QED BY <1>1, <2>1 DEF OnceEach
<1>3. r.next[r.head] = r.head <=> n = 1
  <2>1. r.next[s[1]] = IF 1 = n THEN s[1] ELSE s[2]
    BY <1>1, <1>2 DEF Linked, Circle
  <2>2. n # 1 => 2 \in 1 .. n
    BY <1>1
  <2> QED BY <1>1, <1>2, <2>1, <2>2 DEF OnceEach
<1>4. CASE n = 1
  <2>1. k = 1 /\ pth_pqueue_delete(r, t) = RemoveOnly(r)
    BY <1>1, <1>2, <1>3, <1>4 DEF pth_pqueue_delete, pth_pqueue_delmax
  <2> QED BY <1>4, <2>1, RemoveOnlyStores
<1>5. CASE n >= 2 /\ k = 1
  <2> DEFINE pr == [r.prio EXCEPT ![s[2]] = r.prio[s[1]] - @, ![s[1]] = 0]
  <2>1. 2 \in 1 .. n /\ s[2] \in Threads /\ s[1] \in Threads /\ s[2] # s[1]
    <3>1. 2 \in 1 .. n
      BY <1>1, <1>5
    <3> QED BY <1>1, <1>2, <3>1 DEF OnceEach
  <2>2. r.next[s[1]] = s[2]
    BY <1>1, <1>2, <1>5 DEF Linked, Circle
  <2>3. pth_pqueue_delete(r, t) = Unlink(r, t, s[2], pr)
    BY <1>1, <1>2, <1>3, <1>5, <2>2 DEF pth_pqueue_delete, pth_pqueue_delmax, RemoveHead
  <2>4. r.prio \in [Threads -> Int] /\ p[1] \in Int /\ p[2] \in Int
    BY <1>1, <1>2, <2>1 DEF Rings
  <2>5. r.prio[s[1]] = p[1] /\ r.prio[s[2]] = p[1] - p[2]
    BY <1>1, <1>2, <2>1 DEF Differences
  <2>6. pr \in [Threads -> Int]
    BY <2>1, <2>4, <2>5
  <2>7. \A u \in Threads : u # s[1] => pr[u] = IF u = s[2] THEN p[2] ELSE r.prio[u]
    BY <2>1, <2>4, <2>5
  <2> HIDE DEF pr
  <2>8. \A i \in 1 .. n : i # k =>
          pr[s[i]] = IF i = k + 1 THEN IF k = 1 THEN p[2] ELSE p[k - 1] - p[i]
                     ELSE r.prio[s[i]]
    <3> SUFFICES ASSUME NEW i \in 1 .. n, i # 1
                 PROVE  pr[s[i]] = IF i = 2 THEN p[2] ELSE r.prio[s[i]]
      BY <1>5
    <3>1. s[i] \in Threads /\ s[i] # s[1] /\ (s[i] = s[2] <=> i = 2)
      BY <1>1, <1>2, <2>1 DEF OnceEach
    <3> QED BY <2>7, <3>1
  <2>9. s[2] = IF k = 1 THEN s[2] ELSE s[1]
    BY <1>5
  <2>10. Stores(Unlink(r, s[k], s[2], pr), Dropped(s, r.num, k), Dropped(p, r.num, k))
    BY <1>1, <1>5, <2>6, <2>8, <2>9, UnlinkStores
  <2> QED BY <2>3, <2>10
<1>6. CASE n >= 2 /\ k # 1
  <2> DEFINE b == IF k = n THEN s[1] ELSE s[k + 1]
             pr == IF b = s[1] THEN [r.prio EXCEPT ![t] = 0]
                               ELSE [r.prio EXCEPT ![b] = @ + r.prio[t], ![t] = 0]
  <2>1. r.next[t] = b
    BY <1>1 DEF Linked, Circle
  <2>2. pth_pqueue_delete(r, t) = Unlink(r, t, s[1], pr)
    BY <1>1, <1>2, <1>6, <2>1 DEF pth_pqueue_delete, RemoveInner
  <2>3. /\ b \in Threads /\ t \in Threads /\ b # t
        /\ k # n => k + 1 \in 1 .. n /\ b = s[k + 1] /\ b # s[1]
        /\ k = n => b = s[1]
    <3>1. k # n => k + 1 \in 1 .. n /\ k + 1 # 1 /\ k + 1 # k
      BY <1>1
    <3> QED BY <1>1, <1>2, <1>6, <3>1 DEF OnceEach
  <2>4. r.prio \in [Threads -> Int] /\ p[k] \in Int /\ k - 1 \in 1 .. n /\ p[k - 1] \in Int
    <3>1. k - 1 \in 1 .. n
      BY <1>1, <1>6
    <3> QED BY <1>1, <3>1 DEF Rings
  <2>5. r.prio[t] = p[k - 1] - p[k]
    BY <1>1, <1>6 DEF Differences
  <2> HIDE DEF b, t
  <2>6. pr \in [Threads -> Int]
    BY <2>3, <2>4
  <2>7. \A u \in Threads : u # t =>
           pr[u] = IF u = b /\ b # s[1] THEN r.prio[u] + r.prio[t] ELSE r.prio[u]
    BY <2>3, <2>4
  <2> HIDE DEF pr
  <2>8. \A i \in 1 .. n : i # k =>
          pr[s[i]] = IF i = k + 1 THEN IF k = 1 THEN p[2] ELSE p[k - 1] - p[i]
                     ELSE r.prio[s[i]]
    <3> SUFFICES ASSUME NEW i \in 1 .. n, i # k
                 PROVE  pr[s[i]] = IF i = k + 1 THEN p[k - 1] - p[i] ELSE r.prio[s[i]]
      BY <1>6
    <3>1. s[i] \in Threads /\ s[i] # t /\ p[i] \in Int
      BY <1>1 DEF OnceEach, t
    <3>2. CASE i = k + 1
      <4>1. k # n /\ s[i] = b /\ b # s[1] /\ i # 1 /\ i - 1 = k
        BY <1>1, <2>3, <3>2
      <4>2. r.prio[s[i]] = p[k] - p[i]
        BY <1>1, <4>1 DEF Differences
      <4> QED BY <2>4, <2>5, <2>7, <3>1, <3>2, <4>1, <4>2
    <3>3. CASE i # k + 1
      <4>1. ~(s[i] = b /\ b # s[1])
        BY <1>1, <2>3, <3>3 DEF OnceEach
      <4> QED BY <2>7, <3>1, <3>3, <4>1
    <3> QED BY <3>2, <3>3
  <2>9. s[1] = IF k = 1 THEN s[2] ELSE s[1]
    BY <1>6
  <2>10. Stores(Unlink(r, s[k], s[1], pr), Dropped(s, r.num, k), Dropped(p, r.num, k))
    BY <1>1, <1>6, <2>6, <2>8, <2>9, UnlinkStores
  <2> QED BY <2>2, <2>10 DEF t
<1> QED BY <1>1, <1>4, <1>5, <1>6

\* Aging is one addition at the head.
LEMMA IncreaseStores ==
    ASSUME NEW r, NEW s, NEW p, Stores(r, s, p), r.num # 0
    PROVE  Stores(pth_pqueue_increase(r), s, [i \in 1 .. r.num |-> p[i] + 1])
<1> DEFINE n == r.num
           r1 == pth_pqueue_increase(r)
           v == [i \in 1 .. n |-> p[i] + 1]
<1>1. /\ n \in Nat /\ 1 \in 1 .. n /\ r \in Rings
      /\ s \in [1 .. n -> Threads] /\ p \in [1 .. n -> Int]
      /\ OnceEach(s, n) /\ Falling(p, n) /\ Linked(r, s) /\ Differences(r, s, p)
      /\ r.head = s[1]
  BY DEF Stores, Rings
<1>2. /\ r1 = [r EXCEPT !.prio = [r.prio EXCEPT ![s[1]] = r.prio[s[1]] + 1]]
      /\ r.prio \in [Threads -> Int] /\ s[1] \in Threads
  BY <1>1 DEF pth_pqueue_increase, Rings
<1>3. /\ r1.head = s[1] /\ r1.num = n /\ r1.next = r.next /\ r1.prev = r.prev
      /\ r1.prio = [r.prio EXCEPT ![s[1]] = r.prio[s[1]] + 1]
      /\ r1 \in Rings
  <2> DEFINE pr == [r.prio EXCEPT ![s[1]] = r.prio[s[1]] + 1]
  <2>1. pr \in [Threads -> Int]
    BY <1>2
  <2>2. r1 = [r EXCEPT !.prio = pr]
    BY <1>2
  <2> HIDE DEF pr, r1
  <2>3. r1 \in Rings
    BY <1>1, <2>1, <2>2 DEF Rings
  <2>4. /\ r1.head = r.head /\ r1.num = r.num /\ r1.next = r.next /\ r1.prev = r.prev
        /\ r1.prio = pr
    BY <1>1, <2>2 DEF Rings
  <2> QED BY <1>1, <2>3, <2>4 DEF pr
<1> HIDE DEF r1
<1>4. v \in [1 .. n -> Int] /\ Falling(v, n)
  BY <1>1 DEF Falling
<1>5. Differences(r1, s, v)
  <2> SUFFICES ASSUME NEW i \in 1 .. n
               PROVE  r1.prio[s[i]] = IF i = 1 THEN v[1] ELSE v[i - 1] - v[i]
    BY <1>3 DEF Differences
  <2>1. r.prio[s[i]] = IF i = 1 THEN p[1] ELSE p[i - 1] - p[i]
    BY <1>1 DEF Differences
  <2>2. CASE i = 1
    BY <1>1, <1>2, <1>3, <2>1, <2>2
  <2>3. CASE i # 1
    <3>1. s[i] \in Threads /\ s[i] # s[1] /\ i - 1 \in 1 .. n
      BY <1>1, <2>3 DEF OnceEach
    <3>2. p[i] \in Int /\ p[i - 1] \in Int /\ v[i] = p[i] + 1 /\ v[i - 1] = p[i - 1] + 1
      BY <1>1, <3>1
    <3> HIDE DEF v
    <3> QED BY <1>2, <1>3, <2>1, <2>3, <3>1, <3>2
  <2> QED BY <2>2, <2>3
<1>6. Linked(r1, s)
  BY <1>1, <1>3 DEF Linked, Circle
<1> HIDE DEF v
<1>7. r1.num # 0
  BY <1>1, <1>3
<1>8. Stores(r1, s, v)
  BY <1>1, <1>3, <1>4, <1>5, <1>6, <1>7 DEF Stores
<1> QED BY <1>8 DEF r1, v

-----------------------------------------------------------------------------
(*                 The same operations on the decoded queue                *)

Entries(n, s, p) == [i \in 1 .. n |-> [th |-> s[i], pr |-> Clamp(p[i])]]

LEMMA EntriesSeq ==
    ASSUME NEW n \in Nat, NEW s \in [1 .. n -> Threads], NEW p \in [1 .. n -> Int]
    PROVE  /\ Entries(n, s, p) \in Seq(Entry(Threads))
           /\ Len(Entries(n, s, p)) = n /\ DOMAIN Entries(n, s, p) = 1 .. n
           /\ \A i \in 1 .. n : Entries(n, s, p)[i] = [th |-> s[i], pr |-> Clamp(p[i])]
           /\ \A i \in 1 .. n : Entries(n, s, p)[i].th = s[i]
           /\ \A i \in 1 .. n : Entries(n, s, p)[i].pr = Clamp(p[i])
           /\ Members(Entries(n, s, p)) = {s[i] : i \in 1 .. n}
           /\ (Entries(n, s, p) = <<>> <=> n = 0)
<1> DEFINE D == Entries(n, s, p)
<1>1. DOMAIN D = 1 .. n /\ \A i \in 1 .. n : D[i] = [th |-> s[i], pr |-> Clamp(p[i])]
  BY DEF Entries
<1>2. \A i \in 1 .. n : D[i] \in Entry(Threads)
  <2> SUFFICES ASSUME NEW i \in 1 .. n PROVE D[i] \in Entry(Threads)
    OBVIOUS
  <2>1. s[i] \in Threads /\ Clamp(p[i]) \in Int
    BY ClampType
  <2> HIDE DEF D
  <2> QED BY <1>1, <2>1 DEF Entry
<1>3. D = [i \in 1 .. n |-> D[i]]
  BY DEF Entries
<1> HIDE DEF D
<1>4. D \in [1 .. n -> Entry(Threads)]
  BY <1>2, <1>3
<1>5. D \in Seq(Entry(Threads)) /\ Len(D) = n
  <2>1. D \in Seq(Entry(Threads))
    BY <1>4, SeqDef
  <2>2. Len(D) \in Nat /\ DOMAIN D = 1 .. Len(D)
    BY <2>1, LenProperties
  <2> QED BY <1>1, <2>1, <2>2
<1>8. /\ \A i \in 1 .. n : D[i].th = s[i]
      /\ \A i \in 1 .. n : D[i].pr = Clamp(p[i])
  BY <1>1
<1>6. Members(D) = {s[i] : i \in 1 .. n}
  <2>1. Members(D) = {D[i].th : i \in 1 .. n}
    BY <1>1 DEF Members
  <2> QED BY <1>8, <2>1
<1>7. D = <<>> <=> n = 0
  BY <1>5, EmptySeq
<1> QED BY <1>1, <1>5, <1>6, <1>7, <1>8 DEF D

LEMMA EntriesInserted ==
    ASSUME NEW n \in Nat, NEW s \in [1 .. n -> Threads], NEW p \in [1 .. n -> Int],
           NEW t \in Threads, NEW x \in Int, NEW k \in 0 .. n
    PROVE  InsertAt(Entries(n, s, p), k + 1, [th |-> t, pr |-> Clamp(x)])
             = Entries(n + 1, With(s, n, k, t), With(p, n, k, x))
<1> DEFINE D == Entries(n, s, p)
           e == [th |-> t, pr |-> Clamp(x)]
           w == With(s, n, k, t)
           v == With(p, n, k, x)
           E == Entries(n + 1, w, v)
           m == k + 1
           I == InsertAt(D, m, e)
<1>1. D \in Seq(Entry(Threads)) /\ Len(D) = n
  BY EntriesSeq
<1>2. \A i \in 1 .. n : D[i] = [th |-> s[i], pr |-> Clamp(p[i])]
  BY EntriesSeq
<1>3. e \in Entry(Threads) /\ m \in 1 .. n + 1
  BY ClampType DEF Entry
<1>4. w \in [1 .. n + 1 -> Threads] /\ v \in [1 .. n + 1 -> Int]
  BY DEF With
<1>5. \A i \in 1 .. n + 1 : /\ w[i] = IF i < m THEN s[i] ELSE IF i = m THEN t ELSE s[i - 1]
                            /\ v[i] = IF i < m THEN p[i] ELSE IF i = m THEN x ELSE p[i - 1]
  BY DEF With
<1> HIDE DEF w, v
<1>6. /\ E \in Seq(Entry(Threads)) /\ Len(E) = n + 1
      /\ \A i \in 1 .. n + 1 : E[i] = [th |-> w[i], pr |-> Clamp(v[i])]
  <2>1. n + 1 \in Nat
    OBVIOUS
  <2> DEFINE N == n + 1
  <2>2. N \in Nat /\ w \in [1 .. N -> Threads] /\ v \in [1 .. N -> Int]
    BY <1>4, <2>1
  <2> HIDE DEF N
  <2>3. Entries(N, w, v) \in Seq(Entry(Threads)) /\ Len(Entries(N, w, v)) = N
    BY <2>2, EntriesSeq
  <2>4. \A i \in 1 .. N : Entries(N, w, v)[i] = [th |-> w[i], pr |-> Clamp(v[i])]
    BY <2>2, EntriesSeq
  <2> QED BY <2>3, <2>4 DEF N
<1> HIDE DEF D, E, m
<1>7. m \in 1 .. Len(D) + 1
  BY <1>1, <1>3
<1>8. I \in Seq(Entry(Threads)) /\ Len(I) = n + 1 /\ I[m] = e
  <2> HIDE DEF e
  <2>1. I \in Seq(Entry(Threads))
    BY <1>1, <1>3, <1>7, InsertAtElements
  <2>2. Len(I) = Len(D) + 1
    BY <1>1, <1>3, <1>7, InsertAtElements
  <2>3. I[m] = e
    BY <1>1, <1>3, <1>7, InsertAtElements
  <2> QED BY <1>1, <2>1, <2>2, <2>3
<1>a. D \in Seq(Entry(Threads)) /\ e \in Entry(Threads) /\ m \in 1 .. Len(D) + 1
  BY <1>1, <1>3, <1>7
<1>9. \A i \in 1 .. m - 1 : I[i] = D[i]
  <2> HIDE DEF e
  <2> QED BY ONLY <1>a, InsertAtElements DEF I
<1>10. \A i \in m + 1 .. n + 1 : I[i] = D[i - 1]
  <2> HIDE DEF e
  <2>1. \A i \in m + 1 .. Len(D) + 1 : I[i] = D[i - 1]
    BY ONLY <1>a, InsertAtElements DEF I
  <2> QED BY <1>1, <2>1
<1> HIDE DEF I
<1>11. ASSUME NEW i \in 1 .. n + 1 PROVE I[i] = E[i]
  <2>1. E[i] = [th |-> w[i], pr |-> Clamp(v[i])]
    BY <1>6
  <2>2. CASE i < m
    <3>1. i \in 1 .. m - 1 /\ i \in 1 .. n
      BY <1>3, <2>2
    <3> QED BY <1>2, <1>5, <1>9, <2>1, <2>2, <3>1
  <2>3. CASE i = m
    BY <1>5, <1>8, <2>1, <2>3
  <2>4. CASE i > m
    <3>1. i \in m + 1 .. n + 1 /\ i - 1 \in 1 .. n /\ ~(i < m) /\ i # m
      BY <1>3, <2>4
    <3> QED BY <1>2, <1>5, <1>10, <2>1, <3>1
  <2> QED BY <1>3, <2>2, <2>3, <2>4
<1>12. I = E
  BY <1>6, <1>8, <1>11, SeqEqual
<1> QED BY <1>12 DEF I, E, D, e, m, w, v

LEMMA EntriesDropped ==
    ASSUME NEW n \in Nat, NEW s \in [1 .. n -> Threads], NEW p \in [1 .. n -> Int],
           NEW k \in 1 .. n
    PROVE  RemoveAt(Entries(n, s, p), k) = Entries(n - 1, Dropped(s, n, k), Dropped(p, n, k))
<1> DEFINE D == Entries(n, s, p)
           w == Dropped(s, n, k)
           v == Dropped(p, n, k)
           N == n - 1
           E == Entries(N, w, v)
           I == RemoveAt(D, k)
<1>1. D \in Seq(Entry(Threads)) /\ Len(D) = n
  BY EntriesSeq
<1>2. \A i \in 1 .. n : D[i] = [th |-> s[i], pr |-> Clamp(p[i])]
  BY EntriesSeq
<1>3. N \in Nat /\ N = n - 1 /\ \A i \in 1 .. N : Old(k, i) \in 1 .. n
  BY DEF Old
<1>4. w \in [1 .. N -> Threads] /\ v \in [1 .. N -> Int]
  BY <1>3 DEF Dropped
<1>5. \A i \in 1 .. N : w[i] = s[Old(k, i)] /\ v[i] = p[Old(k, i)]
  BY DEF Dropped
<1> HIDE DEF w, v, N
<1>6. E \in Seq(Entry(Threads)) /\ Len(E) = N
  BY <1>3, <1>4, EntriesSeq
<1>7. \A i \in 1 .. N : E[i] = [th |-> w[i], pr |-> Clamp(v[i])]
  BY <1>3, <1>4, EntriesSeq
<1> HIDE DEF D, E
<1>8. k \in 1 .. Len(D)
  BY <1>1
<1>9. I \in Seq(Entry(Threads)) /\ Len(I) = N
  <2>1. I \in Seq(Entry(Threads))
    BY <1>1, <1>8, RemoveAtElements
  <2>2. Len(I) = Len(D) - 1
    BY <1>1, <1>8, RemoveAtElements
  <2> QED BY <1>1, <1>3, <2>1, <2>2
<1>10. \A i \in 1 .. k - 1 : I[i] = D[i]
  BY <1>1, <1>8, RemoveAtElements
<1>11. \A i \in k .. N : I[i] = D[i + 1]
  <2>1. \A i \in k .. Len(D) - 1 : I[i] = D[i + 1]
    BY <1>1, <1>8, RemoveAtElements
  <2> QED BY <1>1, <1>3, <2>1
<1> HIDE DEF I
<1>12. ASSUME NEW i \in 1 .. N PROVE I[i] = E[i]
  <2>1. E[i] = D[Old(k, i)]
    BY <1>2, <1>3, <1>5, <1>7
  <2>2. CASE i < k
    <3>1. i \in 1 .. k - 1
      BY <1>3, <2>2
    <3> QED BY <1>10, <2>1, <2>2, <3>1 DEF Old
  <2>3. CASE ~(i < k)
    <3>1. i \in k .. N
      BY <1>3, <2>3
    <3> QED BY <1>11, <2>1, <2>3, <3>1 DEF Old
  <2> QED BY <2>2, <2>3
<1>13. I = E
  BY <1>6, <1>9, <1>12, SeqEqual
<1> QED BY <1>13 DEF I, E, D, N, w, v

\* An insertion at the place the ring found.
LEMMA InsertDecoded ==
    ASSUME NEW n \in Nat, NEW s \in [1 .. n -> Threads], NEW p \in [1 .. n -> Int],
           NEW t \in Threads, NEW x \in Int, x <= PRIO_MAX + 1, NEW k \in 0 .. n,
           \A i \in 1 .. n : p[i] >= x <=> i <= k
    PROVE  Insert(Entries(n, s, p), x, t)
             = Entries(n + 1, With(s, n, k, t), With(p, n, k, x))
<1> DEFINE D == Entries(n, s, p)
<1>1. DOMAIN D = 1 .. n
  BY EntriesSeq
<1>2. \A i \in 1 .. n : D[i].pr = Clamp(p[i])
  BY EntriesSeq
<1> HIDE DEF D
<1>3. \A i \in 1 .. n : D[i].pr >= x <=> p[i] >= x
  <2> SUFFICES ASSUME NEW i \in 1 .. n PROVE Clamp(p[i]) >= x <=> p[i] >= x
    BY <1>2
  <2>1. p[i] \in Int
    OBVIOUS
  <2> QED BY <2>1, PrioCapAssumption DEF Clamp
<1>4. {i \in DOMAIN D : D[i].pr >= x} = 1 .. k
  BY <1>1, <1>3
<1>5. Cardinality(1 .. k) = k
  <2>1. 1 \in Int /\ k \in Int /\ k >= 0
    OBVIOUS
  <2>2. Cardinality(1 .. k) = IF 1 > k THEN 0 ELSE k - 1 + 1
    BY <2>1, FS_Interval
  <2> QED BY <2>1, <2>2
<1>6. Place(D, x) = k + 1
  <2>1. Cardinality({i \in DOMAIN D : D[i].pr >= x}) = k
    BY <1>4, <1>5
  <2> QED BY <2>1 DEF Place
<1>7. Clamp(x) = x
  BY PrioCapAssumption DEF Clamp
<1>8. Insert(D, x, t) = InsertAt(D, k + 1, [th |-> t, pr |-> Clamp(x)])
  BY <1>6, <1>7 DEF Insert
<1> QED BY <1>8, EntriesInserted DEF D

\* The priority that beats everyone in the queue.
FavorOf(n, p) == IF n = 0 THEN PRIO_MAX ELSE p[1] + 1

LEMMA FavoriteDecoded ==
    ASSUME NEW n \in Nat, NEW s \in [1 .. n -> Threads], NEW p \in [1 .. n -> Int],
           NEW t \in Threads
    PROVE  PushFavorite(Entries(n, s, p), t)
             = Entries(n + 1, With(s, n, 0, t), With(p, n, 0, FavorOf(n, p)))
<1> DEFINE D == Entries(n, s, p)
           x == FavorOf(n, p)
           e == [th |-> t, pr |-> Clamp(x)]
           y == <<e>>
           one == 1
           I == InsertAt(D, one, e)
           N == n + 1
<1>1. D \in Seq(Entry(Threads)) /\ Len(D) = n /\ (D = <<>> <=> n = 0)
  BY EntriesSeq
<1>2. \A i \in 1 .. n : D[i].pr = Clamp(p[i])
  BY EntriesSeq
<1> HIDE DEF D
<1>3. x \in Int
  BY PrioCapAssumption DEF FavorOf
<1>4. FavoritePrio(D) = Clamp(x)
  <2>1. CASE n = 0
    BY <1>1, <2>1, PrioCapAssumption DEF FavoritePrio, FavorOf, Clamp
  <2>2. CASE n # 0
    <3>1. 1 \in 1 .. n /\ p[1] \in Int
      BY <2>2
    <3>2. D[1].pr = Clamp(p[1])
      BY <1>2, <3>1
    <3> QED BY <1>1, <2>2, <3>1, <3>2, PrioCapAssumption DEF FavoritePrio, FavorOf, Clamp
  <2> QED BY <2>1, <2>2
<1>5. PushFavorite(D, t) = y \o D
  BY <1>4 DEF PushFavorite
<1> HIDE DEF x
<1>6. e \in Entry(Threads)
  BY <1>3, ClampType DEF Entry
<1> HIDE DEF e
<1>7. y \in Seq(Entry(Threads)) /\ Len(y) = 1 /\ y[1] = e
  BY <1>6
<1> HIDE DEF y
<1>8. N \in Nat /\ N = n + 1 /\ one \in Nat /\ one = 1 /\ Len(y) = one /\ Len(y) + Len(D) = N
  BY <1>1, <1>7
<1> HIDE DEF N, one
<1>9. /\ y \o D \in Seq(Entry(Threads)) /\ Len(y \o D) = N
      /\ \A i \in 1 .. one : (y \o D)[i] = y[i]
      /\ \A i \in one + 1 .. N : (y \o D)[i] = D[i - one]
  <2> DEFINE S == Entry(Threads)
  <2>1. y \in Seq(S) /\ D \in Seq(S)
    BY <1>1, <1>7
  <2> HIDE DEF S
  <2>2. /\ y \o D \in Seq(S) /\ Len(y \o D) = N
        /\ \A i \in 1 .. one : (y \o D)[i] = y[i]
        /\ \A i \in one + 1 .. N : (y \o D)[i] = D[i - one]
    <3>1. /\ one \in Nat /\ N \in Nat /\ Len(y) = one /\ Len(y) + Len(D) = N
          /\ y \in Seq(S) /\ D \in Seq(S)
      BY <1>8, <2>1
    <3>2. y \o D \in Seq(S)
      BY ONLY <3>1, ConcatAt
    <3>3. Len(y \o D) = N
      BY ONLY <3>1, ConcatAt
    <3>4. \A i \in 1 .. one : (y \o D)[i] = y[i]
      BY ONLY <3>1, ConcatAt
    <3>5. \A i \in one + 1 .. N : (y \o D)[i] = D[i - one]
      BY ONLY <3>1, ConcatAt
    <3> QED BY <3>2, <3>3, <3>4, <3>5
  <2> QED BY <2>2 DEF S
<1>10. one \in 1 .. Len(D) + 1
  BY <1>1, <1>8
<1>11. I \in Seq(Entry(Threads)) /\ Len(I) = N /\ I[one] = e
  <2>1. I \in Seq(Entry(Threads))
    BY <1>1, <1>6, <1>10, InsertAtElements
  <2>2. Len(I) = Len(D) + 1
    BY <1>1, <1>6, <1>10, InsertAtElements
  <2>3. I[one] = e
    BY <1>1, <1>6, <1>10, InsertAtElements
  <2> QED BY <1>1, <1>8, <2>1, <2>2, <2>3
<1>12. \A i \in one + 1 .. N : I[i] = D[i - 1]
  <2>0. D \in Seq(Entry(Threads)) /\ e \in Entry(Threads) /\ one \in 1 .. Len(D) + 1
    BY <1>1, <1>6, <1>10
  <2>1. \A i \in one + 1 .. Len(D) + 1 : I[i] = D[i - 1]
    BY ONLY <2>0, InsertAtElements DEF I
  <2> QED BY <1>1, <1>8, <2>1
<1> HIDE DEF I
<1>13. ASSUME NEW i \in 1 .. N PROVE (y \o D)[i] = I[i]
  <2>1. CASE i = 1
    BY <1>7, <1>8, <1>9, <1>11, <2>1
  <2>2. CASE i # 1
    <3>1. i \in one + 1 .. N /\ i - one = i - 1
      BY <1>8, <2>2
    <3> QED BY <1>9, <1>12, <3>1
  <2> QED BY <2>1, <2>2
<1>14. y \o D = I
  <2> DEFINE A == y \o D
  <2> HIDE DEF A
  <2>1. A \in Seq(Entry(Threads)) /\ Len(A) = Len(I) /\ \A i \in 1 .. Len(A) : A[i] = I[i]
    BY <1>9, <1>11, <1>13 DEF A
  <2>2. A = I
    BY <1>11, <2>1, SeqEqual
  <2> QED BY <2>2 DEF A
<1>15. I = Entries(n + 1, With(s, n, 0, t), With(p, n, 0, x))
  <2> DEFINE k == 0
  <2>1. k \in 0 .. n /\ one = k + 1
    BY <1>8
  <2> HIDE DEF k
  <2>2. I = Entries(n + 1, With(s, n, k, t), With(p, n, k, x))
    BY <1>3, <2>1, EntriesInserted DEF I, D, e
  <2> QED BY <2>2 DEF k
<1> QED BY <1>5, <1>14, <1>15 DEF D, x

LEMMA DeleteDecoded ==
    ASSUME NEW n \in Nat, NEW s \in [1 .. n -> Threads], NEW p \in [1 .. n -> Int],
           OnceEach(s, n), NEW k \in 1 .. n
    PROVE  Delete(Entries(n, s, p), s[k]) = Entries(n - 1, Dropped(s, n, k), Dropped(p, n, k))
<1> DEFINE D == Entries(n, s, p)
<1>1. DOMAIN D = 1 .. n
  BY EntriesSeq
<1>2. \A i \in 1 .. n : D[i].th = s[i]
  BY EntriesSeq
<1> HIDE DEF D
<1>3. \A i \in 1 .. n : D[i].th = s[k] <=> i = k
  BY <1>2 DEF OnceEach
<1>4. Position(D, s[k]) = k
  <2>1. Position(D, s[k]) = CHOOSE i \in DOMAIN D : D[i].th = s[k]
    BY DEF Position
  <2>2. k \in DOMAIN D /\ D[k].th = s[k]
    BY <1>1, <1>3
  <2>3. Position(D, s[k]) \in DOMAIN D /\ D[Position(D, s[k])].th = s[k]
    BY <2>1, <2>2
  <2> QED BY <1>1, <1>3, <2>3
<1>5. Delete(D, s[k]) = RemoveAt(D, k)
  BY <1>4 DEF Delete
<1> QED BY <1>5, EntriesDropped DEF D

LEMMA TailDecoded ==
    ASSUME NEW n \in Nat, NEW s \in [1 .. n -> Threads], NEW p \in [1 .. n -> Int], n # 0
    PROVE  Tail(Entries(n, s, p)) = Entries(n - 1, Dropped(s, n, 1), Dropped(p, n, 1))
<1> DEFINE D == Entries(n, s, p)
           T == Tail(D)
           one == 1
           R == RemoveAt(D, one)
           N == n - 1
<1>1. D \in Seq(Entry(Threads)) /\ Len(D) = n /\ D # <<>>
  BY EntriesSeq
<1> HIDE DEF D
<1>2. N \in Nat /\ N = n - 1 /\ one = 1 /\ one \in 1 .. Len(D) /\ one \in 1 .. n
  BY <1>1
<1>3. /\ T \in Seq(Entry(Threads)) /\ Len(T) = N
      /\ \A i \in 1 .. N : T[i] = D[i + 1]
  BY <1>1, HeadTailProperties
<1> HIDE DEF T, N, one
<1>4. R \in Seq(Entry(Threads)) /\ Len(R) = N
  <2>1. R \in Seq(Entry(Threads))
    BY <1>1, <1>2, RemoveAtElements
  <2>2. Len(R) = Len(D) - 1
    BY <1>1, <1>2, RemoveAtElements
  <2> QED BY <1>1, <1>2, <2>1, <2>2
<1>5. \A i \in 1 .. N : R[i] = D[i + 1]
  <2>1. \A i \in one .. Len(D) - 1 : R[i] = D[i + 1]
    BY <1>1, <1>2, RemoveAtElements
  <2> QED BY <1>1, <1>2, <2>1
<1>6. R = Entries(n - 1, Dropped(s, n, one), Dropped(p, n, one))
  BY <1>2, EntriesDropped DEF D
<1> HIDE DEF R
<1>7. T = R
  BY <1>3, <1>4, <1>5, SeqEqual
<1> QED BY <1>6, <1>7 DEF T, D, one

LEMMA IncreaseDecoded ==
    ASSUME NEW n \in Nat, NEW s \in [1 .. n -> Threads], NEW p \in [1 .. n -> Int]
    PROVE  Increase(Entries(n, s, p)) = Entries(n, s, [i \in 1 .. n |-> p[i] + 1])
<1> DEFINE D == Entries(n, s, p)
           v == [i \in 1 .. n |-> p[i] + 1]
<1>1. DOMAIN D = 1 .. n /\ \A i \in 1 .. n : D[i] = [th |-> s[i], pr |-> Clamp(p[i])]
  BY DEF Entries
<1> HIDE DEF D
<1>2. Increase(D) = [i \in 1 .. n |-> [D[i] EXCEPT !.pr = Clamp(D[i].pr + 1)]]
  BY <1>1 DEF Increase
<1>3. ASSUME NEW i \in 1 .. n
      PROVE  [D[i] EXCEPT !.pr = Clamp(D[i].pr + 1)] = [th |-> s[i], pr |-> Clamp(v[i])]
  <2>1. p[i] \in Int /\ v[i] = p[i] + 1
    OBVIOUS
  <2>2. Clamp(Clamp(p[i]) + 1) = Clamp(v[i])
    BY <2>1, PrioCapAssumption DEF Clamp
  <2>3. D[i].pr = Clamp(p[i]) /\ D[i] = [th |-> s[i], pr |-> Clamp(p[i])]
    BY <1>1
  <2> QED BY <2>2, <2>3
<1> HIDE DEF v
<1>4. Increase(D) = Entries(n, s, v)
  BY <1>2, <1>3 DEF Entries
<1> QED BY <1>4 DEF D, v

-----------------------------------------------------------------------------
(*                              Refinement                                 *)

DecodedOf(r) ==
    [i \in 1 .. r.num |-> [th |-> Chain(r)[i], pr |-> Clamp(AbsPrio(r)[i])]]

LEMMA DecodedReads ==
    ASSUME NEW r, NEW n \in Nat, NEW s, DOMAIN s = 1 .. n, NEW p, Stores(r, s, p)
    PROVE  r.num = n /\ DecodedOf(r) = Entries(n, s, p)
<1>1. r.num \in Nat /\ 1 .. r.num = 1 .. n
  BY DEF Stores, Rings
<1>2. r.num = n
  <2>1. r.num # 0 => r.num \in 1 .. n
    BY <1>1
  <2>2. n # 0 => n \in 1 .. r.num
    BY <1>1
  <2> QED BY <1>1, <2>1, <2>2
<1>3. Chain(r) = s /\ AbsPrio(r) = p
  BY ChainReads, AbsPrioReads
<1> QED BY <1>2, <1>3 DEF DecodedOf, Entries

\* What a ring holds, with the length of the queue named.
LEMMA StoredQueue ==
    ASSUME NEW r, NEW s, NEW p, Stores(r, s, p)
    PROVE  /\ r.num \in Nat
           /\ s \in [1 .. r.num -> Threads] /\ p \in [1 .. r.num -> Int]
           /\ OnceEach(s, r.num)
           /\ Chain(r) = s
           /\ DecodedOf(r) = Entries(r.num, s, p)
           /\ (r.head = NULL <=> r.num = 0)
           /\ r.num # 0 => /\ 1 \in 1 .. r.num /\ r.head = s[1] /\ s[1] \in Threads
                           /\ r.prio[r.head] = p[1] /\ p[1] \in Int
                           /\ r.prev[r.head] = s[r.num]
                           /\ (r.next[r.head] = r.head <=> r.num = 1)
<1>1. /\ r.num \in Nat
      /\ s \in [1 .. r.num -> Threads] /\ p \in [1 .. r.num -> Int]
      /\ OnceEach(s, r.num)
  BY DEF Stores, Rings
<1>2. DecodedOf(r) = Entries(r.num, s, p) /\ Chain(r) = s
  <2>1. DOMAIN s = 1 .. r.num
    BY <1>1
  <2> QED BY <1>1, <2>1, DecodedReads, ChainReads
<1>3. ASSUME r.num # 0
      PROVE  /\ 1 \in 1 .. r.num /\ r.head = s[1] /\ s[1] \in Threads
             /\ r.prio[r.head] = p[1] /\ p[1] \in Int
             /\ r.prev[r.head] = s[r.num]
             /\ (r.next[r.head] = r.head <=> r.num = 1)
  <2>1. 1 \in 1 .. r.num /\ (r.num # 1 => 2 \in 1 .. r.num)
    BY <1>1, <1>3
  <2>2. r.head = s[1] /\ s[1] \in Threads /\ p[1] \in Int
    BY <1>1, <1>3, <2>1 DEF Stores
  <2>3. r.prio[s[1]] = p[1]
    BY <2>1 DEF Stores, Differences
  <2>4. r.prev[s[1]] = s[r.num] /\ r.next[s[1]] = IF 1 = r.num THEN s[1] ELSE s[2]
    BY <2>1 DEF Stores, Linked, Circle
  <2>5. r.next[s[1]] = s[1] <=> r.num = 1
    BY <1>1, <2>1, <2>4 DEF OnceEach
  <2> QED BY <2>1, <2>2, <2>3, <2>4, <2>5
<1>4. r.head = NULL <=> r.num = 0
  <2>1. r.num = 0 => r.head = NULL
    BY DEF Stores
  <2> QED BY <1>3, <2>1, PqueueAssumption
<1> QED BY <1>1, <1>2, <1>3, <1>4

\* A favoured thread goes to the front.
LEMMA FavorStores ==
    ASSUME NEW r, NEW s, NEW p, Stores(r, s, p),
           NEW t \in Threads, \A i \in 1 .. r.num : s[i] # t
    PROVE  LET ins == pth_pqueue_insert(r, pth_pqueue_favorite_prio(r), t)
               f   == With(s, r.num, 0, t)
               g   == With(p, r.num, 0, FavorOf(r.num, p))
           IN  /\ Stores(ins, f, g)
               /\ DecodedOf(ins) = PushFavorite(DecodedOf(r), t)
<1> DEFINE x == FavorOf(r.num, p)
           ins == pth_pqueue_insert(r, x, t)
<1>1. /\ r.num \in Nat
      /\ s \in [1 .. r.num -> Threads] /\ p \in [1 .. r.num -> Int]
      /\ DecodedOf(r) = Entries(r.num, s, p)
      /\ (r.head = NULL <=> r.num = 0)
      /\ r.num # 0 => 1 \in 1 .. r.num /\ r.prio[r.head] = p[1] /\ p[1] \in Int
  BY StoredQueue
<1>2. x \in Int /\ pth_pqueue_favorite_prio(r) = x
  BY <1>1, PrioCapAssumption DEF FavorOf, pth_pqueue_favorite_prio
<1> HIDE DEF x
<1>3. PICK k \in 0 .. r.num :
         /\ \A i \in 1 .. r.num : p[i] >= x <=> i <= k
         /\ Stores(ins, With(s, r.num, k, t), With(p, r.num, k, x))
  BY <1>2, InsertStores
<1>4. k = 0
  <2>1. CASE r.num = 0
    BY <2>1
  <2>2. CASE r.num # 0
    <3>1. ~(p[1] >= x)
      BY <1>1, <2>2 DEF x, FavorOf
    <3> QED BY <1>1, <1>3, <2>2, <3>1
  <2> QED BY <2>1, <2>2
<1>5. Stores(ins, With(s, r.num, 0, t), With(p, r.num, 0, x))
  BY <1>3, <1>4
<1> HIDE DEF ins
<1>6. DecodedOf(ins) = Entries(r.num + 1, With(s, r.num, 0, t), With(p, r.num, 0, x))
  <2> DEFINE N == r.num + 1
  <2>1. N \in Nat /\ DOMAIN With(s, r.num, 0, t) = 1 .. N
    BY <1>1 DEF With
  <2> HIDE DEF N
  <2>2. DecodedOf(ins) = Entries(N, With(s, r.num, 0, t), With(p, r.num, 0, x))
    BY <1>5, <2>1, DecodedReads
  <2> QED BY <2>2 DEF N
<1>7. DecodedOf(ins) = PushFavorite(DecodedOf(r), t)
  BY <1>1, <1>6, FavoriteDecoded DEF x
<1> QED BY <1>2, <1>5, <1>7 DEF x, ins

\* Any thread of the queue removed.
LEMMA RemovalDecoded ==
    ASSUME NEW r, NEW s, NEW p, Stores(r, s, p), NEW k \in 1 .. r.num
    PROVE  LET d == pth_pqueue_delete(r, s[k])
               f == Dropped(s, r.num, k)
               g == Dropped(p, r.num, k)
           IN  /\ Stores(d, f, g)
               /\ d.num = r.num - 1
               /\ DecodedOf(d) = Entries(r.num - 1, f, g)
               /\ DecodedOf(d) = Delete(DecodedOf(r), s[k])
<1> DEFINE d == pth_pqueue_delete(r, s[k])
           f == Dropped(s, r.num, k)
           g == Dropped(p, r.num, k)
           N == r.num - 1
<1>1. /\ r.num \in Nat
      /\ s \in [1 .. r.num -> Threads] /\ p \in [1 .. r.num -> Int]
      /\ OnceEach(s, r.num)
      /\ DecodedOf(r) = Entries(r.num, s, p)
  BY StoredQueue
<1>2. Stores(d, f, g)
  BY DeleteStores
<1>3. N \in Nat /\ DOMAIN f = 1 .. N
  BY <1>1 DEF Dropped
<1> HIDE DEF d, f, g, N
<1>4. d.num = N /\ DecodedOf(d) = Entries(N, f, g)
  BY <1>2, <1>3, DecodedReads
<1>5. Entries(N, f, g) = Delete(DecodedOf(r), s[k])
  BY <1>1, DeleteDecoded DEF N, f, g
<1> QED BY <1>2, <1>4, <1>5 DEF d, f, g, N

LEMMA InitRefines == Init => IInv /\ PQ!Init
<1> SUFFICES ASSUME Init PROVE IInv /\ PQ!Init
  OBVIOUS
<1> DEFINE none == [i \in 1 .. 0 |-> NULL]
<1>1. \A i \in 1 .. 0 : FALSE
  OBVIOUS
<1>2. q.num = 0 /\ q.head = NULL /\ q \in Rings
  BY DEF Init, pth_pqueue_init, Rings
<1>3. DOMAIN none = 1 .. 0 /\ none \in [1 .. 0 -> Threads] /\ none \in [1 .. 0 -> Int]
  BY <1>1
<1> HIDE DEF none
<1>4. /\ OnceEach(none, 0) /\ Falling(none, 0)
      /\ Linked(q, none) /\ Differences(q, none, none)
  BY <1>1, <1>2 DEF OnceEach, Falling, Linked, Circle, Differences
<1>5. Stores(q, none, none)
  BY <1>2, <1>3, <1>4 DEF Stores
<1>6. Decoded = <<>>
  BY <1>1, <1>2 DEF Decoded
<1> QED BY <1>5, <1>6 DEF IInv, PQ!Init

\* The queue before a step, as every case below uses it.
LEMMA Before ==
    ASSUME NEW s, NEW p, Stores(q, s, p)
    PROVE  /\ Decoded = DecodedOf(q) /\ Decoded' = DecodedOf(q')
           /\ Members(Decoded) = {s[i] : i \in 1 .. q.num}
           /\ (Decoded = <<>> <=> q.num = 0)
           /\ \A t : InQueue(q, t) <=> \E k \in 1 .. q.num : s[k] = t
<1>1. Decoded = DecodedOf(q) /\ Decoded' = DecodedOf(q')
  BY DEF Decoded, DecodedOf
<1>2. /\ q.num \in Nat /\ s \in [1 .. q.num -> Threads] /\ p \in [1 .. q.num -> Int]
      /\ Chain(q) = s /\ DecodedOf(q) = Entries(q.num, s, p)
  BY StoredQueue
<1>3. /\ Members(Entries(q.num, s, p)) = {s[i] : i \in 1 .. q.num}
      /\ (Entries(q.num, s, p) = <<>> <=> q.num = 0)
  BY <1>2, EntriesSeq
<1> QED BY <1>1, <1>2, <1>3 DEF InQueue

LEMMA InsertRefines ==
    ASSUME IInv, NEW t \in Threads, NEW prio \in Prios, DoInsert(t, prio)
    PROVE  IInv' /\ PQ!QInsert(t, prio)
<1> PICK s, p : Stores(q, s, p)
  BY DEF IInv
<1>1. /\ Decoded = DecodedOf(q) /\ Decoded' = DecodedOf(q')
      /\ Members(Decoded) = {s[i] : i \in 1 .. q.num}
      /\ InQueue(q, t) <=> \E k \in 1 .. q.num : s[k] = t
  BY Before
<1>2. \A i \in 1 .. q.num : s[i] # t
  BY <1>1 DEF DoInsert
<1>3. prio \in Int /\ prio <= PRIO_MAX + 1
  BY PqueueAssumption
<1>4. PICK k \in 0 .. q.num :
         /\ \A i \in 1 .. q.num : p[i] >= prio <=> i <= k
         /\ Stores(q', With(s, q.num, k, t), With(p, q.num, k, prio))
  BY <1>2, <1>3, InsertStores DEF DoInsert
<1>5. /\ q.num \in Nat /\ s \in [1 .. q.num -> Threads] /\ p \in [1 .. q.num -> Int]
      /\ DecodedOf(q) = Entries(q.num, s, p)
  BY StoredQueue
<1>6. DecodedOf(q') = Entries(q.num + 1, With(s, q.num, k, t), With(p, q.num, k, prio))
  <2> DEFINE N == q.num + 1
             w == With(s, q.num, k, t)
             v == With(p, q.num, k, prio)
             r == q'
  <2>1. N \in Nat /\ DOMAIN w = 1 .. N /\ Stores(r, w, v)
    BY <1>4, <1>5 DEF With
  <2> HIDE DEF N, w, v, r
  <2>2. DecodedOf(r) = Entries(N, w, v)
    BY <2>1, DecodedReads
  <2> QED BY <2>2 DEF N, w, v, r
<1>7. Insert(DecodedOf(q), prio, t)
        = Entries(q.num + 1, With(s, q.num, k, t), With(p, q.num, k, prio))
  BY <1>3, <1>4, <1>5, InsertDecoded
<1>8. Decoded' = Insert(Decoded, prio, t) /\ t \notin Members(Decoded)
  BY <1>1, <1>2, <1>6, <1>7
<1>9. IInv'
  BY <1>4 DEF IInv
<1> QED BY <1>8, <1>9, PQSame DEF PQ!QInsert

LEMMA InsertFavoredRefines ==
    ASSUME IInv, NEW t \in Threads, DoInsertFavored(t)
    PROVE  IInv' /\ PQ!QPushFavorite(t)
<1> PICK s, p : Stores(q, s, p)
  BY DEF IInv
<1>1. /\ Decoded = DecodedOf(q) /\ Decoded' = DecodedOf(q')
      /\ Members(Decoded) = {s[i] : i \in 1 .. q.num}
      /\ InQueue(q, t) <=> \E k \in 1 .. q.num : s[k] = t
  BY Before
<1>2. \A i \in 1 .. q.num : s[i] # t
  BY <1>1 DEF DoInsertFavored
<1> DEFINE ins == pth_pqueue_insert(q, pth_pqueue_favorite_prio(q), t)
<1>3. /\ \E f, g : Stores(ins, f, g)
      /\ DecodedOf(ins) = PushFavorite(DecodedOf(q), t)
  BY <1>2, FavorStores
<1>4. q' = ins
  BY DEF DoInsertFavored
<1> HIDE DEF ins
<1>5. IInv' /\ Decoded' = PushFavorite(Decoded, t) /\ t \notin Members(Decoded)
  BY <1>1, <1>2, <1>3, <1>4 DEF IInv
<1> QED BY <1>5, PQSame DEF PQ!QPushFavorite

LEMMA DeleteRefines ==
    ASSUME IInv, NEW t \in Threads, DoDelete(t)
    PROVE  IInv' /\ PQ!QDelete(t)
<1> PICK s, p : Stores(q, s, p)
  BY DEF IInv
<1>1. /\ Decoded = DecodedOf(q) /\ Decoded' = DecodedOf(q')
      /\ Members(Decoded) = {s[i] : i \in 1 .. q.num}
      /\ InQueue(q, t) <=> \E k \in 1 .. q.num : s[k] = t
  BY Before
<1>2. PICK k \in 1 .. q.num : s[k] = t
  BY <1>1 DEF DoDelete
<1> DEFINE d == pth_pqueue_delete(q, s[k])
<1>3. /\ \E f, g : Stores(d, f, g)
      /\ DecodedOf(d) = Delete(DecodedOf(q), s[k])
  BY RemovalDecoded
<1>4. q' = d
  BY <1>2 DEF DoDelete
<1> HIDE DEF d
<1>5. IInv' /\ Decoded' = Delete(Decoded, t) /\ t \in Members(Decoded)
  BY <1>1, <1>2, <1>3, <1>4 DEF IInv
<1> QED BY <1>5, PQSame DEF PQ!QDelete

LEMMA FavoriteRefines ==
    ASSUME IInv, NEW t \in Threads, DoFavorite(t)
    PROVE  IInv' /\ PQ!QFavorite(t)
<1> PICK s, p : Stores(q, s, p)
  BY DEF IInv
<1>1. /\ Decoded = DecodedOf(q) /\ Decoded' = DecodedOf(q')
      /\ Members(Decoded) = {s[i] : i \in 1 .. q.num}
      /\ InQueue(q, t) <=> \E k \in 1 .. q.num : s[k] = t
  BY Before
<1>2. PICK k \in 1 .. q.num : s[k] = t
  BY <1>1 DEF DoFavorite
<1>3. /\ q.num \in Nat /\ s \in [1 .. q.num -> Threads] /\ p \in [1 .. q.num -> Int]
      /\ OnceEach(s, q.num) /\ DecodedOf(q) = Entries(q.num, s, p)
  BY StoredQueue
<1>4. Len(DecodedOf(q)) = q.num
  BY <1>3, EntriesSeq
<1>5. IInv' /\ Decoded' = Favorite(Decoded, t)
  <2>1. CASE q.num = 1
    <3>1. q' = q
      BY <2>1 DEF DoFavorite, pth_pqueue_favorite
    <3>2. Favorite(DecodedOf(q), t) = DecodedOf(q)
      BY <1>4, <2>1 DEF Favorite
    <3> QED BY <1>1, <3>1, <3>2 DEF IInv
  <2>2. CASE q.num # 1
    <3> DEFINE d == pth_pqueue_delete(q, s[k])
               f == Dropped(s, q.num, k)
               g == Dropped(p, q.num, k)
               ins == pth_pqueue_insert(d, pth_pqueue_favorite_prio(d), t)
    <3>1. /\ Stores(d, f, g) /\ d.num = q.num - 1
          /\ DecodedOf(d) = Delete(DecodedOf(q), s[k])
      BY RemovalDecoded
    <3>2. q' = ins
      BY <1>2, <2>2 DEF DoFavorite, pth_pqueue_favorite
    <3>3. \A i \in 1 .. d.num : f[i] # t
      <4>1. \A i \in 1 .. q.num - 1 : Dropped(s, q.num, k)[i] # s[k]
        BY <1>3, DroppedProps
      <4> QED BY <1>2, <3>1, <4>1
    <3> HIDE DEF d, f, g
    <3>4. /\ \E ff, gg : Stores(ins, ff, gg)
          /\ DecodedOf(ins) = PushFavorite(DecodedOf(d), t)
      BY <3>1, <3>3, FavorStores
    <3>5. Favorite(DecodedOf(q), t) = PushFavorite(Delete(DecodedOf(q), t), t)
      <4>1. ~(q.num <= 1)
        BY <1>2, <1>3, <2>2
      <4> QED BY <1>4, <4>1 DEF Favorite
    <3> HIDE DEF ins
    <3> QED BY <1>1, <1>2, <3>1, <3>2, <3>4, <3>5 DEF IInv
  <2> QED BY <2>1, <2>2
<1>6. t \in Members(Decoded)
  BY <1>1, <1>2
<1> QED BY <1>5, <1>6, PQSame DEF PQ!QFavorite

LEMMA DelmaxRefines ==
    ASSUME IInv, DoDelmax
    PROVE  IInv' /\ PQ!QDelmax
<1> PICK s, p : Stores(q, s, p)
  BY DEF IInv
<1>1. /\ Decoded = DecodedOf(q) /\ Decoded' = DecodedOf(q')
      /\ (Decoded = <<>> <=> q.num = 0)
  BY Before
<1>2. /\ q.num \in Nat /\ s \in [1 .. q.num -> Threads] /\ p \in [1 .. q.num -> Int]
      /\ DecodedOf(q) = Entries(q.num, s, p)
      /\ (q.head = NULL <=> q.num = 0)
      /\ q.num # 0 => 1 \in 1 .. q.num /\ q.head = s[1]
  BY StoredQueue
<1>3. q.num # 0 /\ 1 \in 1 .. q.num /\ q.head = s[1]
  BY <1>2 DEF DoDelmax
<1> DEFINE one == 1
           d == pth_pqueue_delete(q, s[one])
           f == Dropped(s, q.num, one)
           g == Dropped(p, q.num, one)
<1>4. q' = d
  BY <1>3 DEF DoDelmax, pth_pqueue_delete
<1>5. Stores(d, f, g) /\ DecodedOf(d) = Entries(q.num - 1, f, g)
  <2> HIDE DEF one
  <2>1. one \in 1 .. q.num
    BY <1>3 DEF one
  <2> QED BY <2>1, RemovalDecoded
<1>6. Tail(DecodedOf(q)) = Entries(q.num - 1, f, g)
  BY <1>2, <1>3, TailDecoded
<1> HIDE DEF d, f, g
<1>7. IInv' /\ Decoded' = Tail(Decoded) /\ Decoded # <<>>
  BY <1>1, <1>3, <1>4, <1>5, <1>6 DEF IInv
<1> QED BY <1>7 DEF PQ!QDelmax

LEMMA DeleteTailRefines ==
    ASSUME IInv, DoDeleteTail
    PROVE  IInv' /\ \E t \in Threads : PQ!QDelete(t)
<1> PICK s, p : Stores(q, s, p)
  BY DEF IInv
<1>1. /\ Decoded = DecodedOf(q) /\ Decoded' = DecodedOf(q')
      /\ Members(Decoded) = {s[i] : i \in 1 .. q.num}
  BY Before
<1>2. /\ q.num \in Nat /\ s \in [1 .. q.num -> Threads]
      /\ (q.head = NULL <=> q.num = 0)
      /\ q.num # 0 => q.prev[q.head] = s[q.num]
  BY StoredQueue
<1> DEFINE k == q.num
           d == pth_pqueue_delete(q, s[k])
<1>3. k \in 1 .. q.num /\ s[k] \in Threads /\ q.prev[q.head] = s[k]
  <2>1. q.num # 0
    BY <1>2 DEF DoDeleteTail
  <2>2. q.num \in 1 .. q.num
    BY <1>2, <2>1
  <2> QED BY <1>2, <2>1, <2>2
<1>4. q' = d
  BY <1>3 DEF DoDeleteTail, pth_pqueue_tail
<1> HIDE DEF k
<1>5. /\ \E f, g : Stores(d, f, g)
      /\ DecodedOf(d) = Delete(DecodedOf(q), s[k])
  BY <1>3, RemovalDecoded
<1> HIDE DEF d
<1>6. IInv' /\ Decoded' = Delete(Decoded, s[k]) /\ s[k] \in Members(Decoded)
  BY <1>1, <1>3, <1>4, <1>5 DEF IInv
<1>7. PQ!QDelete(s[k])
  BY <1>6, PQSame DEF PQ!QDelete
<1> QED BY <1>3, <1>6, <1>7

LEMMA IncreaseRefines ==
    ASSUME IInv, DoIncrease
    PROVE  IInv' /\ PQ!QIncrease
<1> PICK s, p : Stores(q, s, p)
  BY DEF IInv
<1>1. Decoded = DecodedOf(q) /\ Decoded' = DecodedOf(q')
  BY Before
<1>2. /\ q.num \in Nat /\ s \in [1 .. q.num -> Threads] /\ p \in [1 .. q.num -> Int]
      /\ DecodedOf(q) = Entries(q.num, s, p)
      /\ (q.head = NULL <=> q.num = 0)
  BY StoredQueue
<1> DEFINE r == pth_pqueue_increase(q)
           v == [i \in 1 .. q.num |-> p[i] + 1]
<1>3. q.num # 0 /\ q' = r
  BY <1>2 DEF DoIncrease
<1>4. Stores(r, s, v)
  BY <1>3, IncreaseStores
<1>5. Increase(Entries(q.num, s, p)) = Entries(q.num, s, v)
  BY <1>2, IncreaseDecoded
<1> HIDE DEF r, v
<1>6. DecodedOf(r) = Entries(q.num, s, v)
  <2>1. DOMAIN s = 1 .. q.num
    BY <1>2
  <2> QED BY <1>2, <1>4, <2>1, DecodedReads
<1>7. IInv' /\ Decoded' = Increase(Decoded)
  BY <1>1, <1>2, <1>3, <1>4, <1>5, <1>6 DEF IInv
<1> QED BY <1>7, PQSame DEF PQ!QIncrease

(* The ring of pth_pqueue.c implements the priority queue: every insertion, *)
(* favouring, removal and aging, worked on the links and the differences of *)
(* priority, is the operation of that name on the sequence of the queued    *)
(* threads, in particular first come, first served among equals.            *)
THEOREM RingIsAQueue == Spec => RefinesPrioQueue
<1>1. Init => IInv /\ PQ!Init
  BY InitRefines
<1>2. IInv /\ [Next]_q => IInv' /\ [PQ!Next]_Decoded
  <2> SUFFICES ASSUME IInv, [Next]_q PROVE IInv' /\ [PQ!Next]_Decoded
    OBVIOUS
  <2>1. CASE UNCHANGED q
    <3>1. Decoded' = Decoded
      BY <2>1 DEF Decoded
    <3> QED BY <2>1, <3>1 DEF IInv
  <2>2. ASSUME NEW t \in Threads, NEW prio \in Prios, DoInsert(t, prio)
        PROVE  IInv' /\ PQ!Next
    BY <2>2, InsertRefines DEF PQ!Next
  <2>3. ASSUME NEW t \in Threads, DoInsertFavored(t) PROVE IInv' /\ PQ!Next
    BY <2>3, InsertFavoredRefines DEF PQ!Next
  <2>4. ASSUME NEW t \in Threads, DoDelete(t) PROVE IInv' /\ PQ!Next
    BY <2>4, DeleteRefines DEF PQ!Next
  <2>5. ASSUME NEW t \in Threads, DoFavorite(t) PROVE IInv' /\ PQ!Next
    BY <2>5, FavoriteRefines DEF PQ!Next
  <2>6. CASE DoDelmax
    BY <2>6, DelmaxRefines DEF PQ!Next
  <2>7. CASE DoDeleteTail
    BY <2>7, DeleteTailRefines DEF PQ!Next
  <2>8. CASE DoIncrease
    BY <2>8, IncreaseRefines DEF PQ!Next
  <2> QED BY <2>1, <2>2, <2>3, <2>4, <2>5, <2>6, <2>7, <2>8 DEF Next
<1> QED BY <1>1, <1>2, PTL DEF Spec, RefinesPrioQueue, PQ!Spec


-----------------------------------------------------------------------------
(*                           The plain ring                                *)

(* The ring r stores the n nodes s.                                        *)
RingLinks(r) ==
    /\ DOMAIN r = {"hook", "nodes", "next", "prev"}
    /\ r.next \in [Nodes -> Nodes \cup {NoNode}]
    /\ r.prev \in [Nodes -> Nodes \cup {NoNode}]

RingStores(r, s, n) ==
    /\ RingLinks(r)
    /\ n \in Nat /\ s \in [1 .. n -> Nodes] /\ OnceEach(s, n)
    /\ r.nodes = n
    /\ r.hook = IF n = 0 THEN NoNode ELSE s[1]
    /\ Circle(r.next, r.prev, s, n)

LEMMA RingFacts ==
    ASSUME NEW r, NEW s, NEW n, RingStores(r, s, n)
    PROVE  /\ n \in Nat /\ s \in [1 .. n -> Nodes] /\ OnceEach(s, n)
           /\ r.next \in [Nodes -> Nodes \cup {NoNode}]
           /\ r.prev \in [Nodes -> Nodes \cup {NoNode}]
           /\ r.nodes = n /\ r.hook = IF n = 0 THEN NoNode ELSE s[1]
           /\ \A i \in 1 .. n : s[i] \in Nodes /\ s[i] # NoNode
           /\ n = 0 <=> r.hook = NoNode
<1>1. /\ n \in Nat /\ s \in [1 .. n -> Nodes] /\ OnceEach(s, n)
      /\ r.next \in [Nodes -> Nodes \cup {NoNode}]
      /\ r.prev \in [Nodes -> Nodes \cup {NoNode}]
      /\ r.nodes = n /\ r.hook = IF n = 0 THEN NoNode ELSE s[1]
  BY DEF RingStores, RingLinks
<1>2. \A i \in 1 .. n : s[i] \in Nodes /\ s[i] # NoNode
  BY <1>1, RingAssumption
<1>3. n # 0 => 1 \in 1 .. n
  BY <1>1
<1> QED BY <1>1, <1>2, <1>3

\* The first node of a ring.
LEMMA AloneStores ==
    ASSUME NEW r, NEW s, RingStores(r, s, 0), NEW t \in Nodes
    PROVE  RingStores(Alone(r, t), With(s, 0, 0, t), 1)
<1> DEFINE r1 == Alone(r, t)
           w  == With(s, 0, 0, t)
<1>1. RingLinks(r) /\ r.nodes = 0
  BY DEF RingStores
<1>2. /\ DOMAIN r1 = {"hook", "nodes", "next", "prev"}
      /\ r1.hook = t /\ r1.nodes = 1
      /\ r1.next = [r.next EXCEPT ![t] = t] /\ r1.prev = [r.prev EXCEPT ![t] = t]
  BY <1>1 DEF RingLinks, Alone
<1> HIDE DEF r1
<1>3. RingLinks(r1) /\ r1.next[t] = t /\ r1.prev[t] = t
  BY <1>1, <1>2 DEF RingLinks
<1>4. w \in [1 .. 1 -> Nodes] /\ w[1] = t /\ \A i \in 1 .. 1 : i = 1
  BY DEF With
<1> HIDE DEF w
<1>5. Circle(r1.next, r1.prev, w, 1) /\ OnceEach(w, 1)
  BY <1>3, <1>4 DEF Circle, OnceEach
<1>6. RingStores(r1, w, 1)
  BY <1>2, <1>3, <1>4, <1>5 DEF RingStores
<1> QED BY <1>6 DEF r1, w

\* A node between two of the ring.
LEMMA BetweenStores ==
    ASSUME NEW r, NEW s, NEW n, RingStores(r, s, n), n # 0,
           NEW t \in Nodes, \A i \in 1 .. n : s[i] # t, NEW k \in 0 .. n,
           NEW r1, RingLinks(r1), r1.nodes = n + 1,
           r1.hook = IF k = 0 THEN t ELSE s[1],
           r1.next = [r.next EXCEPT ![t] = After(s, n, k), ![Ahead(s, n, k)] = t],
           r1.prev = [r.prev EXCEPT ![t] = Ahead(s, n, k), ![After(s, n, k)] = t]
    PROVE  RingStores(r1, With(s, n, k, t), n + 1)
<1> DEFINE nx == r.next
           pv == r.prev
           nx1 == r1.next
           pv1 == r1.prev
           w == With(s, n, k, t)
<1>1. /\ n \in Nat /\ n # 0 /\ s \in [1 .. n -> Nodes] /\ OnceEach(s, n)
      /\ t \in Nodes /\ (\A i \in 1 .. n : s[i] # t) /\ k \in 0 .. n
  BY RingFacts
<1>2. /\ Circle(nx, pv, s, n) /\ Nodes \subseteq DOMAIN nx /\ Nodes \subseteq DOMAIN pv
      /\ nx1 = [nx EXCEPT ![t] = After(s, n, k), ![Ahead(s, n, k)] = t]
      /\ pv1 = [pv EXCEPT ![t] = Ahead(s, n, k), ![After(s, n, k)] = t]
  BY RingFacts DEF RingStores
<1> HIDE DEF nx, pv, nx1, pv1
<1>3. Circle(nx1, pv1, With(s, n, k, t), n + 1)
  BY ONLY <1>1, <1>2, CircleGrows
<1>4. w \in [1 .. n + 1 -> Nodes] /\ OnceEach(w, n + 1)
  BY ONLY <1>1, WithInjective
<1>5. w[1] = (IF k = 0 THEN t ELSE s[1]) /\ n + 1 \in Nat /\ n + 1 # 0
  BY <1>1 DEF With
<1> QED BY <1>3, <1>4, <1>5 DEF RingStores, nx1, pv1

LEMMA BetweenFields ==
    ASSUME NEW r, RingLinks(r), NEW a \in Nodes, NEW b \in Nodes, NEW t \in Nodes,
           NEW r1, r1 = Between(r, a, t, b)
    PROVE  /\ RingLinks(r1) /\ r1.nodes = r.nodes + 1 /\ r1.hook = r.hook
           /\ r1.next = [r.next EXCEPT ![t] = b, ![a] = t]
           /\ r1.prev = [r.prev EXCEPT ![t] = a, ![b] = t]
<1> DEFINE nx == [r.next EXCEPT ![t] = b, ![a] = t]
           pv == [r.prev EXCEPT ![t] = a, ![b] = t]
<1>1. nx \in [Nodes -> Nodes \cup {NoNode}] /\ pv \in [Nodes -> Nodes \cup {NoNode}]
  BY DEF RingLinks
<1>2. /\ DOMAIN r1 = {"hook", "nodes", "next", "prev"}
      /\ r1.next = nx /\ r1.prev = pv /\ r1.nodes = r.nodes + 1 /\ r1.hook = r.hook
  BY DEF RingLinks, Between
<1> HIDE DEF nx, pv
<1>3. RingLinks(r1)
  BY <1>1, <1>2 DEF RingLinks
<1> QED BY <1>2, <1>3 DEF nx, pv

LEMMA HookFields ==
    ASSUME NEW r, RingLinks(r), NEW t, NEW r1, r1 = [r EXCEPT !.hook = t]
    PROVE  RingLinks(r1) /\ r1.nodes = r.nodes /\ r1.hook = t /\ r1.next = r.next /\ r1.prev = r.prev
<1>1. /\ DOMAIN r1 = DOMAIN r /\ r1.nodes = r.nodes /\ r1.hook = t
      /\ r1.next = r.next /\ r1.prev = r.prev
  BY DEF RingLinks
<1> QED BY <1>1 DEF RingLinks

\* Between two nodes of a ring; in front of the first one if it is made the hook.
LEMMA LinkedInStores ==
    ASSUME NEW r, NEW s, NEW n, RingStores(r, s, n), n # 0,
           NEW t \in Nodes, \A i \in 1 .. n : s[i] # t, NEW k \in 0 .. n,
           NEW a, a = Ahead(s, n, k), NEW b, b = After(s, n, k)
    PROVE  /\ k # 0 => RingStores(Between(r, a, t, b), With(s, n, k, t), n + 1)
           /\ k = 0 => RingStores([Between(r, a, t, b) EXCEPT !.hook = t], With(s, n, k, t), n + 1)
<1> DEFINE r1 == Between(r, a, t, b)
           r2 == [r1 EXCEPT !.hook = t]
<1>1. n \in Nat /\ 1 \in 1 .. n /\ n \in 1 .. n /\ (k # 0 => k \in 1 .. n) /\ (k # n => k + 1 \in 1 .. n)
  BY RingFacts
<1>2. a \in Nodes /\ b \in Nodes
  <2>1. \A i \in 1 .. n : s[i] \in Nodes
    BY RingFacts
  <2> QED BY <1>1, <2>1 DEF Ahead, After
<1>3. RingLinks(r) /\ r.nodes = n /\ r.hook = s[1]
  BY DEF RingStores
<1>4. /\ RingLinks(r1) /\ r1.nodes = n + 1 /\ r1.hook = s[1]
      /\ r1.next = [r.next EXCEPT ![t] = b, ![a] = t]
      /\ r1.prev = [r.prev EXCEPT ![t] = a, ![b] = t]
  <2>1. r1 = Between(r, a, t, b)
    OBVIOUS
  <2> HIDE DEF r1
  <2>2. /\ RingLinks(r1) /\ r1.nodes = r.nodes + 1 /\ r1.hook = r.hook
        /\ r1.next = [r.next EXCEPT ![t] = b, ![a] = t]
        /\ r1.prev = [r.prev EXCEPT ![t] = a, ![b] = t]
    BY ONLY <1>2, <1>3, <2>1, t \in Nodes, BetweenFields
  <2> QED BY <1>3, <2>2
<1> HIDE DEF r1
<1>5. /\ RingLinks(r2) /\ r2.nodes = n + 1 /\ r2.hook = t
      /\ r2.next = r1.next /\ r2.prev = r1.prev
  BY <1>4, HookFields
<1> HIDE DEF r2
<1>6. ASSUME k # 0 PROVE RingStores(r1, With(s, n, k, t), n + 1)
  BY <1>4, <1>6, BetweenStores
<1>7. ASSUME k = 0 PROVE RingStores(r2, With(s, n, k, t), n + 1)
  BY <1>4, <1>5, <1>7, BetweenStores
<1> QED BY <1>6, <1>7 DEF r1, r2

LEMMA AppendStores ==
    ASSUME NEW r, NEW s, NEW n, RingStores(r, s, n),
           NEW t \in Nodes, \A i \in 1 .. n : s[i] # t
    PROVE  RingStores(pth_ring_append(r, t), With(s, n, n, t), n + 1)
<1>1. CASE n = 0
  <2>1. pth_ring_append(r, t) = Alone(r, t)
    BY <1>1, RingFacts DEF pth_ring_append
  <2>2. RingStores(r, s, 0)
    BY <1>1
  <2> QED BY <1>1, <2>1, <2>2, AloneStores
<1>2. CASE n # 0
  <2>1. n \in Nat /\ n \in 1 .. n /\ 1 \in 1 .. n /\ n \in 0 .. n
    BY <1>2, RingFacts
  <2>2. s[n] \in Nodes /\ s[1] \in Nodes /\ r.hook = s[1] /\ r.hook # NoNode
    BY <1>2, <2>1, RingFacts
  <2>3. r.prev[s[1]] = s[n] /\ RingLinks(r) /\ r.nodes = n
    BY <2>1 DEF RingStores, Circle
  <2>4. Ahead(s, n, n) = s[n] /\ After(s, n, n) = s[1]
    BY <1>2 DEF Ahead, After
  <2> DEFINE r1 == Between(r, s[n], t, s[1])
  <2>5. pth_ring_append(r, t) = r1
    BY <2>2, <2>3 DEF pth_ring_append
  <2> HIDE DEF r1
  <2>7. RingStores(r1, With(s, n, n, t), n + 1)
    BY <1>2, <2>1, <2>4, LinkedInStores DEF r1
  <2> QED BY <2>5, <2>7
<1> QED BY <1>1, <1>2

LEMMA PrependStores ==
    ASSUME NEW r, NEW s, NEW n, RingStores(r, s, n),
           NEW t \in Nodes, \A i \in 1 .. n : s[i] # t
    PROVE  RingStores(pth_ring_prepend(r, t), With(s, n, 0, t), n + 1)
<1>1. CASE n = 0
  <2>1. pth_ring_prepend(r, t) = Alone(r, t)
    BY <1>1, RingFacts DEF pth_ring_prepend
  <2>2. RingStores(r, s, 0)
    BY <1>1
  <2> QED BY <1>1, <2>1, <2>2, AloneStores
<1>2. CASE n # 0
  <2>1. n \in Nat /\ n \in 1 .. n /\ 1 \in 1 .. n /\ 0 \in 0 .. n
    BY <1>2, RingFacts
  <2>2. s[n] \in Nodes /\ s[1] \in Nodes /\ r.hook = s[1] /\ r.hook # NoNode
    BY <1>2, <2>1, RingFacts
  <2>3. r.prev[s[1]] = s[n] /\ RingLinks(r) /\ r.nodes = n
    BY <2>1 DEF RingStores, Circle
  <2>4. Ahead(s, n, 0) = s[n] /\ After(s, n, 0) = s[1]
    BY <1>2, <2>1 DEF Ahead, After
  <2> DEFINE r1 == [Between(r, s[n], t, s[1]) EXCEPT !.hook = t]
  <2>5. pth_ring_prepend(r, t) = r1
    BY <2>2, <2>3 DEF pth_ring_prepend, pth_ring_append
  <2> HIDE DEF r1
  <2>7. RingStores(r1, With(s, n, 0, t), n + 1)
    BY <1>2, <2>1, <2>4, LinkedInStores DEF r1
  <2> QED BY <2>5, <2>7
<1> QED BY <1>1, <1>2

LEMMA InsertAfterStores ==
    ASSUME NEW r, NEW s, NEW n, RingStores(r, s, n), NEW k \in 1 .. n,
           NEW t \in Nodes, \A i \in 1 .. n : s[i] # t
    PROVE  RingStores(pth_ring_insert_after(r, s[k], t), With(s, n, k, t), n + 1)
<1>1. n \in Nat /\ n # 0 /\ k \in 0 .. n /\ k # 0 /\ 1 \in 1 .. n /\ (k # n => k + 1 \in 1 .. n)
  BY RingFacts
<1>2. /\ s[k] \in Nodes /\ After(s, n, k) \in Nodes /\ r.hook = s[1]
      /\ Ahead(s, n, k) = s[k] /\ r.next[s[k]] = After(s, n, k)
      /\ RingLinks(r) /\ r.nodes = n
  <2>1. \A i \in 1 .. n : s[i] \in Nodes
    BY RingFacts
  <2> QED BY <1>1, <2>1 DEF RingStores, Circle, Ahead, After
<1> DEFINE r1 == Between(r, s[k], t, After(s, n, k))
<1>3. pth_ring_insert_after(r, s[k], t) = r1
  BY <1>2 DEF pth_ring_insert_after
<1>5. RingStores(r1, With(s, n, k, t), n + 1)
  BY <1>1, <1>2, LinkedInStores
<1> QED BY <1>3, <1>5

\* In front of the first node is behind the last one.
LEMMA InsertBeforeStores ==
    ASSUME NEW r, NEW s, NEW n, RingStores(r, s, n), NEW k \in 1 .. n,
           NEW t \in Nodes, \A i \in 1 .. n : s[i] # t
    PROVE  RingStores(pth_ring_insert_before(r, s[k], t),
                      With(s, n, IF k = 1 THEN n ELSE k - 1, t), n + 1)
<1> DEFINE g == IF k = 1 THEN n ELSE k - 1
<1>1. /\ n \in Nat /\ n # 0 /\ g \in 1 .. n /\ g \in 0 .. n /\ g # 0
      /\ (g = n => k = 1 \/ n = k - 1) /\ (g # n => g + 1 = k) /\ 1 \in 1 .. n
  BY RingFacts
<1>2. /\ s[k] \in Nodes /\ s[g] \in Nodes /\ r.hook = s[1]
      /\ Ahead(s, n, g) = s[g] /\ After(s, n, g) = s[k] /\ r.prev[s[k]] = s[g]
      /\ RingLinks(r) /\ r.nodes = n
  <2>1. \A i \in 1 .. n : s[i] \in Nodes
    BY RingFacts
  <2> QED BY <1>1, <2>1 DEF RingStores, Circle, Ahead, After
<1> HIDE DEF g
<1> DEFINE r1 == Between(r, s[g], t, s[k])
<1>3. pth_ring_insert_before(r, s[k], t) = r1
  BY <1>2 DEF pth_ring_insert_before
<1>5. RingStores(r1, With(s, n, g, t), n + 1)
  BY <1>1, <1>2, LinkedInStores
<1> QED BY <1>3, <1>5 DEF g

LEMMA RingDeleteStores ==
    ASSUME NEW r, NEW s, NEW n, RingStores(r, s, n), NEW k \in 1 .. n
    PROVE  RingStores(pth_ring_delete(r, s[k]), Dropped(s, n, k), n - 1)
<1> DEFINE r1 == pth_ring_delete(r, s[k])
           w  == Dropped(s, n, k)
<1>1. /\ n \in Nat /\ n # 0 /\ 1 \in 1 .. n /\ n - 1 \in Nat
      /\ s \in [1 .. n -> Nodes] /\ OnceEach(s, n) /\ \A i \in 1 .. n : s[i] \in Nodes
      /\ RingLinks(r) /\ r.nodes = n /\ r.hook = s[1] /\ Circle(r.next, r.prev, s, n)
  BY RingFacts DEF RingStores
<1>2. w \in [1 .. n - 1 -> Nodes] /\ OnceEach(w, n - 1)
  BY <1>1, DroppedProps
<1>3. CASE n = 1
  <2>1. k = 1 /\ r.next[s[1]] = s[1] /\ r.prev[s[1]] = s[1]
    BY <1>1, <1>3 DEF Circle
  <2>2. r1 = [r EXCEPT !.hook = NoNode, !.nodes = @ - 1]
    BY <1>1, <2>1 DEF pth_ring_delete
  <2>3. /\ DOMAIN r1 = DOMAIN r /\ r1.hook = NoNode /\ r1.nodes = 0
        /\ r1.next = r.next /\ r1.prev = r.prev
    BY <1>1, <1>3, <2>2 DEF RingLinks
  <2>4. Circle(r1.next, r1.prev, w, 0)
    BY DEF Circle
  <2> HIDE DEF r1, w
  <2> QED BY <1>1, <1>2, <1>3, <2>3, <2>4 DEF RingStores, RingLinks, r1, w
<1>4. CASE n # 1
  <2> DEFINE nx == r.next
             pv == r.prev
             nx1 == r1.next
             pv1 == r1.prev
             h == IF k = 1 THEN s[2] ELSE s[1]
  <2>1. n >= 2 /\ 2 \in 1 .. n /\ (k # n => k + 1 \in 1 .. n) /\ (k # 1 => k - 1 \in 1 .. n)
    BY <1>1, <1>4
  <2>2. /\ nx[s[k]] = (IF k = n THEN s[1] ELSE s[k + 1])
        /\ pv[s[k]] = (IF k = 1 THEN s[n] ELSE s[k - 1])
    BY <1>1 DEF Circle
  <2>3. nx[s[k]] \in Nodes /\ pv[s[k]] \in Nodes /\ nx[s[k]] # s[k]
    <3>1. n \in 1 .. n
      BY <1>1
    <3>2. \A i \in 1 .. n : s[i] = s[k] => i = k
      BY <1>1 DEF OnceEach
    <3> QED BY <1>1, <2>1, <2>2, <3>1, <3>2
  <2>4. h = IF s[1] = s[k] THEN nx[s[k]] ELSE s[1]
    <3>1. s[1] = s[k] <=> k = 1
      BY <1>1 DEF OnceEach
    <3> QED BY <2>1, <2>2, <3>1
  <2> HIDE DEF h
  <2>5. r1 = [r EXCEPT !.hook = h, !.next[pv[s[k]]] = nx[s[k]],
                       !.prev[nx[s[k]]] = pv[s[k]], !.nodes = @ - 1]
    BY <1>1, <2>3, <2>4 DEF pth_ring_delete
  <2> HIDE DEF r1
  <2>6. /\ DOMAIN r1 = DOMAIN r /\ r1.hook = h /\ r1.nodes = n - 1
        /\ nx1 = [nx EXCEPT ![pv[s[k]]] = nx[s[k]]] /\ pv1 = [pv EXCEPT ![nx[s[k]]] = pv[s[k]]]
    BY <1>1, <2>5 DEF RingLinks
  <2>7. nx \in [Nodes -> Nodes \cup {NoNode}] /\ pv \in [Nodes -> Nodes \cup {NoNode}]
    BY <1>1 DEF RingLinks
  <2>8. /\ n \in Nat /\ n >= 2 /\ s \in [1 .. n -> Nodes] /\ OnceEach(s, n)
        /\ Circle(nx, pv, s, n) /\ Nodes \subseteq DOMAIN nx /\ Nodes \subseteq DOMAIN pv
        /\ k \in 1 .. n
    BY <1>1, <2>1, <2>7
  <2> HIDE DEF nx, pv, nx1, pv1
  <2>9. Circle(nx1, pv1, Dropped(s, n, k), n - 1)
    BY ONLY <2>6, <2>8, CircleShrinks
  <2>10. nx1 \in [Nodes -> Nodes \cup {NoNode}] /\ pv1 \in [Nodes -> Nodes \cup {NoNode}]
    BY <2>3, <2>6, <2>7
  <2>11. h = w[1]
    <3>1. 1 \in 1 .. n - 1 /\ Old(k, 1) = IF k = 1 THEN 2 ELSE 1
      BY <1>1, <2>1 DEF Old
    <3> QED BY <3>1 DEF Dropped, h
  <2> HIDE DEF w
  <2>12. RingLinks(r1)
    BY <1>1, <2>6, <2>10 DEF RingLinks, nx1, pv1
  <2>13. RingStores(r1, w, n - 1)
    <3>1. Circle(r1.next, r1.prev, w, n - 1)
      BY <2>9 DEF nx1, pv1, w
    <3>2. n - 1 # 0
      BY <1>1, <1>4
    <3> QED BY <1>1, <1>2, <2>6, <2>11, <2>12, <3>1, <3>2 DEF RingStores
  <2> QED BY <2>13 DEF r1, w
<1> QED BY <1>3, <1>4

LEMMA RingFavoriteStores ==
    ASSUME NEW r, NEW s, NEW n, RingStores(r, s, n), NEW k \in 1 .. n
    PROVE  RingStores(pth_ring_favorite(r, s[k]), With(Dropped(s, n, k), n - 1, 0, s[k]), n)
<1> DEFINE w == Dropped(s, n, k)
           d == pth_ring_delete(r, s[k])
<1>1. /\ n \in Nat /\ n # 0 /\ n - 1 \in Nat /\ 1 \in 1 .. n /\ (n - 1) + 1 = n
      /\ s \in [1 .. n -> Nodes] /\ OnceEach(s, n) /\ s[k] \in Nodes
      /\ r.hook = s[1] /\ r.hook # NoNode
  <2>1. n \in Nat /\ s \in [1 .. n -> Nodes] /\ OnceEach(s, n)
    BY RingFacts
  <2>2. n # 0 /\ 1 \in 1 .. n /\ n - 1 \in Nat /\ (n - 1) + 1 = n
    BY <2>1
  <2>3. s[k] \in Nodes /\ r.hook = s[1] /\ r.hook # NoNode
    BY <2>2, RingFacts
  <2> QED BY <2>1, <2>2, <2>3
<1>2. CASE k = 1
  <2>1. With(w, n - 1, 0, s[1]) = s
    <3>1. DOMAIN With(w, n - 1, 0, s[1]) = 1 .. n
      BY <1>1 DEF With
    <3>2. ASSUME NEW i \in 1 .. n PROVE With(w, n - 1, 0, s[1])[i] = s[i]
      <4>1. i # 1 => i - 1 \in 1 .. n - 1 /\ Old(1, i - 1) = i
        BY <1>1 DEF Old
      <4>2. i # 1 => w[i - 1] = s[i]
        BY <1>2, <4>1 DEF Dropped
      <4>3. With(w, n - 1, 0, s[1])[i] = IF i <= 0 THEN w[i] ELSE IF i = 0 + 1 THEN s[1] ELSE w[i - 1]
        BY <1>1 DEF With
      <4> QED BY <4>2, <4>3
    <3>3. With(w, n - 1, 0, s[1]) = [i \in 1 .. n |-> With(w, n - 1, 0, s[1])[i]]
      BY <1>1 DEF With
    <3>4. s = [i \in 1 .. n |-> s[i]]
      BY <1>1
    <3> HIDE DEF w
    <3> QED BY <3>2, <3>3, <3>4
  <2>2. pth_ring_favorite(r, s[1]) = r
    BY <1>1 DEF pth_ring_favorite
  <2> HIDE DEF w
  <2> QED BY <1>2, <2>1, <2>2 DEF w
<1>3. CASE k # 1
  <2>1. pth_ring_favorite(r, s[k]) = pth_ring_prepend(d, s[k])
    <3>1. s[1] # s[k]
      BY <1>1, <1>3 DEF OnceEach
    <3> QED BY <1>1, <3>1 DEF pth_ring_favorite
  <2>2. RingStores(d, w, n - 1)
    BY RingDeleteStores
  <2>3. \A i \in 1 .. n - 1 : w[i] # s[k]
    BY <1>1 DEF Dropped, Old, OnceEach
  <2> HIDE DEF d, w
  <2>4. RingStores(pth_ring_prepend(d, s[k]), With(w, n - 1, 0, s[k]), (n - 1) + 1)
    BY <1>1, <2>2, <2>3, PrependStores
  <2> QED BY <1>1, <2>1, <2>4 DEF w
<1> QED BY <1>2, <1>3

LEMMA IndexStep ==
    ASSUME NEW n \in Nat, n # 0, NEW m \in Nat
    PROVE  \E g \in [0 .. m -> 1 .. n] :
              g[0] = 1 /\ \A k \in 1 .. m : g[k] = IF g[k - 1] = n THEN 1 ELSE g[k - 1] + 1
<1> DEFINE Walk(g, j) == g[0] = 1 /\ \A k \in 1 .. j : g[k] = IF g[k - 1] = n THEN 1 ELSE g[k - 1] + 1
           S == {j \in Nat : \E g \in [0 .. j -> 1 .. n] : Walk(g, j)}
<1>1. 0 \in S
  <2> DEFINE g == [i \in 0 .. 0 |-> 1]
  <2>1. g \in [0 .. 0 -> 1 .. n] /\ Walk(g, 0)
    OBVIOUS
  <2> HIDE DEF g
  <2> QED BY <2>1
<1>2. ASSUME NEW j \in Nat, j \in S PROVE j + 1 \in S
  <2>1. PICK g \in [0 .. j -> 1 .. n] : Walk(g, j)
    BY <1>2
  <2> DEFINE x == IF g[j] = n THEN 1 ELSE g[j] + 1
             h == [i \in 0 .. j + 1 |-> IF i = j + 1 THEN x ELSE g[i]]
  <2>2. j \in 0 .. j /\ g[j] \in 1 .. n /\ x \in 1 .. n
    <3>1. j \in 0 .. j
      OBVIOUS
    <3>2. g[j] \in 1 .. n
      BY <3>1
    <3> QED BY <3>1, <3>2
  <2>3. h \in [0 .. j + 1 -> 1 .. n]
    <3> HIDE DEF x
    <3> QED BY <2>2
  <2>4. h[0] = g[0] /\ h[j + 1] = x /\ \A i \in 0 .. j : h[i] = g[i]
    BY <2>2
  <2> HIDE DEF h
  <2>5. Walk(h, j + 1)
    <3>1. h[0] = 1
      BY <2>1, <2>4
    <3>2. ASSUME NEW i \in 1 .. j + 1
          PROVE  h[i] = IF h[i - 1] = n THEN 1 ELSE h[i - 1] + 1
      <4>1. CASE i = j + 1
        <5>1. i - 1 = j /\ h[i - 1] = g[j]
          BY <2>2, <2>4, <4>1
        <5> QED BY <2>4, <4>1, <5>1
      <4>2. CASE i # j + 1
        <5>1. i \in 1 .. j /\ i \in 0 .. j /\ i - 1 \in 0 .. j
          BY <4>2
        <5>2. h[i] = g[i] /\ h[i - 1] = g[i - 1]
          BY <2>4, <5>1
        <5> QED BY <2>1, <5>1, <5>2
      <4> QED BY <4>1, <4>2
    <3> QED BY <3>1, <3>2
  <2> HIDE DEF Walk
  <2>6. \E f \in [0 .. j + 1 -> 1 .. n] : Walk(f, j + 1)
    BY <2>3, <2>5
  <2>7. j + 1 \in Nat
    OBVIOUS
  <2> QED BY <2>6, <2>7
<1> HIDE DEF S
<1>3. Nat \subseteq S
  BY <1>1, <1>2, Steps
<1> QED BY <1>3 DEF S

\* All nodes of a ring are passed on a walk as long as there are nodes.
LEMMA RingContains ==
    ASSUME NEW r, NEW s, NEW n, RingStores(r, s, n), NEW m \in Nodes
    PROVE  pth_ring_contains(r, m) <=> \E i \in 1 .. n : s[i] = m
<1> DEFINE N == Cardinality(Nodes)
           F(w) == [k \in 0 .. N |-> IF k = 0 THEN r.hook ELSE r.next[w[k - 1]]]
           c == CHOOSE w : w = F(w)
<1>1. n \in Nat /\ s \in [1 .. n -> Nodes] /\ OnceEach(s, n) /\ r.hook = IF n = 0 THEN NoNode ELSE s[1]
  BY RingFacts
<1>2. N \in Nat
  BY RingAssumption, FS_CardinalityType
<1>3. pth_ring_contains(r, m) <=> r.hook # NoNode /\ \E k \in DOMAIN c : c[k] = m
  BY DEF pth_ring_contains
<1>4. CASE n = 0
  BY <1>1, <1>3, <1>4
<1>5. CASE n # 0
  <2>1. PICK g \in [0 .. N -> 1 .. n] :
           g[0] = 1 /\ \A k \in 1 .. N : g[k] = IF g[k - 1] = n THEN 1 ELSE g[k - 1] + 1
    <3> HIDE DEF N
    <3> QED BY <1>1, <1>2, <1>5, IndexStep
  <2>2. \A i \in 1 .. n : r.next[s[i]] = s[IF i = n THEN 1 ELSE i + 1]
    BY DEF RingStores, Circle
  <2> DEFINE w == [k \in 0 .. N |-> s[g[k]]]
  <2> HIDE DEF N
  <2>3. w = F(w)
    <3>1. ASSUME NEW k \in 0 .. N PROVE w[k] = IF k = 0 THEN r.hook ELSE r.next[w[k - 1]]
      <4>1. CASE k = 0
        BY <1>1, <1>5, <2>1, <4>1
      <4>2. CASE k # 0
        <5>1. k \in 1 .. N /\ k - 1 \in 0 .. N
          BY <1>2, <4>2
        <5>2. g[k - 1] \in 1 .. n /\ w[k - 1] = s[g[k - 1]]
          BY <2>1, <5>1
        <5>3. w[k] = s[IF g[k - 1] = n THEN 1 ELSE g[k - 1] + 1]
          BY <2>1, <5>1
        <5> QED BY <2>2, <4>2, <5>2, <5>3
      <4> QED BY <4>1, <4>2
    <3>2. w = [k \in 0 .. N |-> w[k]]
      OBVIOUS
    <3> HIDE DEF w
    <3> QED BY <3>1, <3>2
  <2>4. c = F(c)
    <3> HIDE DEF F, w
    <3> QED BY <2>3
  <2> HIDE DEF c
  <2>5. DOMAIN c = 0 .. N /\ \A k \in 0 .. N : c[k] = IF k = 0 THEN r.hook ELSE r.next[c[k - 1]]
    BY <2>4
  <2>6. DOMAIN w = 0 .. N /\ \A k \in 0 .. N : w[k] = IF k = 0 THEN r.hook ELSE r.next[w[k - 1]]
    BY <2>3
  <2>7. \A k \in 0 .. N : w[k] = s[g[k]] /\ g[k] \in 1 .. n
    BY <2>1
  <2> HIDE DEF w, F
  <2> DEFINE A == {j \in Nat : j \in 0 .. N => c[j] = w[j]}
             B == {j \in Nat : j \in 0 .. N /\ j < n => g[j] = j + 1}
  <2>8. Nat \subseteq A
    <3>1. 0 \in A
      BY <2>5, <2>6
    <3>2. ASSUME NEW j \in Nat, j \in A PROVE j + 1 \in A
      <4>1. j + 1 \in 0 .. N => j \in 0 .. N /\ (j + 1) - 1 = j /\ j + 1 # 0
        BY <1>2
      <4> QED BY <2>5, <2>6, <3>2, <4>1
    <3> HIDE DEF A
    <3> QED BY <3>1, <3>2, Steps
  <2>9. Nat \subseteq B
    <3>1. 0 \in B
      BY <2>1
    <3>2. ASSUME NEW j \in Nat, j \in B PROVE j + 1 \in B
      <4>1. j + 1 \in 0 .. N /\ j + 1 < n => j \in 0 .. N /\ (j + 1) - 1 = j /\ j + 1 \in 1 .. N /\ j < n /\ j + 1 # n
        BY <1>1, <1>2
      <4> QED BY <2>1, <3>2, <4>1
    <3> HIDE DEF B
    <3> QED BY <3>1, <3>2, Steps
  <2>10. n <= N
    <3>1. IsFiniteSet(1 .. n) /\ Cardinality(1 .. n) = n
      <4>1. 1 \in Int /\ n \in Int /\ ~(1 > n) /\ n - 1 + 1 = n
        BY <1>1, <1>5
      <4> QED BY <4>1, FS_Interval
    <3>2. ~(Cardinality(Nodes) < Cardinality(1 .. n))
      <4> SUFFICES ASSUME Cardinality(Nodes) < Cardinality(1 .. n) PROVE FALSE
        OBVIOUS
      <4>1. \E x, y \in 1 .. n : x # y /\ s[x] = s[y]
        BY <1>1, <3>1, RingAssumption, FS_PigeonHole
      <4> QED BY <1>1, <4>1 DEF OnceEach
    <3> QED BY <1>1, <1>2, <3>1, <3>2 DEF N
  <2>11. ASSUME NEW i \in 1 .. n PROVE i - 1 \in 0 .. N /\ c[i - 1] = s[i]
    <3>1. i - 1 \in 0 .. N /\ i - 1 \in Nat /\ i - 1 < n /\ (i - 1) + 1 = i
      BY <1>1, <1>2, <2>10
    <3>2. g[i - 1] = i /\ c[i - 1] = w[i - 1]
      BY <2>8, <2>9, <3>1
    <3> QED BY <2>7, <3>1, <3>2
  <2>12. \A k \in 0 .. N : \E i \in 1 .. n : c[k] = s[i]
    BY <1>2, <2>7, <2>8
  <2>13. r.hook # NoNode
    BY <1>5, RingFacts
  <2> HIDE DEF A, B
  <2>14. (\E k \in 0 .. N : c[k] = m) <=> \E i \in 1 .. n : s[i] = m
    BY <2>11, <2>12
  <2> QED BY <1>3, <2>5, <2>13, <2>14
<1> QED BY <1>4, <1>5

-----------------------------------------------------------------------------
(*                  The caller's sequence of the nodes                     *)

LEMMA SequenceIs ==
    ASSUME NEW S, NEW a \in Seq(S), NEW m \in Nat, Len(a) = m,
           NEW f, f = [i \in 1 .. m |-> f[i]], \A i \in 1 .. m : a[i] = f[i]
    PROVE  a = f
<1>1. DOMAIN a = 1 .. m /\ a = [i \in 1 .. m |-> a[i]]
  BY LenProperties
<1> QED BY <1>1

\* Each of the ways to insert into a sequence.
LEMMA InsertedIsWith ==
    ASSUME NEW S, NEW s \in Seq(S), NEW t \in S
    PROVE  /\ \A k \in 0 .. Len(s) : /\ InsertAt(s, k + 1, t) \in Seq(S)
                                     /\ Len(InsertAt(s, k + 1, t)) = Len(s) + 1
                                     /\ InsertAt(s, k + 1, t) = With(s, Len(s), k, t)
           /\ Append(s, t) \in Seq(S) /\ Len(Append(s, t)) = Len(s) + 1
           /\ Append(s, t) = With(s, Len(s), Len(s), t)
           /\ <<t>> \o s \in Seq(S) /\ Len(<<t>> \o s) = Len(s) + 1
           /\ <<t>> \o s = With(s, Len(s), 0, t)
<1> DEFINE n == Len(s)
<1>1. n \in Nat /\ n + 1 \in Nat
  BY LenProperties
<1>2. ASSUME NEW k \in 0 .. n
      PROVE  With(s, n, k, t) = [i \in 1 .. n + 1 |-> With(s, n, k, t)[i]]
  BY DEF With
<1>3. ASSUME NEW k \in 0 .. n
      PROVE  /\ InsertAt(s, k + 1, t) \in Seq(S)
             /\ Len(InsertAt(s, k + 1, t)) = n + 1
             /\ InsertAt(s, k + 1, t) = With(s, n, k, t)
  <2> DEFINE j == k + 1
             a == InsertAt(s, j, t)
             w == With(s, n, k, t)
  <2>1. j \in 1 .. Len(s) + 1 /\ j - 1 = k
    BY <1>1
  <2>2. /\ a \in Seq(S) /\ Len(a) = n + 1
        /\ \A i \in 1 .. k : a[i] = s[i]
        /\ a[j] = t
        /\ \A i \in j + 1 .. n + 1 : a[i] = s[i - 1]
    <3>1. s \in Seq(S) /\ t \in S
      OBVIOUS
    <3> HIDE DEF j, a
    <3>2. /\ a \in Seq(S) /\ Len(a) = Len(s) + 1
          /\ \A i \in 1 .. j - 1 : a[i] = s[i]
          /\ a[j] = t
          /\ \A i \in j + 1 .. Len(s) + 1 : a[i] = s[i - 1]
      BY ONLY <2>1, <3>1, InsertAtElements DEF a
    <3> QED BY <2>1, <3>2
  <2> HIDE DEF a
  <2>3. \A i \in 1 .. n + 1 : a[i] = w[i]
    BY <1>1, <2>2 DEF With
  <2>4. w = [i \in 1 .. n + 1 |-> w[i]]
    BY <1>2
  <2> HIDE DEF w
  <2>5. a = w
    BY <1>1, <2>2, <2>3, <2>4, SequenceIs
  <2> QED BY <2>2, <2>5 DEF a, w
<1>4. /\ Append(s, t) \in Seq(S) /\ Len(Append(s, t)) = n + 1
      /\ Append(s, t) = With(s, n, n, t)
  <2> DEFINE a == Append(s, t)
             w == With(s, n, n, t)
  <2>1. a \in Seq(S) /\ Len(a) = n + 1 /\ (\A i \in 1 .. n : a[i] = s[i]) /\ a[n + 1] = t
    BY AppendProperties
  <2> HIDE DEF a
  <2>2. \A i \in 1 .. n + 1 : a[i] = w[i]
    BY <1>1, <2>1 DEF With
  <2>3. w = [i \in 1 .. n + 1 |-> w[i]]
    BY <1>1, <1>2
  <2> HIDE DEF w
  <2>4. a = w
    BY <1>1, <2>1, <2>2, <2>3, SequenceIs
  <2> QED BY <2>1, <2>4 DEF a, w
<1>5. /\ <<t>> \o s \in Seq(S) /\ Len(<<t>> \o s) = n + 1
      /\ <<t>> \o s = With(s, n, 0, t)
  <2> DEFINE a == <<t>> \o s
             w == With(s, n, 0, t)
  <2>1. <<t>> \in Seq(S) /\ Len(<<t>>) = 1 /\ <<t>>[1] = t
    OBVIOUS
  <2>2. /\ a \in Seq(S) /\ Len(a) = 1 + n
        /\ \A i \in 1 .. 1 + n : a[i] = IF i <= 1 THEN <<t>>[i] ELSE s[i - 1]
    BY <2>1, ConcatProperties
  <2> HIDE DEF a
  <2>3. \A i \in 1 .. n + 1 : a[i] = w[i]
    <3>1. \A i \in 1 .. n + 1 : i \in 1 .. 1 + n /\ (i <= 1 => i = 1)
      BY <1>1
    <3>2. \A i \in 1 .. n + 1 : a[i] = IF i <= 1 THEN t ELSE s[i - 1]
      BY <2>1, <2>2, <3>1
    <3> QED BY <1>1, <3>2 DEF With
  <2>4. w = [i \in 1 .. n + 1 |-> w[i]]
    BY <1>1, <1>2
  <2> HIDE DEF w
  <2>5. 1 + n = n + 1
    BY <1>1
  <2>6. a = w
    BY <1>1, <2>2, <2>3, <2>4, <2>5, SequenceIs
  <2> QED BY <2>2, <2>5, <2>6 DEF a, w
<1> QED BY <1>3, <1>4, <1>5

\* Each of the ways to take an element out of one.
LEMMA RemovedIsDropped ==
    ASSUME NEW S, NEW s \in Seq(S), NEW k \in 1 .. Len(s)
    PROVE  /\ RemoveAt(s, k) \in Seq(S) /\ Len(RemoveAt(s, k)) = Len(s) - 1
           /\ RemoveAt(s, k) = Dropped(s, Len(s), k)
           /\ Tail(s) \in Seq(S) /\ Len(Tail(s)) = Len(s) - 1 /\ Tail(s) = Dropped(s, Len(s), 1)
           /\ Front(s) \in Seq(S) /\ Len(Front(s)) = Len(s) - 1 /\ Front(s) = Dropped(s, Len(s), Len(s))
<1> DEFINE n == Len(s)
<1>1. n \in Nat /\ n # 0 /\ n - 1 \in Nat /\ \A i \in 1 .. n : s[i] \in S
  BY LenProperties, ElementOfSeq
<1>2. \A j : Dropped(s, n, j) = [i \in 1 .. n - 1 |-> Dropped(s, n, j)[i]]
  BY DEF Dropped
<1>3. ASSUME NEW a \in Seq(S), Len(a) = n - 1, NEW j, \A i \in 1 .. n - 1 : a[i] = s[Old(j, i)]
      PROVE  a = Dropped(s, n, j)
  <2> DEFINE w == Dropped(s, n, j)
  <2>1. \A i \in 1 .. n - 1 : a[i] = w[i]
    BY <1>3 DEF Dropped
  <2>2. w = [i \in 1 .. n - 1 |-> w[i]]
    BY <1>2
  <2> HIDE DEF w
  <2>3. a = w
    BY <1>1, <1>3, <2>1, <2>2, SequenceIs
  <2> QED BY <2>3 DEF w
<1>4. /\ RemoveAt(s, k) \in Seq(S) /\ Len(RemoveAt(s, k)) = n - 1
      /\ RemoveAt(s, k) = Dropped(s, n, k)
  <2> DEFINE a == RemoveAt(s, k)
  <2>1. /\ a \in Seq(S) /\ Len(a) = n - 1
        /\ \A i \in 1 .. k - 1 : a[i] = s[i]
        /\ \A i \in k .. n - 1 : a[i] = s[i + 1]
    BY RemoveAtElements
  <2> HIDE DEF a
  <2>2. \A i \in 1 .. n - 1 : a[i] = s[Old(k, i)]
    BY <1>1, <2>1 DEF Old
  <2> QED BY <1>3, <2>1, <2>2 DEF a
<1>5. Tail(s) \in Seq(S) /\ Len(Tail(s)) = n - 1 /\ Tail(s) = Dropped(s, n, 1)
  <2> DEFINE a == Tail(s)
  <2>1. s # <<>>
    BY <1>1
  <2>2. a \in Seq(S) /\ Len(a) = n - 1 /\ \A i \in 1 .. n - 1 : a[i] = s[i + 1]
    BY <2>1, HeadTailProperties
  <2> HIDE DEF a
  <2>3. \A i \in 1 .. n - 1 : a[i] = s[Old(1, i)]
    BY <1>1, <2>2 DEF Old
  <2> QED BY <1>3, <2>2, <2>3 DEF a
<1>6. Front(s) \in Seq(S) /\ Len(Front(s)) = n - 1 /\ Front(s) = Dropped(s, n, n)
  <2> DEFINE a == Front(s)
  <2>1. a = SubSeq(s, 1, n - 1) /\ 1 \in Int /\ n - 1 \in Int /\ \A i \in 1 .. n - 1 : s[i] \in S
    BY <1>1 DEF Front
  <2> HIDE DEF a
  <2>2. /\ a \in Seq(S) /\ Len(a) = (IF 1 <= n - 1 THEN (n - 1) - 1 + 1 ELSE 0)
        /\ \A i \in 1 .. (n - 1) - 1 + 1 : a[i] = s[1 + i - 1]
    BY <2>1, SubSeqProperties
  <2>3. Len(a) = n - 1
    <3> HIDE DEF n
    <3>1. (IF 1 <= n - 1 THEN (n - 1) - 1 + 1 ELSE 0) = n - 1
      BY <1>1
    <3> QED BY <2>2, <3>1
  <2>4. \A i \in 1 .. n - 1 : a[i] = s[Old(n, i)]
    <3>1. ASSUME NEW i \in 1 .. n - 1 PROVE a[i] = s[Old(n, i)]
      <4>1. i \in 1 .. (n - 1) - 1 + 1 /\ 1 + i - 1 = i /\ Old(n, i) = i
        BY <1>1 DEF Old
      <4> QED BY <2>2, <4>1
    <3> QED BY <3>1
  <2> QED BY <1>3, <2>2, <2>3, <2>4 DEF a
<1> QED BY <1>4, <1>5, <1>6

-----------------------------------------------------------------------------
(*                             The invariant                               *)

RingInv ==
    /\ order \in Seq(Nodes)
    /\ RingStores(ring, order, Len(order))
    /\ taken.node = taken.expected

LEMMA RingInitOK == RingInit => RingInv
<1> SUFFICES ASSUME RingInit PROVE RingInv
  OBVIOUS
<1>1. ring = pth_ring_init /\ order = <<>> /\ taken = Nothing
  BY DEF RingInit
<1>2. order \in Seq(Nodes) /\ Len(order) = 0 /\ order \in [1 .. 0 -> Nodes]
  BY <1>1
<1>3. RingLinks(ring) /\ ring.nodes = 0 /\ ring.hook = NoNode
  BY <1>1 DEF pth_ring_init, RingLinks
<1>4. OnceEach(order, 0) /\ Circle(ring.next, ring.prev, order, 0)
  BY DEF OnceEach, Circle
<1> QED BY <1>1, <1>2, <1>3, <1>4 DEF RingInv, RingStores, Nothing

LEMMA OrderFacts ==
    ASSUME RingInv
    PROVE  /\ Len(order) \in Nat /\ DOMAIN order = 1 .. Len(order)
           /\ order \in [1 .. Len(order) -> Nodes]
           /\ OnceEach(order, Len(order))
           /\ \A a : In(a) <=> \E i \in 1 .. Len(order) : order[i] = a
           /\ \A a : In(a) => IndexOf(a) \in 1 .. Len(order) /\ order[IndexOf(a)] = a
<1>1. Len(order) \in Nat /\ DOMAIN order = 1 .. Len(order)
  BY LenProperties DEF RingInv
<1>2. order \in [1 .. Len(order) -> Nodes] /\ OnceEach(order, Len(order))
  BY DEF RingInv, RingStores
<1>3. \A a : In(a) <=> \E i \in 1 .. Len(order) : order[i] = a
  BY <1>1 DEF In, ToSet
<1>4. \A a : In(a) => IndexOf(a) \in 1 .. Len(order) /\ order[IndexOf(a)] = a
  BY <1>1, <1>3 DEF IndexOf
<1> QED BY <1>1, <1>2, <1>3, <1>4

\* A node more.
LEMMA RingGrows ==
    ASSUME RingInv, NEW t \in Nodes, ~In(t), NEW r, NEW w, Changed(r, w),
           w \in Seq(Nodes), Len(w) = Len(order) + 1,
           (\A i \in 1 .. Len(order) : order[i] # t) => RingStores(r, w, Len(order) + 1)
    PROVE  RingInv'
<1>1. \A i \in 1 .. Len(order) : order[i] # t
  BY OrderFacts
<1>2. ring' = r /\ order' = w /\ taken' = Nothing
  BY DEF Changed
<1> QED BY <1>1, <1>2 DEF RingInv, Nothing

LEMMA RingNextOK == RingInv /\ [RingNext]_ringVars => RingInv'
<1> SUFFICES ASSUME RingInv, [RingNext]_ringVars PROVE RingInv'
  OBVIOUS
<1> DEFINE n == Len(order)
<1>1. /\ n \in Nat /\ n \in 0 .. n /\ 0 \in 0 .. n
      /\ order \in Seq(Nodes) /\ RingStores(ring, order, n) /\ taken.node = taken.expected
      /\ ring.hook = IF n = 0 THEN NoNode ELSE order[1]
  <2>1. order \in Seq(Nodes) /\ RingStores(ring, order, n) /\ taken.node = taken.expected
    BY DEF RingInv
  <2> QED BY <2>1, RingFacts
<1>2. ASSUME NEW t \in Nodes, RingAppend(t) PROVE RingInv'
  <2>1. /\ Append(order, t) \in Seq(Nodes) /\ Len(Append(order, t)) = n + 1
        /\ Append(order, t) = With(order, n, n, t)
    BY <1>1, InsertedIsWith
  <2> QED BY <1>1, <1>2, <2>1, AppendStores, RingGrows DEF RingAppend
<1>3. ASSUME NEW t \in Nodes, RingPrepend(t) PROVE RingInv'
  <2>1. /\ <<t>> \o order \in Seq(Nodes) /\ Len(<<t>> \o order) = n + 1
        /\ <<t>> \o order = With(order, n, 0, t)
    BY <1>1, InsertedIsWith
  <2> QED BY <1>1, <1>3, <2>1, PrependStores, RingGrows DEF RingPrepend
<1>4. ASSUME NEW t \in Nodes, NEW a \in Nodes, RingInsertAfter(a, t) PROVE RingInv'
  <2> DEFINE k == IndexOf(a)
             w == InsertAt(order, k + 1, t)
  <2>1. In(a) /\ ~In(t) /\ Changed(pth_ring_insert_after(ring, a, t), w)
    BY <1>4 DEF RingInsertAfter
  <2>2. k \in 1 .. n /\ order[k] = a /\ k \in 0 .. n
    BY <2>1, OrderFacts
  <2> HIDE DEF k
  <2>3. w \in Seq(Nodes) /\ Len(w) = n + 1 /\ w = With(order, n, k, t)
    <3>1. order \in Seq(Nodes) /\ t \in Nodes /\ k \in 0 .. Len(order)
      BY <1>1, <2>2
    <3> QED BY ONLY <3>1, InsertedIsWith
  <2> HIDE DEF w
  <2> QED BY <1>1, <2>1, <2>2, <2>3, InsertAfterStores, RingGrows
<1>5. ASSUME NEW t \in Nodes, NEW b \in Nodes, RingInsertBefore(b, t) PROVE RingInv'
  <2> DEFINE k == IndexOf(b)
             g == IF k = 1 THEN n ELSE k - 1
             w == IF k = 1 THEN Append(order, t) ELSE InsertAt(order, k, t)
  <2>1. In(b) /\ ~In(t) /\ Changed(pth_ring_insert_before(ring, b, t), w)
    BY <1>5 DEF RingInsertBefore
  <2>2. k \in 1 .. n /\ order[k] = b
    BY <2>1, OrderFacts
  <2> HIDE DEF k
  <2>3. w \in Seq(Nodes) /\ Len(w) = n + 1 /\ w = With(order, n, g, t)
    <3>1. CASE k = 1
      BY <1>1, <3>1, InsertedIsWith
    <3>2. CASE k # 1
      <4>1. k - 1 \in 0 .. n /\ (k - 1) + 1 = k
        BY <2>2, <3>2
      <4>2. /\ InsertAt(order, (k - 1) + 1, t) \in Seq(Nodes)
            /\ Len(InsertAt(order, (k - 1) + 1, t)) = n + 1
            /\ InsertAt(order, (k - 1) + 1, t) = With(order, n, k - 1, t)
        BY <1>1, <4>1, InsertedIsWith
      <4> QED BY <3>2, <4>1, <4>2
    <3> QED BY <3>1, <3>2
  <2> HIDE DEF w
  <2> QED BY <1>1, <2>1, <2>2, <2>3, InsertBeforeStores, RingGrows
<1>6. ASSUME NEW t \in Nodes, RingDelete(t) PROVE RingInv'
  <2> DEFINE k == IndexOf(t)
             w == Rest(t)
  <2>1. In(t) /\ Changed(pth_ring_delete(ring, t), w)
    BY <1>6 DEF RingDelete
  <2>2. k \in 1 .. n /\ order[k] = t
    BY <2>1, OrderFacts
  <2>3. w = RemoveAt(order, k)
    BY DEF Rest
  <2> HIDE DEF k, w
  <2>4. w \in Seq(Nodes) /\ Len(w) = n - 1 /\ w = Dropped(order, n, k)
    BY <1>1, <2>2, <2>3, RemovedIsDropped
  <2>5. RingStores(pth_ring_delete(ring, t), w, n - 1)
    BY <1>1, <2>2, <2>4, RingDeleteStores
  <2> QED BY <2>1, <2>4, <2>5 DEF RingInv, Changed, Nothing
<1>7. ASSUME NEW t \in Nodes, RingFavorite(t) PROVE RingInv'
  <2> DEFINE k == IndexOf(t)
             d == Rest(t)
             w == <<t>> \o d
  <2>1. In(t) /\ Changed(pth_ring_favorite(ring, t), w)
    BY <1>7 DEF RingFavorite
  <2>2. k \in 1 .. n /\ order[k] = t
    BY <2>1, OrderFacts
  <2>3. d = RemoveAt(order, k)
    BY DEF Rest
  <2> HIDE DEF k, d
  <2>4. d \in Seq(Nodes) /\ Len(d) = n - 1 /\ d = Dropped(order, n, k)
    BY <1>1, <2>2, <2>3, RemovedIsDropped
  <2>5. (n - 1) + 1 = n
    BY <1>1
  <2>6. w \in Seq(Nodes) /\ Len(w) = n /\ w = With(d, n - 1, 0, t)
    BY <2>4, <2>5, InsertedIsWith
  <2> HIDE DEF w
  <2>7. RingStores(pth_ring_favorite(ring, t), w, n)
    BY <1>1, <2>2, <2>4, <2>6, RingFavoriteStores
  <2> QED BY <2>1, <2>6, <2>7 DEF RingInv, Changed, Nothing
<1>8. ASSUME RingPop PROVE RingInv'
  <2>1. CASE n = 0
    <3>1. order = <<>> /\ ring.hook = NoNode
      BY <1>1, <2>1
    <3>2. ring' = ring /\ order' = order /\ taken'.node = NoNode /\ taken'.expected = NoNode
      BY <1>8, <3>1 DEF RingPop, pth_ring_pop, pth_ring_first, Removed
    <3> QED BY <1>1, <3>2 DEF RingInv
  <2>2. CASE n # 0
    <3>1. 1 \in 1 .. n /\ order # <<>> /\ Head(order) = order[1] /\ ring.hook = order[1]
      BY <1>1, <2>2
    <3>2. order[1] # NoNode
      BY <1>1, <3>1, RingFacts
    <3>3. /\ ring' = pth_ring_delete(ring, order[1]) /\ order' = Tail(order)
          /\ taken'.node = order[1] /\ taken'.expected = order[1]
      BY <1>8, <3>1, <3>2 DEF RingPop, pth_ring_pop, pth_ring_first, Removed
    <3>4. Tail(order) \in Seq(Nodes) /\ Len(Tail(order)) = n - 1 /\ Tail(order) = Dropped(order, n, 1)
      BY <1>1, <3>1, RemovedIsDropped
    <3>5. RingStores(pth_ring_delete(ring, order[1]), Tail(order), n - 1)
      BY <1>1, <3>1, <3>4, RingDeleteStores
    <3> QED BY <3>3, <3>4, <3>5 DEF RingInv
  <2> QED BY <2>1, <2>2
<1>9. ASSUME RingDequeue PROVE RingInv'
  <2>1. CASE n = 0
    <3>1. order = <<>> /\ ring.hook = NoNode
      BY <1>1, <2>1
    <3>2. ring' = ring /\ order' = order /\ taken'.node = NoNode /\ taken'.expected = NoNode
      BY <1>9, <3>1 DEF RingDequeue, pth_ring_dequeue, pth_ring_last, Removed
    <3> QED BY <1>1, <3>2 DEF RingInv
  <2>2. CASE n # 0
    <3>1. 1 \in 1 .. n /\ n \in 1 .. n /\ order # <<>> /\ Last(order) = order[n] /\ ring.hook = order[1]
      BY <1>1, <2>2 DEF Last
    <3>2. order[n] # NoNode /\ ring.hook # NoNode
      BY <1>1, <3>1, RingFacts
    <3>3. ring.prev[order[1]] = order[n]
      BY <1>1, <3>1 DEF RingStores, Circle
    <3>4. pth_ring_last(ring) = order[n]
      BY <3>1, <3>2, <3>3 DEF pth_ring_last
    <3>5. /\ ring' = pth_ring_delete(ring, order[n]) /\ order' = Front(order)
          /\ taken'.node = order[n] /\ taken'.expected = order[n]
      BY <1>9, <3>1, <3>2, <3>4 DEF RingDequeue, pth_ring_dequeue, Removed
    <3>6. Front(order) \in Seq(Nodes) /\ Len(Front(order)) = n - 1 /\ Front(order) = Dropped(order, n, n)
      BY <1>1, <3>1, RemovedIsDropped
    <3>7. RingStores(pth_ring_delete(ring, order[n]), Front(order), n - 1)
      BY <1>1, <3>1, <3>6, RingDeleteStores
    <3> QED BY <3>5, <3>6, <3>7 DEF RingInv
  <2> QED BY <2>1, <2>2
<1>10. CASE UNCHANGED ringVars
  BY <1>10 DEF ringVars, RingInv
<1> QED BY <1>2, <1>3, <1>4, <1>5, <1>6, <1>7, <1>8, <1>9, <1>10 DEF RingNext

LEMMA RingInvReads == RingInv => RingIsSequence
<1> SUFFICES ASSUME RingInv PROVE RingIsSequence
  OBVIOUS
<1> DEFINE n == Len(order)
           Expected(i) == IF i \in 1 .. n THEN order[i] ELSE NoNode
<1>1. RingStores(ring, order, n) /\ n \in Nat /\ OnceEach(order, n) /\ taken.node = taken.expected
      /\ ring.nodes = n /\ ring.hook = IF n = 0 THEN NoNode ELSE order[1]
  <2>1. RingStores(ring, order, n) /\ taken.node = taken.expected
    BY DEF RingInv
  <2> QED BY <2>1, RingFacts
<1>2. \A i \in 1 .. n : /\ ring.next[order[i]] = (IF i = n THEN order[1] ELSE order[i + 1])
                        /\ ring.prev[order[i]] = (IF i = 1 THEN order[n] ELSE order[i - 1])
                        /\ order[i] # NoNode
  <2>1. \A i \in 1 .. n : order[i] # NoNode
    BY <1>1, RingFacts
  <2>2. Circle(ring.next, ring.prev, order, n)
    BY <1>1 DEF RingStores
  <2> QED BY <2>1, <2>2 DEF Circle
<1>3. pth_ring_first(ring) = Expected(1)
  BY <1>1 DEF pth_ring_first
<1>4. pth_ring_last(ring) = Expected(n)
  <2>1. n # 0 => n \in 1 .. n /\ 1 \in 1 .. n
    BY <1>1
  <2> QED BY <1>1, <1>2, <2>1 DEF pth_ring_last
<1>5. ASSUME NEW i \in 1 .. n PROVE pth_ring_next(ring, order[i]) = Expected(i + 1)
  <2>1. 1 \in 1 .. n /\ n # 0 /\ (i # n => i + 1 \in 1 .. n /\ i + 1 # 1) /\ (i = n => i + 1 \notin 1 .. n)
    BY <1>1
  <2>2. i # n => order[i + 1] # order[1]
    BY <1>1, <2>1 DEF OnceEach
  <2> QED BY <1>1, <1>2, <2>1, <2>2 DEF pth_ring_next
<1>6. ASSUME NEW i \in 1 .. n PROVE pth_ring_prev(ring, order[i]) = Expected(i - 1)
  <2>1. 1 \in 1 .. n /\ n \in 1 .. n /\ n # 0 /\ (i # 1 => i - 1 \in 1 .. n /\ i - 1 # n) /\ (i = 1 => i - 1 \notin 1 .. n)
    BY <1>1
  <2>2. i # 1 => order[i - 1] # order[n]
    BY <1>1, <2>1 DEF OnceEach
  <2> QED BY <1>1, <1>2, <2>1, <2>2 DEF pth_ring_prev
<1>7. ASSUME NEW m \in Nodes PROVE pth_ring_contains(ring, m) <=> In(m)
  <2>1. pth_ring_contains(ring, m) <=> \E i \in 1 .. n : order[i] = m
    BY <1>1, RingContains
  <2> QED BY <2>1, OrderFacts
<1> HIDE DEF Expected
<1> QED BY <1>1, <1>3, <1>4, <1>5, <1>6, <1>7 DEF RingIsSequence, Expected

(* The ring of pth_ring.c is the sequence of its nodes, for any set of      *)
(* nodes and whichever of its operations are mixed.                         *)
THEOREM RingIsASequence == RingSpec => []RingIsSequence
BY RingInitOK, RingNextOK, RingInvReads, PTL DEF RingSpec

-----------------------------------------------------------------------------
(* CoSched: every scheduler starts the coroutines it is given once and in  *)
(* the order of their creation.                                            *)
(*                                                                         *)
(* An event that is handled is put behind the others, as all have one      *)
(* priority, unless its coroutine is ready already.  It never is, as a     *)
(* scheduler is not given a coroutine twice: what is allocated is new, and *)
(* there is one left for every call under way.                             *)

(*                    Elements that move along sequences                   *)

LEMMA HeadThenTail ==
    ASSUME NEW S, NEW rq \in Seq(S), rq # <<>>
    PROVE  Head(rq) \in S /\ Tail(rq) \in Seq(S) /\ <<Head(rq)>> \o Tail(rq) = rq
<1> DEFINE h == <<Head(rq)>>
           n == Len(rq)
<1>1. Head(rq) = rq[1] /\ Head(rq) \in S /\ Tail(rq) \in Seq(S) /\ Len(Tail(rq)) = n - 1
      /\ \A i \in 1 .. n - 1 : Tail(rq)[i] = rq[i+1]
  BY HeadTailProperties
<1>2. n \in Nat /\ n # 0
  BY LenProperties, EmptySeq
<1>3. h \in Seq(S) /\ Len(h) = 1 /\ h[1] = rq[1]
  BY <1>1
<1> DEFINE r == Tail(rq)
           c == h \o r
<1> HIDE DEF h, r
<1>4. r \in Seq(S) /\ Len(h) + Len(r) = n /\ \A i \in 1 .. n - 1 : r[i] = rq[i+1]
  BY <1>1, <1>2, <1>3 DEF r
<1>5. /\ c \in Seq(S) /\ Len(c) = n
      /\ \A i \in 1 .. n : c[i] = IF i <= 1 THEN h[i] ELSE r[i-1]
  <2>1. /\ c \in Seq(S) /\ Len(c) = Len(h) + Len(r)
        /\ \A i \in 1 .. Len(h) + Len(r) : c[i] = IF i <= Len(h) THEN h[i] ELSE r[i-Len(h)]
    <3>1. h \in Seq(S) /\ r \in Seq(S)
      BY <1>3, <1>4
    <3> QED BY <3>1, ConcatProperties
  <2> HIDE DEF c, n
  <2> QED BY <1>3, <1>4, <2>1
<1> HIDE DEF c
<1>6. ASSUME NEW i \in 1 .. n PROVE c[i] = rq[i]
  <2>1. CASE i = 1
    BY <1>3, <1>5, <2>1
  <2>2. CASE i # 1
    <3>1. i - 1 \in 1 .. n - 1
      BY <1>2, <2>2
    <3>2. c[i] = r[i-1] /\ r[i-1] = rq[(i-1)+1]
      BY <1>4, <1>5, <2>2, <3>1
    <3> QED BY <3>2
  <2> QED BY <2>1, <2>2
<1>7. c = rq
  BY <1>5, <1>6, SeqEqual
<1> QED BY <1>1, <1>7 DEF c, h, r

\* The first element of b moves to the end of a.
LEMMA MoveToEnd ==
    ASSUME NEW S, NEW a \in Seq(S), NEW b \in Seq(S), b # <<>>
    PROVE  Append(a, Head(b)) \o Tail(b) = a \o b
<1>1. Head(b) \in S /\ Tail(b) \in Seq(S) /\ <<Head(b)>> \o Tail(b) = b
  BY HeadThenTail
<1>2. Append(a, Head(b)) = a \o <<Head(b)>>
  BY <1>1, AppendIsConcat
<1>3. <<Head(b)>> \in Seq(S)
  BY <1>1
<1>4. (a \o <<Head(b)>>) \o Tail(b) = a \o (<<Head(b)>> \o Tail(b))
  BY <1>1, <1>3, ConcatAssociative
<1> QED BY <1>1, <1>2, <1>4

LEMMA AppendToLast ==
    ASSUME NEW S, NEW a \in Seq(S), NEW b \in Seq(S), NEW x \in S
    PROVE  a \o Append(b, x) = Append(a \o b, x)
<1>1. <<x>> \in Seq(S) /\ a \o b \in Seq(S)
  BY ConcatProperties
<1>2. Append(b, x) = b \o <<x>> /\ Append(a \o b, x) = (a \o b) \o <<x>>
  BY <1>1, AppendIsConcat
<1> QED BY <1>1, <1>2, ConcatAssociative

\* Where the elements of two sequences are in their concatenation.
LEMMA ConcatParts ==
    ASSUME NEW S, NEW a \in Seq(S), NEW b \in Seq(S), NEW i \in 1 .. Len(a), NEW j \in 1 .. Len(b)
    PROVE  /\ a \o b \in Seq(S) /\ Len(a \o b) = Len(a) + Len(b)
           /\ (a \o b)[i] = a[i] /\ (a \o b)[Len(a) + j] = b[j]
<1>1. Len(a) \in Nat /\ Len(b) \in Nat
  BY LenProperties
<1>2. /\ i \in 1 .. Len(a) + Len(b) /\ i <= Len(a)
      /\ Len(a) + j \in 1 .. Len(a) + Len(b) /\ ~(Len(a) + j <= Len(a))
      /\ (Len(a) + j) - Len(a) = j
  BY <1>1
<1> QED BY <1>2, ConcatProperties

-----------------------------------------------------------------------------
(*                 A queue in which all have one priority                  *)

Ready1 == [th : Coroutines, pr : {CO_PRIO_STD + 1}]
ThreadsOf(rq) == [i \in DOMAIN rq |-> rq[i].th]

LEMMA InsertIsAppend ==
    ASSUME NEW rq \in Seq(Ready1), NEW t \in Coroutines
    PROVE  Insert(rq, CO_PRIO_STD + 1, t) = Append(rq, [th |-> t, pr |-> CO_PRIO_STD + 1])
<1> DEFINE e == [th |-> t, pr |-> CO_PRIO_STD + 1]
           n == Len(rq)
<1>1. n \in Nat /\ DOMAIN rq = 1 .. n /\ \A i \in 1 .. n : rq[i].pr = CO_PRIO_STD + 1
  <2>1. \A i \in 1 .. n : rq[i] \in Ready1
    BY ElementOfSeq
  <2> QED BY <2>1, LenProperties DEF Ready1
<1> DEFINE ahead == {i \in DOMAIN rq : rq[i].pr >= CO_PRIO_STD + 1}
<1>2. ahead = 1 .. n
  BY <1>1 DEF CO_PRIO_STD
<1>3. Cardinality(1 .. n) = n
  <2>1. Cardinality(1 .. n) = IF 1 > n THEN 0 ELSE n - 1 + 1
    BY <1>1, FS_Interval
  <2> QED BY <1>1, <2>1
<1>4. Place(rq, CO_PRIO_STD + 1) = n + 1
  <2>1. Place(rq, CO_PRIO_STD + 1) = 1 + Cardinality(ahead)
    BY DEF Place
  <2> HIDE DEF ahead
  <2> QED BY <1>1, <1>2, <1>3, <2>1
<1>5. e \in Ready1 /\ n + 1 \in 1 .. n + 1
  BY <1>1 DEF Ready1
<1> DEFINE r == InsertAt(rq, n + 1, e)
<1> HIDE DEF e
<1>6. /\ r \in Seq(Ready1) /\ Len(r) = n + 1 /\ r[n + 1] = e
      /\ \A i \in 1 .. n : r[i] = rq[i]
  BY <1>1, <1>5, InsertAtElements
<1>7. /\ Append(rq, e) \in Seq(Ready1) /\ Len(Append(rq, e)) = n + 1
      /\ Append(rq, e)[n + 1] = e /\ \A i \in 1 .. n : Append(rq, e)[i] = rq[i]
  BY <1>5, AppendProperties
<1>8. \A i \in 1 .. n + 1 : r[i] = Append(rq, e)[i]
  BY <1>1, <1>6, <1>7
<1>9. r = Append(rq, e)
  <2> HIDE DEF r
  <2> QED BY <1>6, <1>7, <1>8, SeqEqual
<1> QED BY <1>4, <1>9 DEF Insert, e

LEMMA ThreadsOfType ==
    ASSUME NEW rq \in Seq(Ready1)
    PROVE  /\ ThreadsOf(rq) \in Seq(Coroutines) /\ Len(ThreadsOf(rq)) = Len(rq)
           /\ \A i \in 1 .. Len(rq) : ThreadsOf(rq)[i] = rq[i].th
<1>1. Len(rq) \in Nat /\ DOMAIN rq = 1 .. Len(rq) /\ \A i \in 1 .. Len(rq) : rq[i] \in Ready1
  BY LenProperties, ElementOfSeq
<1>2. ThreadsOf(rq) \in [1 .. Len(rq) -> Coroutines]
  BY <1>1 DEF ThreadsOf, Ready1
<1>3. ThreadsOf(rq) \in Seq(Coroutines)
  BY <1>1, <1>2, SeqDef
<1>4. DOMAIN ThreadsOf(rq) = 1 .. Len(rq)
  BY <1>2
<1>5. Len(ThreadsOf(rq)) = Len(rq)
  BY <1>1, <1>3, <1>4, LenProperties
<1> QED BY <1>1, <1>3, <1>5 DEF ThreadsOf

LEMMA ThreadsOfTail ==
    ASSUME NEW rq \in Seq(Ready1), rq # <<>>
    PROVE  /\ ThreadsOf(rq) # <<>> /\ Head(ThreadsOf(rq)) = rq[1].th /\ rq[1].th \in Coroutines
           /\ Tail(rq) \in Seq(Ready1) /\ ThreadsOf(Tail(rq)) = Tail(ThreadsOf(rq))
<1> DEFINE n == Len(rq)
<1>1. n \in Nat /\ n # 0
  BY LenProperties, EmptySeq
<1>2. /\ ThreadsOf(rq) \in Seq(Coroutines) /\ Len(ThreadsOf(rq)) = n
      /\ \A i \in 1 .. n : ThreadsOf(rq)[i] = rq[i].th
  BY ThreadsOfType
<1>3. ThreadsOf(rq) # <<>>
  BY <1>1, <1>2
<1>4. /\ Tail(rq) \in Seq(Ready1) /\ Len(Tail(rq)) = n - 1
      /\ \A i \in 1 .. n - 1 : Tail(rq)[i] = rq[i+1]
  BY HeadTailProperties
<1>5. /\ ThreadsOf(Tail(rq)) \in Seq(Coroutines) /\ Len(ThreadsOf(Tail(rq))) = n - 1
      /\ \A i \in 1 .. n - 1 : ThreadsOf(Tail(rq))[i] = rq[i+1].th
  BY <1>1, <1>4, ThreadsOfType
<1>6. /\ Tail(ThreadsOf(rq)) \in Seq(Coroutines) /\ Len(Tail(ThreadsOf(rq))) = n - 1
      /\ \A i \in 1 .. n - 1 : Tail(ThreadsOf(rq))[i] = rq[i+1].th
  BY <1>1, <1>2, <1>3, HeadTailProperties
<1>7. ThreadsOf(Tail(rq)) = Tail(ThreadsOf(rq))
  BY <1>5, <1>6, SeqEqual
<1>8. Head(ThreadsOf(rq)) = ThreadsOf(rq)[1] /\ rq[1].th \in Coroutines
  BY <1>1, <1>2, <1>3, ElementOfSeq DEF Ready1
<1> QED BY <1>1, <1>2, <1>3, <1>4, <1>7, <1>8

LEMMA ThreadsOfAppend ==
    ASSUME NEW rq \in Seq(Ready1), NEW e \in Ready1
    PROVE  Append(rq, e) \in Seq(Ready1) /\ ThreadsOf(Append(rq, e)) = Append(ThreadsOf(rq), e.th)
<1> DEFINE n == Len(rq)
<1>1. n \in Nat /\ e.th \in Coroutines
  BY LenProperties DEF Ready1
<1>2. /\ Append(rq, e) \in Seq(Ready1) /\ Len(Append(rq, e)) = n + 1
      /\ Append(rq, e)[n + 1] = e /\ \A i \in 1 .. n : Append(rq, e)[i] = rq[i]
  BY AppendProperties
<1>3. /\ ThreadsOf(rq) \in Seq(Coroutines) /\ Len(ThreadsOf(rq)) = n
      /\ \A i \in 1 .. n : ThreadsOf(rq)[i] = rq[i].th
  BY ThreadsOfType
<1>4. /\ ThreadsOf(Append(rq, e)) \in Seq(Coroutines) /\ Len(ThreadsOf(Append(rq, e))) = n + 1
      /\ \A i \in 1 .. n + 1 : ThreadsOf(Append(rq, e))[i] = Append(rq, e)[i].th
  BY <1>2, ThreadsOfType
<1>5. /\ Append(ThreadsOf(rq), e.th) \in Seq(Coroutines) /\ Len(Append(ThreadsOf(rq), e.th)) = n + 1
      /\ Append(ThreadsOf(rq), e.th)[n + 1] = e.th
      /\ \A i \in 1 .. n : Append(ThreadsOf(rq), e.th)[i] = ThreadsOf(rq)[i]
  BY <1>1, <1>3, AppendProperties
<1>6. \A i \in 1 .. n + 1 : ThreadsOf(Append(rq, e))[i] = Append(ThreadsOf(rq), e.th)[i]
  <2> TAKE i \in 1 .. n + 1
  <2>1. CASE i = n + 1
    BY <1>2, <1>4, <1>5, <2>1
  <2>2. CASE i \in 1 .. n
    <3>1. ThreadsOf(Append(rq, e))[i] = Append(rq, e)[i].th /\ Append(rq, e)[i] = rq[i]
      BY <1>2, <1>4, <2>2
    <3>2. Append(ThreadsOf(rq), e.th)[i] = ThreadsOf(rq)[i] /\ ThreadsOf(rq)[i] = rq[i].th
      BY <1>3, <1>5, <2>2
    <3> QED BY <3>1, <3>2
  <2>3. i = n + 1 \/ i \in 1 .. n
    <3> HIDE DEF n
    <3> QED BY <1>1
  <2> QED BY <2>1, <2>2, <2>3
<1> QED BY <1>2, <1>4, <1>5, <1>6, SeqEqual

-----------------------------------------------------------------------------
(*                         The inductive invariant                         *)

Labels == {"create", "schedule", "running", "poll", "wait", "asleep", "events", "uncount"}
Stages == {"idle", "picked", "read", "advanced"}

Types ==
    /\ next_sched_idx \in Scheds
    /\ ordered \in [Scheds -> Seq(Coroutines)]
    /\ started \in [Scheds -> Seq(Coroutines)]
    /\ ev_taken \in [Scheds -> Seq(Coroutines)]
    /\ ev_queue \in [Scheds -> Seq(Coroutines)]
    /\ RQ \in [Scheds -> Seq(Ready1)]
    /\ pc \in [Scheds -> Labels]
    /\ creating \in [Callers -> [at : Stages, sched : Scheds, idx : Scheds]]

\* The list is only taken when nothing is left of what was taken before.
NothingTaken == \A s \in Scheds : pc[s] \notin {"events", "uncount"} => ev_taken[s] = <<>>

GivenOnce ==
    \A s \in Scheds : \A i, j \in 1 .. Len(ordered[s]) : ordered[s][i] = ordered[s][j] => i = j

\* For every call under way there is a coroutine that is not created yet.
OneLeft == Cardinality(Created) + Cardinality(Called) <= Cardinality(Coroutines)

OInv == Types /\ NothingTaken /\ GivenOnce /\ OneLeft /\ StartedInOrder

LEMMA CallersFinite == IsFiniteSet(Callers)
<1>1. IsFiniteSet(Scheds)
  BY SchedAssumption, FS_Interval DEF Scheds
<1> QED BY <1>1, SchedAssumption, FS_Union DEF Callers

\* What is allocated is a coroutine that no scheduler was given.
LEMMA AllocatedIsNew ==
    ASSUME OInv, NEW c \in Callers, creating[c].at # "idle"
    PROVE  /\ Allocated \in Coroutines /\ Allocated \notin Created
           /\ IsFiniteSet(Created) /\ IsFiniteSet(Called)
<1>1. Created \subseteq Coroutines
  <2>1. ASSUME NEW s \in Scheds PROVE Range(ordered[s]) \subseteq Coroutines
    BY RangeOfSeq DEF OInv, Types
  <2> QED BY <2>1 DEF Created
<1>2. IsFiniteSet(Created) /\ Cardinality(Created) \in Nat
  BY <1>1, SchedAssumption, FS_Subset, FS_CardinalityType
<1>3. c \in Called /\ Called \subseteq Callers
  BY DEF Called
<1>4. IsFiniteSet(Called) /\ Cardinality(Called) \in Nat /\ Cardinality(Called) # 0
  BY <1>3, CallersFinite, FS_Subset, FS_CardinalityType, FS_EmptySet
<1>5. Cardinality(Coroutines) \in Nat
  BY SchedAssumption, FS_CardinalityType
<1>6. Created # Coroutines
  BY <1>2, <1>4, <1>5 DEF OInv, OneLeft
<1>7. \E t \in Coroutines : t \notin Created
  BY <1>1, <1>6
<1>8. Allocated \in Coroutines /\ Allocated \notin Created
  BY <1>7 DEF Allocated
<1> QED BY <1>2, <1>4, <1>8

\* A step that gives no scheduler a coroutine, and is no step of a caller.
LEMMA CreationKept ==
    ASSUME OInv, ordered' = ordered, creating' = creating
    PROVE  GivenOnce' /\ OneLeft'
<1>1. Created' = Created /\ Called' = Called
  BY DEF Created, Called
<1> QED BY <1>1 DEF OInv, GivenOnce, OneLeft

LEMMA PostEventKeeps ==
    ASSUME OInv, NEW c \in Callers, PostEvent(c)
    PROVE  OInv'
<1> DEFINE s == creating[c].sched
           t == Allocated
<1>1. s \in Scheds /\ creating[c].at = "advanced"
  BY DEF OInv, Types, PostEvent
<1>2. t \in Coroutines /\ t \notin Created /\ IsFiniteSet(Created) /\ IsFiniteSet(Called)
  BY <1>1, AllocatedIsNew
<1>3. /\ ev_queue' = [ev_queue EXCEPT ![s] = Append(@, t)]
      /\ ordered' = [ordered EXCEPT ![s] = Append(@, t)]
      /\ creating' = [creating EXCEPT ![c] = Idle]
      /\ UNCHANGED <<next_sched_idx, RQ, ev_taken, started>>
      /\ \/ pc' = [pc EXCEPT ![s] = "wait"] /\ pc[s] = "asleep"
         \/ pc' = pc
  BY <1>1 DEF PostEvent, GoTo
<1> HIDE DEF t, s
<1>4. Append(ordered[s], t) \in Seq(Coroutines) /\ Append(ev_queue[s], t) \in Seq(Coroutines)
  BY <1>1, <1>2, AppendProperties DEF OInv, Types
<1>5. Types'
  <2>1. Idle \in [at : Stages, sched : Scheds, idx : Scheds]
    BY SchedAssumption DEF Idle, Stages, Scheds
  <2>2. pc' \in [Scheds -> Labels]
    BY <1>3 DEF OInv, Types, Labels
  <2> QED BY <1>1, <1>3, <1>4, <2>1, <2>2 DEF OInv, Types
<1>6. NothingTaken'
  BY <1>3 DEF OInv, Types, NothingTaken
<1>7. GivenOnce'
  <2>1. ASSUME NEW u \in Scheds, u # s PROVE ordered'[u] = ordered[u]
    BY <1>3, <2>1 DEF OInv, Types
  <2> DEFINE rq == ordered[s]
             n == Len(rq)
  <2>2. ordered'[s] = Append(rq, t) /\ rq \in Seq(Coroutines)
    BY <1>1, <1>3 DEF OInv, Types
  <2>3. \A i \in 1 .. n : rq[i] # t
    BY <1>1, <1>2, <2>2, RangeEquality DEF Created
  <2>4. /\ Len(Append(rq, t)) = n + 1 /\ Append(rq, t)[n + 1] = t /\ n \in Nat
        /\ \A i \in 1 .. n : Append(rq, t)[i] = rq[i]
    BY <1>2, <2>2, AppendProperties, LenProperties
  <2>5. \A i, j \in 1 .. n : rq[i] = rq[j] => i = j
    BY <1>1 DEF OInv, GivenOnce
  <2> HIDE DEF n, rq
  <2>6. \A i, j \in 1 .. n + 1 : Append(rq, t)[i] = Append(rq, t)[j] => i = j
    <3> SUFFICES ASSUME NEW i \in 1 .. n + 1, NEW j \in 1 .. n + 1,
                        Append(rq, t)[i] = Append(rq, t)[j]
                 PROVE  i = j
      OBVIOUS
    <3>1. i = n + 1 \/ i \in 1 .. n
      BY <2>4
    <3>2. j = n + 1 \/ j \in 1 .. n
      BY <2>4
    <3> QED BY <2>3, <2>4, <2>5, <3>1, <3>2
  <2>7. ASSUME NEW u \in Scheds
        PROVE  \A i, j \in 1 .. Len(ordered'[u]) : ordered'[u][i] = ordered'[u][j] => i = j
    <3>1. CASE u = s
      BY <2>2, <2>4, <2>6, <3>1
    <3>2. CASE u # s
      BY <2>1, <3>2 DEF OInv, GivenOnce
    <3> QED BY <3>1, <3>2
  <2> QED BY <2>7 DEF GivenOnce
<1>8. OneLeft'
  <2>1. Created' = Created \cup {t}
    <3>1. Range(Append(ordered[s], t)) = Range(ordered[s]) \cup {t}
      <4>1. ordered[s] \in Seq(Coroutines) /\ <<t>> \in Seq(Coroutines)
        BY <1>1, <1>2 DEF OInv, Types
      <4>2. Append(ordered[s], t) = ordered[s] \o <<t>>
        BY <1>2, <4>1, AppendIsConcat
      <4>3. Range(<<t>>) = {t}
        <5> DEFINE x == <<t>>
        <5>1. x \in Seq(Coroutines) /\ Len(x) = 1 /\ x[1] = t
          BY <4>1
        <5> HIDE DEF x
        <5>2. Range(x) = {x[i] : i \in 1 .. Len(x)}
          BY <5>1, RangeEquality
        <5>3. Range(x) = {t}
          BY <5>1, <5>2
        <5> QED BY <5>3 DEF x
      <4> DEFINE rq == ordered[s]
      <4> HIDE DEF rq
      <4>4. rq \in Seq(Coroutines)
        BY <4>1 DEF rq
      <4>5. Range(rq \o <<t>>) = Range(rq) \cup Range(<<t>>)
        BY <4>1, <4>4, RangeConcatenation
      <4> QED BY <4>2, <4>3, <4>5 DEF rq
    <3>2. ordered'[s] = Append(ordered[s], t) /\ \A u \in Scheds \ {s} : ordered'[u] = ordered[u]
      BY <1>1, <1>3 DEF OInv, Types
    <3>3. /\ Range(ordered'[s]) = Range(ordered[s]) \cup {t}
          /\ \A u \in Scheds \ {s} : Range(ordered'[u]) = Range(ordered[u])
      BY <3>1, <3>2
    <3> QED BY <1>1, <3>3 DEF Created
  <2>2. Called' = Called \ {c} /\ c \in Called
    BY <1>1, <1>3 DEF OInv, Types, Called, Idle
  <2>3. Cardinality(Created \cup {t}) = Cardinality(Created) + 1
    BY <1>2, FS_AddElement
  <2>4. Cardinality(Called \ {c}) = Cardinality(Called) - 1
    BY <1>2, <2>2, FS_RemoveElement
  <2>5. Cardinality(Created) \in Nat /\ Cardinality(Called) \in Nat
    BY <1>2, FS_CardinalityType
  <2> QED BY <2>1, <2>2, <2>3, <2>4, <2>5 DEF OInv, OneLeft
<1>9. StartedInOrder'
  <2> SUFFICES ASSUME NEW u \in Scheds
               PROVE  ordered'[u] = started'[u] \o Ready(u)' \o ev_taken'[u] \o ev_queue'[u]
    BY DEF StartedInOrder
  <2>1. Ready(u)' = Ready(u) /\ started'[u] = started[u] /\ ev_taken'[u] = ev_taken[u]
    BY <1>3 DEF Ready
  <2>2. ordered[u] = started[u] \o Ready(u) \o ev_taken[u] \o ev_queue[u]
    BY DEF OInv, StartedInOrder
  <2>3. CASE u # s
    BY <1>3, <2>1, <2>2, <2>3 DEF OInv, Types
  <2>4. CASE u = s
    <3>1. ordered'[u] = Append(ordered[u], t) /\ ev_queue'[u] = Append(ev_queue[u], t)
      BY <1>1, <1>3, <2>4 DEF OInv, Types
    <3>2. /\ started[u] \in Seq(Coroutines) /\ Ready(u) \in Seq(Coroutines)
          /\ ev_taken[u] \in Seq(Coroutines) /\ ev_queue[u] \in Seq(Coroutines)
      BY ThreadsOfType DEF OInv, Types, Ready, ThreadsOf
    <3> DEFINE front == started[u] \o Ready(u) \o ev_taken[u]
               e == ev_queue[u]
    <3>3. front \in Seq(Coroutines)
      BY <3>2, ConcatProperties
    <3>4. ordered[u] = front \o e /\ e \in Seq(Coroutines)
          /\ started'[u] \o Ready(u)' \o ev_taken'[u] = front
      BY <2>1, <2>2, <3>2
    <3>5. ev_queue'[u] = Append(e, t) /\ ordered'[u] = Append(front \o e, t)
      BY <3>1, <3>4
    <3> HIDE DEF front, e
    <3>6. front \o Append(e, t) = Append(front \o e, t)
      <4>1. front \in Seq(Coroutines) /\ e \in Seq(Coroutines) /\ t \in Coroutines
        BY <1>2, <3>3, <3>4
      <4> QED BY <4>1, AppendToLast
    <3> QED BY <3>4, <3>5, <3>6
  <2> QED BY <2>3, <2>4
<1> QED BY <1>5, <1>6, <1>7, <1>8, <1>9 DEF OInv

\* The other steps of a caller.
LEMMA CallKeeps ==
    ASSUME OInv, NEW c \in Callers, PickScheduler(c) \/ ReadIndex(c) \/ AdvanceIndex(c)
    PROVE  OInv'
<1>1. UNCHANGED <<queues, pc, ordered, started>> /\ next_sched_idx' \in Scheds
  <2>1. CASE PickScheduler(c) \/ ReadIndex(c)
    BY <2>1 DEF PickScheduler, ReadIndex, OInv, Types
  <2>2. CASE AdvanceIndex(c)
    <3>1. creating[c].idx + 1 \in Int
      BY DEF OInv, Types, Scheds
    <3>2. (creating[c].idx + 1) % NumOfSched \in 0 .. NumOfSched - 1
      BY <3>1, SchedAssumption
    <3> QED BY <2>2, <3>2 DEF AdvanceIndex, Scheds
  <2> QED BY <2>1, <2>2
<1>2. Types'
  <2>1. creating' \in [Callers -> [at : Stages, sched : Scheds, idx : Scheds]]
    <3>1. CASE PickScheduler(c)
      BY <3>1 DEF PickScheduler, OInv, Types, Stages
    <3>2. CASE ReadIndex(c)
      BY <3>2 DEF ReadIndex, OInv, Types, Stages
    <3>3. CASE AdvanceIndex(c)
      BY <3>3 DEF AdvanceIndex, OInv, Types, Stages
    <3> QED BY <3>1, <3>2, <3>3
  <2> QED BY <1>1, <2>1 DEF OInv, Types, queues
<1>3. NothingTaken' /\ GivenOnce'
  BY <1>1 DEF OInv, NothingTaken, GivenOnce, queues
<1>4. StartedInOrder'
  BY <1>1 DEF OInv, StartedInOrder, Ready, queues
<1>5. OneLeft'
  <2>1. Created' = Created
    BY <1>1 DEF Created
  <2>2. CASE PickScheduler(c)
    <3>1. Called' = Called \cup {c} /\ c \notin Called
      BY <2>2 DEF PickScheduler, Called, OInv, Types
    <3>2. IsFiniteSet(Called)
      BY CallersFinite, FS_Subset DEF Called
    <3>3. Cardinality(Called \cup {c}) = Cardinality(Called) + 1
      BY <3>1, <3>2, FS_AddElement
    <3>4. Cardinality(Created) + Cardinality(Called) < Cardinality(Coroutines)
      BY <2>2 DEF PickScheduler
    <3>5. Cardinality(Called) \in Nat /\ Cardinality(Coroutines) \in Nat
      BY <3>2, SchedAssumption, FS_CardinalityType
    <3>6. Cardinality(Created) \in Nat
      <4>1. Created \subseteq Coroutines
        <5>1. ASSUME NEW s \in Scheds PROVE Range(ordered[s]) \subseteq Coroutines
          BY RangeOfSeq DEF OInv, Types
        <5> QED BY <5>1 DEF Created
      <4> QED BY <4>1, SchedAssumption, FS_Subset, FS_CardinalityType
    <3> QED BY <2>1, <3>1, <3>3, <3>4, <3>5, <3>6 DEF OneLeft
  <2>3. CASE ReadIndex(c) \/ AdvanceIndex(c)
    <3>1. Called' = Called
      BY <2>3 DEF ReadIndex, AdvanceIndex, Called, OInv, Types
    <3> QED BY <2>1, <3>1 DEF OInv, OneLeft
  <2> QED BY <2>2, <2>3
<1> QED BY <1>2, <1>3, <1>4, <1>5 DEF OInv

\* The steps of a scheduler that only change where it is.
LEMMA PlaceKeeps ==
    ASSUME OInv, NEW s \in Scheds,
           _lunch_sched(s) \/ _co_coroutine_start(s) \/ SchedSpuriousWakeup(s)
    PROVE  OInv'
<1>1. /\ UNCHANGED <<next_sched_idx, queues, creating, ordered, started>>
      /\ \E label \in {"schedule", "wait", "poll"} : pc' = [pc EXCEPT ![s] = label]
      /\ pc[s] \notin {"events", "uncount"}
  BY DEF _lunch_sched, _co_coroutine_start, SchedSpuriousWakeup, GoTo
<1>2. Types' /\ NothingTaken'
  BY <1>1 DEF OInv, Types, NothingTaken, Labels, queues
<1>3. StartedInOrder'
  BY <1>1 DEF OInv, StartedInOrder, Ready, queues
<1>4. GivenOnce' /\ OneLeft'
  BY <1>1, CreationKept
<1> QED BY <1>2, <1>3, <1>4 DEF OInv

\* The first coroutine that is ready is started.
LEMMA ScheduleKeeps ==
    ASSUME OInv, NEW s \in Scheds, co_schedule_loop(s)
    PROVE  OInv'
<1> DEFINE rq == RQ[s]
<1>1. UNCHANGED <<next_sched_idx, ev_queue, ev_occurred_cnt, ev_taken, creating, ordered>>
  BY DEF co_schedule_loop
<1>2. GivenOnce' /\ OneLeft'
  BY <1>1, CreationKept
<1>3. rq \in Seq(Ready1) /\ started[s] \in Seq(Coroutines) /\ pc[s] = "schedule"
  BY DEF OInv, Types, co_schedule_loop
<1>4. CASE rq = <<>>
  <2>1. UNCHANGED <<RQ, started>> /\ pc' = [pc EXCEPT ![s] = "wait"]
    BY <1>4 DEF co_schedule_loop, GoTo
  <2>2. Types' /\ NothingTaken'
    <3>1. pc' \in [Scheds -> Labels]
      BY <2>1 DEF OInv, Types, Labels
    <3>2. NothingTaken'
      BY <1>1, <1>3, <2>1 DEF OInv, Types, NothingTaken
    <3> QED BY <1>1, <2>1, <3>1, <3>2 DEF OInv, Types
  <2>3. StartedInOrder'
    BY <1>1, <2>1 DEF OInv, StartedInOrder, Ready
  <2> QED BY <1>2, <2>2, <2>3 DEF OInv
<1>5. CASE rq # <<>>
  <2>1. /\ RQ' = [RQ EXCEPT ![s] = Tail(@)] /\ pc' = [pc EXCEPT ![s] = "running"]
        /\ started' = [started EXCEPT ![s] = Append(@, rq[1].th)]
    BY <1>5 DEF co_schedule_loop, GoTo
  <2>2. /\ ThreadsOf(rq) # <<>> /\ Head(ThreadsOf(rq)) = rq[1].th /\ rq[1].th \in Coroutines
        /\ Tail(rq) \in Seq(Ready1) /\ ThreadsOf(Tail(rq)) = Tail(ThreadsOf(rq))
    BY <1>3, <1>5, ThreadsOfTail
  <2>3. Append(started[s], rq[1].th) \in Seq(Coroutines)
    BY <1>3, <2>2, AppendProperties
  <2>4. Types' /\ NothingTaken'
    <3>1. RQ' \in [Scheds -> Seq(Ready1)] /\ started' \in [Scheds -> Seq(Coroutines)]
      BY <2>1, <2>2, <2>3 DEF OInv, Types
    <3>2. pc' \in [Scheds -> Labels] /\ NothingTaken'
      BY <1>1, <1>3, <2>1 DEF OInv, Types, NothingTaken, Labels
    <3> QED BY <1>1, <3>1, <3>2 DEF OInv, Types
  <2>5. StartedInOrder'
    <3> SUFFICES ASSUME NEW u \in Scheds
                 PROVE  ordered'[u] = started'[u] \o Ready(u)' \o ev_taken'[u] \o ev_queue'[u]
      BY DEF StartedInOrder
    <3>1. started[u] \o Ready(u) = started'[u] \o Ready(u)'
      <4>1. CASE u = s
        <5>1. started'[u] = Append(started[s], rq[1].th) /\ RQ'[u] = Tail(rq)
          BY <2>1, <4>1 DEF OInv, Types
        <5>2. Ready(u)' = Tail(ThreadsOf(rq)) /\ Ready(u) = ThreadsOf(rq)
          BY <2>2, <4>1, <5>1 DEF Ready, ThreadsOf
        <5>3. ThreadsOf(rq) \in Seq(Coroutines)
          BY <1>3, ThreadsOfType
        <5>4. Append(started[s], Head(ThreadsOf(rq))) \o Tail(ThreadsOf(rq)) = started[s] \o ThreadsOf(rq)
          <6> HIDE DEF rq
          <6> QED BY <1>3, <2>2, <5>3, MoveToEnd
        <5> QED BY <2>2, <4>1, <5>1, <5>2, <5>4
      <4>2. CASE u # s
        BY <2>1, <4>2 DEF OInv, Types, Ready
      <4> QED BY <4>1, <4>2
    <3> QED BY <1>1, <3>1 DEF OInv, StartedInOrder
  <2> QED BY <1>2, <2>4, <2>5 DEF OInv
<1> QED BY <1>4, <1>5

\* The event manager takes the list, or waits.
LEMMA TakeKeeps ==
    ASSUME OInv, NEW s \in Scheds, PollEvents(s) \/ WaitForEvents(s)
    PROVE  OInv'
<1>1. UNCHANGED <<next_sched_idx, RQ, creating, ordered, started>>
  BY DEF PollEvents, WaitForEvents
<1>2. GivenOnce' /\ OneLeft'
  BY <1>1, CreationKept
<1>3. ev_taken[s] = <<>> /\ ev_queue[s] \in Seq(Coroutines)
  BY DEF OInv, Types, NothingTaken, PollEvents, WaitForEvents
<1>4. \/ /\ UNCHANGED <<ev_taken, ev_queue>>
         /\ pc' = [pc EXCEPT ![s] = "events"] \/ pc' = [pc EXCEPT ![s] = "asleep"]
      \/ /\ ev_taken' = [ev_taken EXCEPT ![s] = ev_queue[s]]
         /\ ev_queue' = [ev_queue EXCEPT ![s] = <<>>]
         /\ pc' = [pc EXCEPT ![s] = "events"]
  BY DEF PollEvents, WaitForEvents, TakeEvents, GoTo
<1>5. <<>> \in Seq(Coroutines)
  BY EmptySeq
<1>6. Types' /\ NothingTaken'
  <2>1. ev_taken' \in [Scheds -> Seq(Coroutines)] /\ ev_queue' \in [Scheds -> Seq(Coroutines)]
    <3>1. CASE UNCHANGED <<ev_taken, ev_queue>>
      BY <3>1 DEF OInv, Types
    <3>2. CASE /\ ev_taken' = [ev_taken EXCEPT ![s] = ev_queue[s]]
               /\ ev_queue' = [ev_queue EXCEPT ![s] = <<>>]
      BY <1>3, <1>5, <3>2 DEF OInv, Types
    <3> QED BY <1>4, <3>1, <3>2
  <2>2. pc' \in [Scheds -> Labels]
    BY <1>4 DEF OInv, Types, Labels
  <2>3. NothingTaken'
    BY <1>3, <1>4 DEF OInv, Types, NothingTaken
  <2> QED BY <1>1, <2>1, <2>2, <2>3 DEF OInv, Types
<1>7. StartedInOrder'
  <2> SUFFICES ASSUME NEW u \in Scheds
               PROVE  ordered'[u] = started'[u] \o Ready(u)' \o ev_taken'[u] \o ev_queue'[u]
    BY DEF StartedInOrder
  <2> DEFINE front == started[u] \o Ready(u)
  <2>1. front = started'[u] \o Ready(u)' /\ ordered'[u] = front \o ev_taken[u] \o ev_queue[u]
    BY <1>1 DEF Ready, OInv, StartedInOrder
  <2>2. front \in Seq(Coroutines)
    <3>1. started[u] \in Seq(Coroutines) /\ Ready(u) \in Seq(Coroutines)
      BY ThreadsOfType DEF OInv, Types, Ready, ThreadsOf
    <3> QED BY <3>1, ConcatProperties
  <2> HIDE DEF front
  <2>3. \/ ev_taken'[u] = ev_taken[u] /\ ev_queue'[u] = ev_queue[u]
        \/ ev_taken[u] = <<>> /\ ev_taken'[u] = ev_queue[u] /\ ev_queue'[u] = <<>>
    BY <1>3, <1>4 DEF OInv, Types
  <2>4. ASSUME ev_taken[u] = <<>>, ev_taken'[u] = ev_queue[u], ev_queue'[u] = <<>>
        PROVE  front \o ev_taken[u] \o ev_queue[u] = front \o ev_taken'[u] \o ev_queue'[u]
    <3>1. front \o ev_taken[u] = front
      BY <2>2, <2>4, ConcatEmptySeq
    <3>2. front \o ev_queue[u] \in Seq(Coroutines)
      BY <2>2, ConcatProperties DEF OInv, Types
    <3>3. (front \o ev_queue[u]) \o <<>> = front \o ev_queue[u]
      BY <3>2, ConcatEmptySeq
    <3> QED BY <2>4, <3>1, <3>3
  <2> QED BY <2>1, <2>3, <2>4
<1> QED BY <1>2, <1>6, <1>7 DEF OInv

\* An event is handled: what a scheduler was given it was given once, so the
\* coroutine is not ready yet, and comes last.
LEMMA HandleKeeps ==
    ASSUME OInv, NEW s \in Scheds, HandleEvent(s)
    PROVE  OInv'
<1> DEFINE rq == RQ[s]
           t == Head(ev_taken[s])
<1>1. UNCHANGED <<next_sched_idx, ev_queue, ev_occurred_cnt, creating, ordered, started>>
      /\ pc[s] = "events"
  BY DEF HandleEvent
<1>2. GivenOnce' /\ OneLeft'
  BY <1>1, CreationKept
<1>3. /\ started[s] \in Seq(Coroutines) /\ Ready(s) \in Seq(Coroutines)
      /\ ev_taken[s] \in Seq(Coroutines) /\ ev_queue[s] \in Seq(Coroutines)
      /\ rq \in Seq(Ready1) /\ Ready(s) = ThreadsOf(rq)
  BY ThreadsOfType DEF OInv, Types, Ready, ThreadsOf
<1>4. CASE ev_taken[s] = <<>>
  <2>1. UNCHANGED <<ev_taken, RQ>> /\ pc' = [pc EXCEPT ![s] = "schedule"]
    BY <1>4 DEF HandleEvent, GoTo
  <2>2. Types' /\ NothingTaken'
    BY <1>1, <1>4, <2>1 DEF OInv, Types, NothingTaken, Labels
  <2>3. StartedInOrder'
    BY <1>1, <2>1 DEF OInv, StartedInOrder, Ready
  <2> QED BY <1>2, <2>2, <2>3 DEF OInv
<1>5. CASE ev_taken[s] # <<>>
  <2>1. /\ RQ' = [RQ EXCEPT ![s] = Enqueue(rq, t)]
        /\ ev_taken' = [ev_taken EXCEPT ![s] = Tail(@)] /\ pc' = [pc EXCEPT ![s] = "uncount"]
    BY <1>5 DEF HandleEvent, GoTo, OInv, Types
  <2>2. t \in Coroutines /\ Tail(ev_taken[s]) \in Seq(Coroutines)
    BY <1>3, <1>5, HeadTailProperties
  <2>3. t \notin Members(rq)
    <3> DEFINE a == started[s]
               b == Ready(s)
               c == ev_taken[s]
               d == ev_queue[s]
               o == ordered[s]
    <3>1. a \in Seq(Coroutines) /\ b \in Seq(Coroutines) /\ c \in Seq(Coroutines)
          /\ d \in Seq(Coroutines) /\ c # <<>> /\ t = c[1] /\ o = a \o b \o c \o d
      <4>1. o = a \o b \o c \o d
        BY DEF OInv, StartedInOrder
      <4>2. t = c[1]
        BY <1>3, <1>5, HeadTailProperties
      <4> QED BY <1>3, <1>5, <4>1, <4>2
    <3>2. \A i, j \in 1 .. Len(o) : o[i] = o[j] => i = j
      BY DEF OInv, GivenOnce
    <3>3. ASSUME NEW i \in 1 .. Len(b), b[i] = t PROVE FALSE
      <4> HIDE DEF a, b, c, d, o, t
      <4>1. Len(a) \in Nat /\ Len(b) \in Nat /\ Len(c) \in Nat /\ Len(d) \in Nat /\ Len(c) # 0
        BY <3>1, LenProperties, EmptySeq
      <4> DEFINE ab == a \o b
                 abc == ab \o c
      <4>2. /\ ab \in Seq(Coroutines) /\ Len(ab) = Len(a) + Len(b)
            /\ ab[Len(a) + i] = b[i]
        <5>1. Len(a) + i \in 1 .. Len(a) + Len(b) /\ ~(Len(a) + i <= Len(a))
              /\ (Len(a) + i) - Len(a) = i
          BY <4>1
        <5> QED BY <3>1, <5>1, ConcatProperties
      <4> HIDE DEF ab
      <4> DEFINE k == Len(a) + i
                 m == Len(ab) + 1
      <4>3. /\ abc \in Seq(Coroutines) /\ Len(abc) = Len(ab) + Len(c)
            /\ abc[k] = ab[k] /\ abc[m] = c[1]
        <5>1. k \in 1 .. Len(ab) /\ 1 \in 1 .. Len(c)
          BY <4>1, <4>2
        <5>2. ab \in Seq(Coroutines) /\ c \in Seq(Coroutines)
          BY <3>1, <4>2
        <5> HIDE DEF k
        <5> QED BY <5>1, <5>2, ConcatParts
      <4> HIDE DEF abc
      <4>4. k \in 1 .. Len(abc) /\ m \in 1 .. Len(abc) /\ k # m
        BY <4>1, <4>2, <4>3
      <4> HIDE DEF k, m
      <4>5. Len(o) = Len(abc) + Len(d) /\ \A n \in 1 .. Len(abc) : o[n] = abc[n]
        <5>1. o = abc \o d /\ abc \in Seq(Coroutines) /\ d \in Seq(Coroutines)
          BY <3>1, <4>3 DEF abc, ab
        <5>2. /\ Len(abc \o d) = Len(abc) + Len(d)
              /\ \A n \in 1 .. Len(abc) + Len(d) :
                    (abc \o d)[n] = IF n <= Len(abc) THEN abc[n] ELSE d[n - Len(abc)]
          BY <5>1, ConcatProperties
        <5>3. \A n \in 1 .. Len(abc) : n \in 1 .. Len(abc) + Len(d) /\ n <= Len(abc)
          BY <4>1, <4>2, <4>3
        <5> QED BY <5>1, <5>2, <5>3
      <4>6. k \in 1 .. Len(o) /\ m \in 1 .. Len(o)
        BY <4>1, <4>2, <4>3, <4>4, <4>5
      <4>7. o[k] = t /\ o[m] = t
        BY <3>1, <3>3, <4>2, <4>3, <4>4, <4>5 DEF k
      <4> QED BY <3>2, <4>4, <4>6, <4>7
    <3>4. DOMAIN rq = 1 .. Len(b) /\ \A i \in 1 .. Len(b) : b[i] = rq[i].th
      BY <1>3, ThreadsOfType, LenProperties
    <3> QED BY <3>3, <3>4 DEF Members
  <2> DEFINE e == [th |-> t, pr |-> CO_PRIO_STD + 1]
  <2>4. Enqueue(rq, t) = Append(rq, e)
    BY <1>3, <2>2, <2>3, InsertIsAppend DEF Enqueue
  <2>5. e \in Ready1 /\ e.th = t
    BY <2>2 DEF Ready1
  <2>6. Append(rq, e) \in Seq(Ready1) /\ ThreadsOf(Append(rq, e)) = Append(ThreadsOf(rq), t)
    <3> HIDE DEF e, rq, t
    <3> QED BY <1>3, <2>5, ThreadsOfAppend
  <2>7. Types' /\ NothingTaken'
    <3>1. RQ' \in [Scheds -> Seq(Ready1)] /\ ev_taken' \in [Scheds -> Seq(Coroutines)]
      BY <2>1, <2>2, <2>4, <2>6 DEF OInv, Types
    <3>2. pc' \in [Scheds -> Labels] /\ NothingTaken'
      BY <1>1, <2>1 DEF OInv, Types, NothingTaken, Labels
    <3> QED BY <1>1, <3>1, <3>2 DEF OInv, Types
  <2>8. StartedInOrder'
    <3> SUFFICES ASSUME NEW u \in Scheds
                 PROVE  ordered'[u] = started'[u] \o Ready(u)' \o ev_taken'[u] \o ev_queue'[u]
      BY DEF StartedInOrder
    <3>1. (started[u] \o Ready(u)) \o ev_taken[u] = (started[u] \o Ready(u)') \o ev_taken'[u]
      <4>1. CASE u = s
        <5> DEFINE a == started[s]
                   b == Ready(s)
                   c == ev_taken[s]
        <5>1. Ready(u)' = Append(b, t) /\ ev_taken'[u] = Tail(c)
          BY <1>3, <2>1, <2>4, <2>6, <4>1 DEF OInv, Types, Ready, ThreadsOf
        <5>2. a \in Seq(Coroutines) /\ b \in Seq(Coroutines) /\ c \in Seq(Coroutines) /\ c # <<>>
              /\ t = Head(c) /\ t \in Coroutines
          BY <1>3, <1>5, <2>2
        <5> HIDE DEF a, b, c, t
        <5>3. a \o Append(b, t) = Append(a \o b, t) /\ a \o b \in Seq(Coroutines)
          BY <5>2, AppendToLast, ConcatProperties
        <5>4. Append(a \o b, Head(c)) \o Tail(c) = (a \o b) \o c
          BY <5>2, <5>3, MoveToEnd
        <5>5. (a \o Append(b, t)) \o Tail(c) = (a \o b) \o c
          BY <5>2, <5>3, <5>4
        <5> QED BY <4>1, <5>1, <5>5 DEF a, b, c
      <4>2. CASE u # s
        BY <2>1, <4>2 DEF OInv, Types, Ready
      <4> QED BY <4>1, <4>2
    <3> QED BY <1>1, <3>1 DEF OInv, StartedInOrder
  <2> QED BY <1>2, <2>7, <2>8 DEF OInv
<1> QED BY <1>4, <1>5

LEMMA UncountKeeps ==
    ASSUME OInv, NEW s \in Scheds, UncountEvent(s)
    PROVE  OInv'
<1>1. /\ UNCHANGED <<next_sched_idx, ev_queue, RQ, ev_taken, creating, ordered, started>>
      /\ pc' = [pc EXCEPT ![s] = "events"] /\ pc[s] = "uncount"
  BY DEF UncountEvent, GoTo
<1>2. Types' /\ NothingTaken'
  BY <1>1 DEF OInv, Types, NothingTaken, Labels
<1>3. StartedInOrder'
  BY <1>1 DEF OInv, StartedInOrder, Ready
<1> QED BY <1>1, <1>2, <1>3, CreationKept DEF OInv

(* Every coroutine a scheduler was given is started once, in the order of  *)
(* creation, and until then it is in one place on its way there: for every *)
(* number of schedulers and callers of co_create_co.                       *)
THEOREM CoroutinesStartInOrder == CoSpec => []StartedInOrder
<1>1. CoInit => OInv
  <2> SUFFICES ASSUME CoInit PROVE OInv
    OBVIOUS
  <2>1. <<>> \in Seq(Coroutines) /\ <<>> \in Seq(Ready1) /\ 0 \in Scheds
    BY EmptySeq, SchedAssumption DEF Scheds
  <2>2. Types
    BY <2>1 DEF CoInit, Types, Labels, Stages, Idle
  <2>3. NothingTaken /\ GivenOnce
    BY DEF CoInit, NothingTaken, GivenOnce
  <2>4. OneLeft
    <3>1. \A s \in Scheds : Range(ordered[s]) = {}
      BY DEF CoInit, Range
    <3>2. Created = {} /\ Called = {}
      BY <3>1 DEF CoInit, Created, Called, Idle
    <3> QED BY <3>2, SchedAssumption, FS_EmptySet, FS_CardinalityType DEF OneLeft
  <2>5. StartedInOrder
    <3> SUFFICES ASSUME NEW s \in Scheds
                 PROVE  ordered[s] = started[s] \o Ready(s) \o ev_taken[s] \o ev_queue[s]
      BY DEF StartedInOrder
    <3>1. RQ[s] = <<>>
      BY DEF CoInit
    <3>2. Ready(s) \in Seq(Coroutines) /\ Len(Ready(s)) = 0
      BY <2>1, <3>1, ThreadsOfType DEF Ready, ThreadsOf
    <3>3. Ready(s) = <<>>
      BY <3>2, EmptySeq
    <3>4. <<>> \o <<>> \o <<>> \o <<>> = <<>>
      BY <2>1, ConcatEmptySeq
    <3> QED BY <3>3, <3>4 DEF CoInit
  <2> QED BY <2>2, <2>3, <2>4, <2>5 DEF OInv
<1>2. OInv /\ [CoNext]_coVars => OInv'
  <2> SUFFICES ASSUME OInv, [CoNext]_coVars PROVE OInv'
    OBVIOUS
  <2>1. ASSUME NEW c \in Callers, co_create_co(c) PROVE OInv'
    BY <2>1, CallKeeps, PostEventKeeps DEF co_create_co
  <2>2. ASSUME NEW s \in Scheds, SchedulerStep(s) \/ SchedSpuriousWakeup(s) PROVE OInv'
    BY <2>2, PlaceKeeps, ScheduleKeeps, TakeKeeps, HandleKeeps, UncountKeeps
       DEF SchedulerStep, co_sched_eventmanager
  <2>3. CASE UNCHANGED coVars
    <3>1. UNCHANGED <<next_sched_idx, ev_queue, RQ, ev_taken, pc, creating, ordered, started>>
      BY <2>3 DEF coVars, queues
    <3>2. Types' /\ NothingTaken'
      BY <3>1 DEF OInv, Types, NothingTaken
    <3>3. StartedInOrder'
      BY <3>1 DEF OInv, StartedInOrder, Ready
    <3> QED BY <3>1, <3>2, <3>3, CreationKept DEF OInv
  <2> QED BY <2>1, <2>2, <2>3 DEF CoNext
<1>3. OInv => StartedInOrder
  BY DEF OInv
<1> QED
  BY <1>1, <1>2, <1>3, PTL DEF CoSpec


-----------------------------------------------------------------------------
(* CoTimer: every timer that was scheduled is new, in the list or called   *)
(* back, and in one of these places only.  How often an entry is in a list *)
(* grows by one with each insertion, wherever that is; pushing an entry    *)
(* puts it in place 1, and taking the head off undoes that.                *)

LEMMA TimesIs ==
    ASSUME NEW S, NEW list \in Seq(S), NEW x
    PROVE  /\ Times(list, x) = Cardinality({i \in 1 .. Len(list) : list[i] = x})
           /\ Times(list, x) \in Nat
<1> DEFINE A == {i \in 1 .. Len(list) : list[i] = x}
<1>1. Times(list, x) = Cardinality(A)
  BY LenProperties DEF Times
<1>2. IsFiniteSet(1 .. Len(list)) /\ A \subseteq 1 .. Len(list)
  BY LenProperties, FS_Interval
<1>3. Cardinality(A) \in Nat
  <2> HIDE DEF A
  <2> QED BY <1>2, FS_Subset, FS_CardinalityType
<1> QED BY <1>1, <1>3

\* An insertion adds one to the times of what is inserted, and nothing else.
LEMMA TimesInserted ==
    ASSUME NEW S, NEW list \in Seq(S), NEW e \in S, NEW k \in 1 .. Len(list) + 1, NEW x
    PROVE  Times(InsertAt(list, k, e), x) = Times(list, x) + (IF x = e THEN 1 ELSE 0)
<1> DEFINE n == Len(list)
           new == InsertAt(list, k, e)
           A == {i \in 1 .. n : list[i] = x}
           B == {i \in 1 .. n + 1 : i # k /\ new[i] = x}
           C == {i \in 1 .. n + 1 : new[i] = x}
           f == [i \in A |-> IF i < k THEN i ELSE i + 1]
<1>1. n \in Nat
  BY LenProperties
<1>2. /\ new \in Seq(S) /\ Len(new) = n + 1 /\ new[k] = e
      /\ \A i \in 1 .. k-1 : new[i] = list[i]
      /\ \A i \in k+1 .. n + 1 : new[i] = list[i-1]
  BY InsertAtElements
<1> HIDE DEF new, n
<1>3. IsFiniteSet(A)
  <2>1. IsFiniteSet(1 .. n) /\ A \subseteq 1 .. n
    BY <1>1, 1 \in Int, n \in Int, FS_Interval
  <2> QED BY <2>1, FS_Subset
<1>4. ExistsBijection(A, B)
  <2>0. k \in 1 .. n + 1
    BY DEF n
  <2>1. ASSUME NEW i \in A PROVE f[i] \in B
    <3>1. i \in 1 .. n /\ list[i] = x
      OBVIOUS
    <3>2. CASE i < k
      <4>1. i \in 1 .. k-1 /\ i \in 1 .. n + 1 /\ i # k
        BY <1>1, <2>0, <3>1, <3>2
      <4>2. new[i] = x
        BY <1>2, <3>1, <4>1
      <4> QED BY <3>2, <4>1, <4>2
    <3>3. CASE ~(i < k)
      <4>1. i + 1 \in k+1 .. n + 1 /\ i + 1 \in 1 .. n + 1 /\ i + 1 # k /\ (i + 1) - 1 = i
        BY <1>1, <2>0, <3>1, <3>3
      <4>2. new[i + 1] = x
        BY <1>2, <3>1, <4>1
      <4> QED BY <3>3, <4>1, <4>2
    <3> QED BY <3>2, <3>3
  <2>2. \A i, j \in A : f[i] = f[j] => i = j
    BY <1>1 DEF n
  <2>3. ASSUME NEW j \in B PROVE \E i \in A : f[i] = j
    <3>1. CASE j < k
      <4>1. j \in A
        BY <1>1, <1>2, <3>1 DEF n
      <4> QED BY <3>1, <4>1
    <3>2. CASE ~(j < k)
      <4>1. j - 1 \in A /\ ~(j - 1 < k) /\ (j - 1) + 1 = j
        BY <1>1, <1>2, <3>2 DEF n
      <4> QED BY <4>1
    <3> QED BY <3>1, <3>2
  <2> HIDE DEF A, B
  <2>4. f \in Bijection(A, B)
    BY <2>1, <2>2, <2>3 DEF Bijection, Injection, Surjection, IsInjective
  <2> HIDE DEF f
  <2> QED BY <2>4 DEF ExistsBijection
<1>5. IsFiniteSet(B) /\ Cardinality(B) = Cardinality(A) /\ Cardinality(A) \in Nat
  BY <1>3, <1>4, FS_Bijection, FS_CardinalityType
<1>6. Times(list, x) = Cardinality(A) /\ Times(new, x) = Cardinality(C)
  BY <1>2, TimesIs DEF n
<1>7. C = IF x = e THEN B \cup {k} ELSE B
  BY <1>1, <1>2, k \in 1 .. n + 1 DEF n
<1>8. k \notin B
  OBVIOUS
<1> HIDE DEF A, B, C
<1>9. Cardinality(B \cup {k}) = Cardinality(B) + 1
  BY <1>5, <1>8, FS_AddElement
<1>10. Times(new, x) = Times(list, x) + (IF x = e THEN 1 ELSE 0)
  BY <1>5, <1>6, <1>7, <1>9
<1> QED BY <1>10 DEF new

LEMMA TimesPushed ==
    ASSUME NEW S, NEW list \in Seq(S), NEW e \in S, NEW x
    PROVE  /\ <<e>> \o list \in Seq(S)
           /\ Times(<<e>> \o list, x) = Times(list, x) + (IF x = e THEN 1 ELSE 0)
<1> DEFINE h == <<e>>
           a == h \o list
           b == InsertAt(list, 1, e)
           n == Len(list)
<1>1. n \in Nat /\ 1 \in 1 .. n + 1
  BY LenProperties
<1>2. /\ b \in Seq(S) /\ Len(b) = n + 1 /\ b[1] = e
      /\ \A i \in 1+1 .. n + 1 : b[i] = list[i-1]
  BY <1>1, InsertAtElements
<1>3. h \in Seq(S) /\ Len(h) = 1 /\ h[1] = e
  OBVIOUS
<1> HIDE DEF h, b, n
<1>4. /\ a \in Seq(S) /\ Len(a) = Len(h) + Len(list)
      /\ \A i \in 1 .. Len(h) + Len(list) : a[i] = IF i <= Len(h) THEN h[i] ELSE list[i-Len(h)]
  BY <1>3, ConcatProperties
<1> HIDE DEF a
<1>5. \A i \in 1 .. n + 1 : a[i] = b[i]
  BY <1>1, <1>2, <1>3, <1>4 DEF n
<1>6. a = b
  BY <1>2, <1>3, <1>4, <1>5, <1>1, SeqEqual DEF n
<1>7. Times(b, x) = Times(list, x) + (IF x = e THEN 1 ELSE 0)
  BY <1>1, TimesInserted DEF b, n
<1> QED BY <1>4, <1>6, <1>7 DEF a, h

LEMMA TimesTail ==
    ASSUME NEW S, NEW list \in Seq(S), list # <<>>, NEW x
    PROVE  /\ Head(list) \in S /\ Tail(list) \in Seq(S)
           /\ Times(list, x) = Times(Tail(list), x) + (IF x = Head(list) THEN 1 ELSE 0)
<1>1. Head(list) \in S /\ Tail(list) \in Seq(S) /\ <<Head(list)>> \o Tail(list) = list
  BY HeadThenTail
<1> DEFINE h == Head(list)
           r == Tail(list)
<1> HIDE DEF h, r
<1>2. h \in S /\ r \in Seq(S) /\ <<h>> \o r = list
  BY <1>1 DEF h, r
<1>3. Times(<<h>> \o r, x) = Times(r, x) + (IF x = h THEN 1 ELSE 0)
  BY <1>2, TimesPushed
<1> QED BY <1>2, <1>3 DEF h, r

LEMMA PlaceOfNewIs ==
    ASSUME NEW list \in Seq(Timers), NEW t \in Timers
    PROVE  PlaceOfNew(list, t) \in 1 .. Len(list) + 1
<1> DEFINE S == NotEarlier(list, t)
<1>1. Len(list) \in Nat /\ S \subseteq 1 .. Len(list)
  BY LenProperties DEF NotEarlier
<1>2. CASE S = {} \/ 1 \in S
  BY <1>1, <1>2 DEF PlaceOfNew
<1>3. CASE ~(S = {} \/ 1 \in S)
  <2> DEFINE k == CHOOSE i \in S : \A j \in S : i <= j
  <2>1. S \in SUBSET Nat /\ S # {}
    BY <1>1, <1>3
  <2> HIDE DEF S
  <2>2. k \in S
    BY <2>1, Least
  <2>3. PlaceOfNew(list, t) = k
    BY <1>3 DEF PlaceOfNew, S
  <2> HIDE DEF k
  <2> QED BY <1>1, <2>2, <2>3
<1> QED BY <1>2, <1>3

LEMMA InsertTimerIs ==
    ASSUME NEW list \in Seq(Timers), NEW t \in Timers
    PROVE  /\ InsertTimer(list, t) \in Seq(Timers)
           /\ \A x : Times(InsertTimer(list, t), x) = Times(list, x) + (IF x = t THEN 1 ELSE 0)
<1> DEFINE k == PlaceOfNew(list, t)
<1>1. k \in 1 .. Len(list) + 1
  BY PlaceOfNewIs
<1> HIDE DEF k
<1>2. InsertAt(list, k, t) \in Seq(Timers)
  BY <1>1, InsertAtElements
<1>3. \A x : Times(InsertAt(list, k, t), x) = Times(list, x) + (IF x = t THEN 1 ELSE 0)
  BY <1>1, TimesInserted
<1> QED BY <1>2, <1>3 DEF InsertTimer, k

\* f holds what the list is after each of the first n new entries.
Merges(f, list, new, n) ==
    f[0] = list /\ \A k \in 1 .. n : f[k] = InsertTimer(f[k-1], new[k])

LEMMA MergesExist ==
    ASSUME NEW list \in Seq(Timers), NEW new \in Seq(Timers)
    PROVE  \E f \in [0 .. Len(new) -> Seq(Timers)] : Merges(f, list, new, Len(new))
<1> DEFINE S == {n \in Nat : n <= Len(new) =>
                               \E f \in [0 .. n -> Seq(Timers)] : Merges(f, list, new, n)}
<1>1. 0 \in S
  <2> DEFINE f == [i \in 0 .. 0 |-> list]
  <2>1. f \in [0 .. 0 -> Seq(Timers)] /\ Merges(f, list, new, 0)
    BY DEF Merges
  <2> QED BY <2>1
<1>2. ASSUME NEW n \in Nat, n \in S PROVE n + 1 \in S
  <2> SUFFICES ASSUME n + 1 <= Len(new)
               PROVE  \E f \in [0 .. n + 1 -> Seq(Timers)] : Merges(f, list, new, n + 1)
    OBVIOUS
  <2>1. PICK f \in [0 .. n -> Seq(Timers)] : Merges(f, list, new, n)
    BY <1>2, LenProperties
  <2> DEFINE e == InsertTimer(f[n], new[n + 1])
             g == [k \in 0 .. n + 1 |-> IF k = n + 1 THEN e ELSE f[k]]
  <2>2. e \in Seq(Timers)
    <3>1. n + 1 \in 1 .. Len(new) /\ n \in 0 .. n
      BY LenProperties
    <3>2. new[n + 1] \in Timers /\ f[n] \in Seq(Timers)
      BY <3>1, ElementOfSeq
    <3> QED BY <3>2, InsertTimerIs
  <2> HIDE DEF e
  <2>3. g \in [0 .. n + 1 -> Seq(Timers)]
    BY <2>2
  <2>4. \A k \in 0 .. n : g[k] = f[k]
    OBVIOUS
  <2>5. g[n + 1] = e
    OBVIOUS
  <2> HIDE DEF g
  <2>6. Merges(g, list, new, n + 1)
    <3>1. g[0] = list
      BY <2>1, <2>4 DEF Merges
    <3>2. ASSUME NEW k \in 1 .. n + 1 PROVE g[k] = InsertTimer(g[k-1], new[k])
      <4>1. CASE k = n + 1
        BY <2>4, <2>5, <4>1 DEF e
      <4>2. CASE k # n + 1
        <5>1. k \in 1 .. n /\ k \in 0 .. n /\ k - 1 \in 0 .. n
          BY <4>2
        <5> QED BY <2>1, <2>4, <5>1 DEF Merges
      <4> QED BY <4>1, <4>2
    <3> QED BY <3>1, <3>2 DEF Merges
  <2> QED BY <2>3, <2>6
<1>3. Nat \subseteq S
  <2> HIDE DEF S
  <2> QED BY <1>1, <1>2, Steps
<1> QED BY <1>3, LenProperties

LEMMA MergedIs ==
    ASSUME NEW list \in Seq(Timers), NEW new \in Seq(Timers)
    PROVE  \E f \in [0 .. Len(new) -> Seq(Timers)] :
              Merges(f, list, new, Len(new)) /\ Merged(list, new) = f[Len(new)]
<1> DEFINE n == Len(new)
           F(m) == [k \in 0 .. n |-> IF k = 0 THEN list ELSE InsertTimer(m[k-1], new[k])]
           b == CHOOSE m : m = F(m)
<1>1. n \in Nat
  BY LenProperties
<1>2. PICK f \in [0 .. n -> Seq(Timers)] : Merges(f, list, new, n)
  BY MergesExist
<1>3. f = F(f)
  <2>1. \A k \in 0 .. n : f[k] = IF k = 0 THEN list ELSE InsertTimer(f[k-1], new[k])
    BY <1>2 DEF Merges
  <2>2. f = [k \in 0 .. n |-> f[k]]
    OBVIOUS
  <2> HIDE DEF n
  <2> QED BY <2>1, <2>2
<1>4. b = F(b)
  <2> HIDE DEF F
  <2> QED BY <1>3
<1>5. Merged(list, new) = b[n]
  BY DEF Merged
<1> HIDE DEF b, n
<1>6. b[0] = list /\ \A k \in 1 .. n : b[k] = InsertTimer(b[k-1], new[k])
  BY <1>1, <1>4
<1> DEFINE T == {k \in Nat : k <= n => b[k] = f[k]}
<1>7. Nat \subseteq T
  <2>1. 0 \in T
    BY <1>2, <1>6 DEF Merges
  <2>2. ASSUME NEW k \in Nat, k \in T PROVE k + 1 \in T
    <3> SUFFICES ASSUME k + 1 <= n PROVE b[k + 1] = f[k + 1]
      OBVIOUS
    <3>1. b[k + 1] = InsertTimer(b[(k + 1) - 1], new[k + 1])
          /\ f[k + 1] = InsertTimer(f[(k + 1) - 1], new[k + 1])
      BY <1>1, <1>2, <1>6 DEF Merges
    <3>2. (k + 1) - 1 = k /\ b[k] = f[k]
      BY <1>1, <2>2
    <3> QED BY <3>1, <3>2
  <2> HIDE DEF T
  <2> QED BY <2>1, <2>2, Steps
<1> QED BY <1>1, <1>2, <1>5, <1>7 DEF n

\* Nothing is lost or doubled when the new entries join the list.
LEMMA MergedTimes ==
    ASSUME NEW list \in Seq(Timers), NEW new \in Seq(Timers), NEW x
    PROVE  /\ Merged(list, new) \in Seq(Timers)
           /\ Times(Merged(list, new), x) = Times(list, x) + Times(new, x)
<1> DEFINE n == Len(new)
           A(k) == {i \in 1 .. k : new[i] = x}
<1>1. n \in Nat
  BY LenProperties
<1>2. PICK f \in [0 .. n -> Seq(Timers)] : Merges(f, list, new, n) /\ Merged(list, new) = f[n]
  BY MergedIs
<1> DEFINE S == {k \in Nat : k <= n =>
                    IsFiniteSet(A(k)) /\ Times(f[k], x) = Times(list, x) + Cardinality(A(k))}
<1>3. 0 \in S
  <2>1. A(0) = {}
    OBVIOUS
  <2>2. IsFiniteSet(A(0)) /\ Cardinality(A(0)) = 0
    BY <2>1, FS_EmptySet
  <2>3. f[0] = list /\ Times(list, x) \in Nat
    BY <1>2, TimesIs DEF Merges
  <2> HIDE DEF A
  <2> QED BY <2>2, <2>3
<1>4. ASSUME NEW k \in Nat, k \in S PROVE k + 1 \in S
  <2> SUFFICES ASSUME k + 1 <= n
               PROVE  IsFiniteSet(A(k + 1)) /\ Times(f[k + 1], x) = Times(list, x) + Cardinality(A(k + 1))
    OBVIOUS
  <2>1. k \in 0 .. n /\ k + 1 \in 1 .. n
    BY <1>1
  <2>2. IsFiniteSet(A(k)) /\ Times(f[k], x) = Times(list, x) + Cardinality(A(k))
    BY <1>4, <2>1
  <2>3. A(k + 1) = IF new[k + 1] = x THEN A(k) \cup {k + 1} ELSE A(k)
    OBVIOUS
  <2>4. k + 1 \notin A(k)
    OBVIOUS
  <2>5. new[k + 1] \in Timers /\ f[k] \in Seq(Timers)
    BY <2>1, ElementOfSeq
  <2>6. f[k + 1] = InsertTimer(f[k], new[k + 1])
    <3>1. (k + 1) - 1 = k
      OBVIOUS
    <3>2. f[k + 1] = InsertTimer(f[(k + 1) - 1], new[k + 1])
      BY <1>2, <2>1 DEF Merges
    <3> QED BY <3>1, <3>2
  <2> DEFINE e == new[k + 1]
             before == f[k]
             after == f[k + 1]
             known == A(k)
             more == A(k + 1)
  <2>7. e \in Timers /\ before \in Seq(Timers) /\ after = InsertTimer(before, e)
    BY <2>5, <2>6
  <2>8. /\ IsFiniteSet(known) /\ Times(before, x) = Times(list, x) + Cardinality(known)
        /\ more = (IF e = x THEN known \cup {k + 1} ELSE known) /\ k + 1 \notin known
    BY <2>2, <2>3, <2>4
  <2> HIDE DEF e, before, after, known, more, A
  <2>9. Times(after, x) = Times(before, x) + (IF x = e THEN 1 ELSE 0)
    BY <2>7, InsertTimerIs
  <2>10. /\ IsFiniteSet(known \cup {k + 1}) /\ Cardinality(known) \in Nat
         /\ Cardinality(known \cup {k + 1}) = Cardinality(known) + 1
    BY <2>8, FS_AddElement, FS_CardinalityType
  <2>11. Times(list, x) \in Nat
    BY TimesIs
  <2>12. IsFiniteSet(more) /\ Times(after, x) = Times(list, x) + Cardinality(more)
    BY <2>8, <2>9, <2>10, <2>11
  <2> QED BY <2>12 DEF after, more
<1>5. Nat \subseteq S
  <2> HIDE DEF S
  <2> QED BY <1>3, <1>4, Steps
<1> HIDE DEF A
<1>6. Times(f[n], x) = Times(list, x) + Cardinality(A(n))
  BY <1>1, <1>5
<1>7. Times(new, x) = Cardinality(A(n))
  BY TimesIs DEF A
<1>8. f[n] \in Seq(Timers)
  BY <1>1
<1> HIDE DEF n
<1> QED BY <1>2, <1>6, <1>7, <1>8

TimerTypes ==
    /\ timeout \in [Timers -> Int] /\ calls \in [Timers -> Nat]
    /\ new_timer_list \in Seq(Timers) /\ timer_list \in Seq(Timers)

TimerInv == TimerTypes /\ EachInOnePlace

\* The steps that touch none of the three places.
LEMMA PlacesKept ==
    ASSUME TimerInv, UNCHANGED <<timeout, new_timer_list, timer_list, calls>>
    PROVE  TimerInv'
<1>1. TimerTypes'
  BY DEF TimerInv, TimerTypes
<1>2. EachInOnePlace'
  BY DEF TimerInv, EachInOnePlace, Times
<1> QED BY <1>1, <1>2 DEF TimerInv

LEMMA ScheduleTimerKeeps ==
    ASSUME TimerInv, NEW t \in Timers, NEW at \in 0 .. MaxTime - 1, co_timer_schedule(t, at)
    PROVE  TimerInv'
<1>1. /\ timeout[t] = -1 /\ timeout' = [timeout EXCEPT ![t] = at]
      /\ new_timer_list' = <<t>> \o new_timer_list /\ UNCHANGED <<timer_list, calls>>
  BY DEF co_timer_schedule
<1>2. at \in Int /\ at # -1
  BY TimerAssumption
<1>3. /\ timeout \in [Timers -> Int] /\ calls \in [Timers -> Nat]
      /\ new_timer_list \in Seq(Timers) /\ timer_list \in Seq(Timers)
  BY DEF TimerInv, TimerTypes
<1>4. new_timer_list' \in Seq(Timers)
  BY <1>1, <1>3, TimesPushed
<1>5. TimerTypes'
  BY <1>1, <1>2, <1>3, <1>4 DEF TimerTypes
<1>6. ASSUME NEW u \in Timers
      PROVE  Times(new_timer_list, u)' + Times(timer_list, u)' + calls'[u] =
                IF timeout'[u] = -1 THEN 0 ELSE 1
  <2>1. Times(new_timer_list, u)' = Times(new_timer_list, u) + (IF u = t THEN 1 ELSE 0)
    <3>1. Times(<<t>> \o new_timer_list, u) = Times(new_timer_list, u) + (IF u = t THEN 1 ELSE 0)
      BY <1>3, TimesPushed
    <3>2. Times(new_timer_list, u)' = Times(<<t>> \o new_timer_list, u)
      BY <1>1 DEF Times
    <3> QED BY <3>1, <3>2
  <2>2. Times(timer_list, u)' = Times(timer_list, u) /\ calls'[u] = calls[u]
    BY <1>1 DEF Times
  <2>3. Times(new_timer_list, u) + Times(timer_list, u) + calls[u] =
          IF timeout[u] = -1 THEN 0 ELSE 1
    BY DEF TimerInv, EachInOnePlace
  <2>4. timeout'[u] = IF u = t THEN at ELSE timeout[u]
    BY <1>1, <1>3
  <2>5. Times(new_timer_list, u) \in Nat /\ Times(timer_list, u) \in Nat /\ calls[u] \in Nat
    BY <1>3, TimesIs
  <2> QED BY <1>1, <1>2, <2>1, <2>2, <2>3, <2>4, <2>5
<1>7. EachInOnePlace'
  BY <1>6 DEF EachInOnePlace
<1> QED BY <1>5, <1>7 DEF TimerInv

LEMMA EmitKeeps ==
    ASSUME TimerInv, emit_timeout
    PROVE  TimerInv'
<1> DEFINE h == Head(timer_list)
<1>1. /\ timer_list # <<>> /\ calls' = [calls EXCEPT ![h] = @ + 1]
      /\ timer_list' = Tail(timer_list) /\ UNCHANGED <<timeout, new_timer_list>>
  BY DEF emit_timeout, Due
<1>2. /\ timeout \in [Timers -> Int] /\ calls \in [Timers -> Nat]
      /\ new_timer_list \in Seq(Timers) /\ timer_list \in Seq(Timers)
  BY DEF TimerInv, TimerTypes
<1>3. h \in Timers /\ Tail(timer_list) \in Seq(Timers)
  BY <1>1, <1>2, TimesTail
<1> HIDE DEF h
<1>4. calls' \in [Timers -> Nat]
  BY <1>1, <1>2, <1>3
<1>5. TimerTypes'
  BY <1>1, <1>2, <1>3, <1>4 DEF TimerTypes
<1>6. ASSUME NEW u \in Timers
      PROVE  Times(new_timer_list, u)' + Times(timer_list, u)' + calls'[u] =
                IF timeout'[u] = -1 THEN 0 ELSE 1
  <2>1. /\ Times(timer_list, u) = Times(Tail(timer_list), u) + (IF u = h THEN 1 ELSE 0)
        /\ Times(Tail(timer_list), u) \in Nat
    BY <1>1, <1>2, <1>3, TimesTail, TimesIs DEF h
  <2>2. Times(timer_list, u)' = Times(Tail(timer_list), u)
    BY <1>1 DEF Times
  <2>3. calls'[u] = IF u = h THEN calls[u] + 1 ELSE calls[u]
    BY <1>1, <1>2, <1>3
  <2>4. Times(new_timer_list, u) + Times(timer_list, u) + calls[u] =
          IF timeout[u] = -1 THEN 0 ELSE 1
    BY DEF TimerInv, EachInOnePlace
  <2>5. Times(new_timer_list, u) \in Nat /\ calls[u] \in Nat
    BY <1>2, TimesIs
  <2>6. Times(new_timer_list, u)' = Times(new_timer_list, u) /\ timeout'[u] = timeout[u]
    BY <1>1 DEF Times
  <2> QED BY <2>1, <2>2, <2>3, <2>4, <2>5, <2>6
<1>7. EachInOnePlace'
  BY <1>6 DEF EachInOnePlace
<1> QED BY <1>5, <1>7 DEF TimerInv

LEMMA HandleNewKeeps ==
    ASSUME TimerInv, co_timer_handle_new_timer
    PROVE  TimerInv'
<1> DEFINE all == Merged(timer_list, new_timer_list)
<1>1. /\ timer_list' = all /\ new_timer_list' = <<>> /\ UNCHANGED <<timeout, calls>>
  BY DEF co_timer_handle_new_timer
<1>2. /\ timeout \in [Timers -> Int] /\ calls \in [Timers -> Nat]
      /\ new_timer_list \in Seq(Timers) /\ timer_list \in Seq(Timers)
  BY DEF TimerInv, TimerTypes
<1>3. /\ all \in Seq(Timers)
      /\ \A u : Times(all, u) = Times(timer_list, u) + Times(new_timer_list, u)
  BY <1>2, MergedTimes
<1> HIDE DEF all
<1>4. <<>> \in Seq(Timers)
  BY EmptySeq
<1>5. TimerTypes'
  BY <1>1, <1>2, <1>3, <1>4 DEF TimerTypes
<1>6. ASSUME NEW u \in Timers
      PROVE  Times(new_timer_list, u)' + Times(timer_list, u)' + calls'[u] =
                IF timeout'[u] = -1 THEN 0 ELSE 1
  <2>1. Times(timer_list, u)' = Times(timer_list, u) + Times(new_timer_list, u)
    <3>1. Times(timer_list, u)' = Times(all, u)
      BY <1>1 DEF Times
    <3> QED BY <1>3, <3>1
  <2>2. Times(new_timer_list, u)' = 0
    <3>1. {i \in DOMAIN <<>> : <<>>[i] = u} = {}
      OBVIOUS
    <3>2. Times(<<>>, u) = 0
      BY <3>1, FS_EmptySet DEF Times
    <3> QED BY <1>1, <3>2 DEF Times
  <2>3. Times(new_timer_list, u) + Times(timer_list, u) + calls[u] =
          IF timeout[u] = -1 THEN 0 ELSE 1
    BY DEF TimerInv, EachInOnePlace
  <2>4. Times(new_timer_list, u) \in Nat /\ Times(timer_list, u) \in Nat /\ calls[u] \in Nat
    BY <1>2, TimesIs
  <2>5. calls'[u] = calls[u] /\ timeout'[u] = timeout[u]
    BY <1>1
  <2> QED BY <2>1, <2>2, <2>3, <2>4, <2>5
<1>7. EachInOnePlace'
  BY <1>6 DEF EachInOnePlace
<1> QED BY <1>5, <1>7 DEF TimerInv

(* No timer is dropped between the two lists of the service or called back *)
(* twice, for any number of timers and callers: each that was scheduled is *)
(* new, in the list or called back, and is there once.  That it is called  *)
(* back in the end is left to the model checker.                           *)
THEOREM TimersInOnePlace == TimerSpec => []EachInOnePlace
<1>1. TimerInit => TimerInv
  <2> SUFFICES ASSUME TimerInit PROVE TimerInv
    OBVIOUS
  <2>1. <<>> \in Seq(Timers)
    BY EmptySeq
  <2>2. TimerTypes
    BY <2>1 DEF TimerInit, TimerTypes
  <2>3. \A u : Times(<<>>, u) = 0
    <3>1. \A u : {i \in DOMAIN <<>> : <<>>[i] = u} = {}
      OBVIOUS
    <3> QED BY <3>1, FS_EmptySet DEF Times
  <2>4. EachInOnePlace
    BY <2>3 DEF TimerInit, EachInOnePlace
  <2> QED BY <2>2, <2>4 DEF TimerInv
<1>2. TimerInv /\ [TimerNext]_timerVars => TimerInv'
  <2> SUFFICES ASSUME TimerInv, [TimerNext]_timerVars PROVE TimerInv'
    OBVIOUS
  <2>1. CASE Client
    BY <2>1, ScheduleTimerKeeps DEF Client
  <2>2. CASE emit_timeout
    BY <2>2, EmitKeeps
  <2>3. CASE co_timer_handle_new_timer
    BY <2>3, HandleNewKeeps
  <2>4. CASE \/ Tick \/ TimerSpuriousWakeup \/ ReadClock \/ EmitDone \/ Check
             \/ TimedOut \/ LookAgain \/ UNCHANGED timerVars
    <3>1. UNCHANGED <<timeout, new_timer_list, timer_list, calls>>
      BY <2>4 DEF Tick, TimerSpuriousWakeup, ReadClock, EmitDone, Check, TimedOut, LookAgain,
                  timerVars
    <3> QED BY <3>1, PlacesKept
  <2> QED BY <2>1, <2>2, <2>3, <2>4 DEF TimerNext, co_timer_mainloop
<1>3. TimerInv => EachInOnePlace
  BY DEF TimerInv
<1> QED BY <1>1, <1>2, <1>3, PTL DEF TimerSpec
=============================================================================
