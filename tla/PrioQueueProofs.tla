--------------------------- MODULE PrioQueueProofs ---------------------------
(***************************************************************************)
(* Facts about the queue operators of PrioQueue, for every set of threads: *)
(* each of them yields a queue again, changes the set of queued threads by *)
(* exactly the thread it is called for, and queues no thread twice.        *)
(***************************************************************************)
EXTENDS PrioQueue, SequenceTheorems, FiniteSetTheorems, TLAPS

\* The place of an insertion is one of the Len(q) + 1 gaps of the queue.
LEMMA PlaceInRange ==
    ASSUME NEW Th, NEW q \in Seq(Entry(Th)), NEW p \in Int
    PROVE  Place(q, p) \in 1 .. Len(q) + 1
<1> DEFINE ahead == {i \in DOMAIN q : q[i].pr >= p}
<1>1. DOMAIN q = 1 .. Len(q) /\ Len(q) \in Nat
  BY LenProperties
<1>2. IsFiniteSet(1 .. Len(q)) /\ Cardinality(1 .. Len(q)) = Len(q)
  <2>1. /\ IsFiniteSet(1 .. Len(q))
        /\ Cardinality(1 .. Len(q)) = IF 1 > Len(q) THEN 0 ELSE Len(q) - 1 + 1
    BY <1>1, FS_Interval
  <2> QED BY <1>1, <2>1
<1>3. ahead \subseteq 1 .. Len(q)
  BY <1>1
<1>4. IsFiniteSet(ahead) /\ Cardinality(ahead) <= Len(q)
  BY <1>2, <1>3, FS_Subset
<1>5. Cardinality(ahead) \in Nat
  BY <1>4, FS_CardinalityType
<1> QED
  BY <1>1, <1>4, <1>5 DEF Place

\* The elements of a concatenation of known length n, split after m.
LEMMA ConcatAt ==
    ASSUME NEW S, NEW a \in Seq(S), NEW b \in Seq(S), NEW m \in Nat, NEW n \in Nat,
           Len(a) = m, Len(a) + Len(b) = n
    PROVE  /\ a \o b \in Seq(S)
           /\ Len(a \o b) = n
           /\ \A i \in 1 .. m : (a \o b)[i] = a[i]
           /\ \A i \in m+1 .. n : (a \o b)[i] = b[i-m]
<1>1. /\ a \o b \in Seq(S)
      /\ Len(a \o b) = n
      /\ \A i \in 1 .. n : (a \o b)[i] = IF i <= m THEN a[i] ELSE b[i-m]
  BY ConcatProperties
<1>2. Len(b) \in Nat
  BY LenProperties
<1> QED BY <1>1, <1>2

\* Inserting at a gap, element by element.
LEMMA InsertAtElements ==
    ASSUME NEW S, NEW q \in Seq(S), NEW e \in S, NEW k \in 1 .. Len(q) + 1
    PROVE  /\ InsertAt(q, k, e) \in Seq(S)
           /\ Len(InsertAt(q, k, e)) = Len(q) + 1
           /\ \A i \in 1 .. k-1 : InsertAt(q, k, e)[i] = q[i]
           /\ InsertAt(q, k, e)[k] = e
           /\ \A i \in k+1 .. Len(q) + 1 : InsertAt(q, k, e)[i] = q[i-1]
<1> DEFINE n == Len(q)
           a == SubSeq(q, 1, k-1)
           b == SubSeq(q, k, n)
           x == <<e>>
           ae == a \o x
<1>1. n \in Nat /\ \A i \in 1 .. n : q[i] \in S
  BY LenProperties, ElementOfSeq
<1>2. a \in Seq(S) /\ Len(a) = k-1 /\ \A i \in 1 .. k-1 : a[i] = q[i]
  BY <1>1, SubSeqProperties
<1>3. b \in Seq(S) /\ Len(b) = n-k+1 /\ \A i \in 1 .. n-k+1 : b[i] = q[k+i-1]
  BY <1>1, SubSeqProperties
<1>4. InsertAt(q, k, e) = ae \o b
  BY DEF InsertAt
<1>5. k \in 1 .. n+1
  OBVIOUS
<1> HIDE DEF a, b, n
<1>6. x \in Seq(S) /\ Len(x) = 1 /\ x[1] = e
  OBVIOUS
<1> HIDE DEF x
<1>7. /\ ae \in Seq(S) /\ Len(ae) = k
      /\ \A i \in 1 .. k-1 : ae[i] = a[i]
      /\ \A i \in k-1+1 .. k : ae[i] = x[i-(k-1)]
  <2>1. k-1 \in Nat /\ k \in Nat /\ Len(a) + Len(x) = k
    BY <1>1, <1>2, <1>5, <1>6
  <2>2. Len(a) = k-1 /\ a \in Seq(S) /\ x \in Seq(S)
    BY <1>2, <1>6
  <2> QED BY <2>1, <2>2, ConcatAt
<1>8. /\ \A i \in 1 .. k-1 : ae[i] = q[i]
      /\ ae[k] = e
  BY <1>1, <1>2, <1>5, <1>6, <1>7
<1> HIDE DEF ae
<1>9. /\ ae \o b \in Seq(S) /\ Len(ae \o b) = n+1
      /\ \A i \in 1 .. k : (ae \o b)[i] = ae[i]
      /\ \A i \in k+1 .. n+1 : (ae \o b)[i] = b[i-k]
  <2>1. k \in Nat /\ n+1 \in Nat /\ Len(ae) + Len(b) = n+1
    BY <1>1, <1>3, <1>5, <1>7
  <2>2. Len(ae) = k /\ ae \in Seq(S) /\ b \in Seq(S)
    BY <1>3, <1>7
  <2> QED BY <2>1, <2>2, ConcatAt
<1>10. \A i \in k+1 .. n+1 : b[i-k] = q[i-1]
  <2> SUFFICES ASSUME NEW i \in k+1 .. n+1 PROVE b[i-k] = q[i-1]
    OBVIOUS
  <2>1. i-k \in 1 .. n-k+1 /\ k+(i-k)-1 = i-1
    BY <1>1, <1>5
  <2> QED BY <1>3, <2>1
<1>11. /\ \A i \in 1 .. k-1 : (ae \o b)[i] = q[i]
       /\ (ae \o b)[k] = e
  BY <1>1, <1>5, <1>8, <1>9
<1> QED
  BY <1>4, <1>9, <1>10, <1>11 DEF n

\* Removing at a place, element by element.
LEMMA RemoveAtElements ==
    ASSUME NEW S, NEW q \in Seq(S), NEW k \in 1 .. Len(q)
    PROVE  /\ RemoveAt(q, k) \in Seq(S)
           /\ Len(RemoveAt(q, k)) = Len(q) - 1
           /\ \A i \in 1 .. k-1 : RemoveAt(q, k)[i] = q[i]
           /\ \A i \in k .. Len(q) - 1 : RemoveAt(q, k)[i] = q[i+1]
<1> DEFINE n == Len(q)
           a == SubSeq(q, 1, k-1)
           b == SubSeq(q, k+1, n)
<1>1. n \in Nat /\ \A i \in 1 .. n : q[i] \in S
  BY LenProperties, ElementOfSeq
<1>2. a \in Seq(S) /\ Len(a) = k-1 /\ \A i \in 1 .. k-1 : a[i] = q[i]
  BY <1>1, SubSeqProperties
<1>3. b \in Seq(S) /\ Len(b) = n-k /\ \A i \in 1 .. n-k : b[i] = q[k+i]
  <2>1. /\ b \in Seq(S)
        /\ Len(b) = IF k+1 <= n THEN n-(k+1)+1 ELSE 0
        /\ \A i \in 1 .. n-(k+1)+1 : b[i] = q[k+1+i-1]
    BY <1>1, SubSeqProperties
  <2>2. ASSUME NEW i \in 1 .. n-k PROVE b[i] = q[k+i]
    <3>1. i \in 1 .. n-(k+1)+1 /\ k+1+i-1 = k+i
      BY <1>1
    <3> QED BY <2>1, <3>1
  <2> QED BY <1>1, <2>1, <2>2
<1>4. RemoveAt(q, k) = a \o b
  BY DEF RemoveAt
<1>5. k \in 1 .. n
  OBVIOUS
<1> HIDE DEF a, b, n
<1>6. /\ a \o b \in Seq(S) /\ Len(a \o b) = n-1
      /\ \A i \in 1 .. k-1 : (a \o b)[i] = a[i]
      /\ \A i \in (k-1)+1 .. n-1 : (a \o b)[i] = b[i-(k-1)]
  <2>1. k-1 \in Nat /\ n-1 \in Nat /\ Len(a) + Len(b) = n-1
    BY <1>1, <1>2, <1>3, <1>5
  <2>2. Len(a) = k-1 /\ a \in Seq(S) /\ b \in Seq(S)
    BY <1>2, <1>3
  <2> QED BY <2>1, <2>2, ConcatAt
<1>7. \A i \in k .. n-1 : (a \o b)[i] = q[i+1]
  <2> SUFFICES ASSUME NEW i \in k .. n-1 PROVE (a \o b)[i] = q[i+1]
    OBVIOUS
  <2>1. i-(k-1) \in 1 .. n-k /\ k+(i-(k-1)) = i+1 /\ i \in (k-1)+1 .. n-1
    BY <1>1, <1>5
  <2> QED BY <1>3, <1>6, <2>1
<1> QED
  BY <1>2, <1>4, <1>6, <1>7 DEF n

\* Inserting queues the thread and nothing else.
LEMMA InsertProps ==
    ASSUME NEW Th, NEW q \in Seq(Entry(Th)), NEW t \in Th, NEW p \in Int
    PROVE  /\ Insert(q, p, t) \in Seq(Entry(Th))
           /\ Members(Insert(q, p, t)) = Members(q) \cup {t}
           /\ Distinct(q) /\ t \notin Members(q) => Distinct(Insert(q, p, t))
           /\ Insert(q, p, t) # <<>>
<1> DEFINE k == Place(q, p)
           e == [th |-> t, pr |-> p]
           r == Insert(q, p, t)
<1>1. Len(q) \in Nat /\ k \in 1 .. Len(q) + 1 /\ e \in Entry(Th)
  BY PlaceInRange, LenProperties DEF Entry
<1>2. r = InsertAt(q, k, e)
  BY DEF Insert
<1> HIDE DEF k, e, r
<1>3. /\ r \in Seq(Entry(Th))
      /\ Len(r) = Len(q) + 1
      /\ \A i \in 1 .. k-1 : r[i] = q[i]
      /\ r[k] = e
      /\ \A i \in k+1 .. Len(q) + 1 : r[i] = q[i-1]
  <2> HIDE DEF k
  <2>1. InsertAt(q, k, e) \in Seq(Entry(Th))
    BY <1>1, InsertAtElements
  <2>2. Len(InsertAt(q, k, e)) = Len(q) + 1
    BY <1>1, InsertAtElements
  <2>3. \A i \in 1 .. k-1 : InsertAt(q, k, e)[i] = q[i]
    BY <1>1, InsertAtElements
  <2>4. InsertAt(q, k, e)[k] = e
    BY <1>1, InsertAtElements
  <2>5. \A i \in k+1 .. Len(q) + 1 : InsertAt(q, k, e)[i] = q[i-1]
    BY <1>1, InsertAtElements
  <2> QED BY <1>2, <2>1, <2>2, <2>3, <2>4, <2>5
<1>4. DOMAIN r = 1 .. Len(q) + 1 /\ DOMAIN q = 1 .. Len(q)
  BY <1>1, <1>3, LenProperties
<1>5. e.th = t
  BY DEF e
<1>6. Members(r) \subseteq Members(q) \cup {t}
  <2> SUFFICES ASSUME NEW i \in 1 .. Len(q) + 1
               PROVE  r[i].th \in Members(q) \cup {t}
    BY <1>4 DEF Members
  <2>1. CASE i < k
    BY <1>1, <1>3, <1>4, <2>1 DEF Members
  <2>2. CASE i = k
    BY <1>1, <1>3, <1>5, <2>2
  <2>3. CASE i > k
    <3>1. i-1 \in 1 .. Len(q) /\ i \in k+1 .. Len(q) + 1
      BY <1>1, <2>3
    <3>2. r[i] = q[i-1]
      BY <1>3, <3>1
    <3> QED BY <1>4, <3>1, <3>2 DEF Members
  <2> QED BY <1>1, <2>1, <2>2, <2>3
<1>7. Members(q) \cup {t} \subseteq Members(r)
  <2>1. t \in Members(r)
    BY <1>1, <1>3, <1>4, <1>5 DEF Members
  <2>2. ASSUME NEW i \in 1 .. Len(q) PROVE q[i].th \in Members(r)
    <3>1. CASE i < k
      BY <1>1, <1>3, <1>4, <3>1 DEF Members
    <3>2. CASE i >= k
      <4>1. i+1 \in k+1 .. Len(q) + 1 /\ (i+1)-1 = i
        BY <1>1, <3>2
      <4>2. r[i+1] = q[i]
        BY <1>3, <4>1
      <4>3. i+1 \in 1 .. Len(q) + 1
        BY <1>1
      <4> QED BY <1>4, <4>2, <4>3 DEF Members
    <3> QED BY <1>1, <3>1, <3>2
  <2> QED BY <1>4, <2>1, <2>2 DEF Members
<1>8. ASSUME Distinct(q), t \notin Members(q) PROVE Distinct(r)
  <2> DEFINE Origin(i) == IF i < k THEN i ELSE i - 1
  <2>1. ASSUME NEW i \in 1 .. Len(q) + 1, i # k
        PROVE  Origin(i) \in 1 .. Len(q) /\ r[i] = q[Origin(i)] /\ r[i].th # t
    <3>1. Origin(i) \in 1 .. Len(q) /\ r[i] = q[Origin(i)]
      <4>1. i \in 1 .. k-1 \/ i \in k+1 .. Len(q) + 1
        BY <1>1, <2>1
      <4> QED BY <1>1, <1>3, <4>1
    <3> QED BY <1>4, <1>8, <3>1 DEF Members
  <2>2. \A i, j \in 1 .. Len(q) : q[i].th = q[j].th => i = j
    BY <1>4, <1>8 DEF Distinct
  <2>3. r[k].th = t
    BY <1>1, <1>3, <1>5
  <2> SUFFICES ASSUME NEW i \in 1 .. Len(q) + 1, NEW j \in 1 .. Len(q) + 1,
                      r[i].th = r[j].th
               PROVE  i = j
    BY <1>4 DEF Distinct
  <2>4. CASE i = k \/ j = k
    BY <2>1, <2>3, <2>4
  <2>5. CASE i # k /\ j # k
    <3>1. Origin(i) = Origin(j)
      <4> HIDE DEF Origin
      <4> QED BY <2>1, <2>2, <2>5
    <3> QED BY <1>1, <2>5, <3>1
  <2> QED BY <2>4, <2>5
<1>9. r # <<>>
  BY <1>1, <1>3
<1> QED
  BY <1>3, <1>6, <1>7, <1>8, <1>9 DEF r

\* A queue is empty exactly if it queues nobody; its ends are members.
LEMMA EndsAreMembers ==
    ASSUME NEW Th, NEW q \in Seq(Entry(Th)), q # <<>>
    PROVE  /\ q[1].th \in Members(q) /\ q[1].th \in Th
           /\ q[Len(q)].th \in Members(q) /\ q[Len(q)].th \in Th
<1>1. Len(q) \in Nat \ {0} /\ DOMAIN q = 1 .. Len(q)
  BY LenProperties, EmptySeq
<1>2. \A i \in 1 .. Len(q) : q[i] \in Entry(Th)
  BY ElementOfSeq
<1>3. 1 \in 1 .. Len(q) /\ Len(q) \in 1 .. Len(q)
  BY <1>1
<1> QED
  BY <1>1, <1>2, <1>3 DEF Members, Entry

\* Only threads are queued.
LEMMA MembersAreThreads ==
    ASSUME NEW Th, NEW q \in Seq(Entry(Th))
    PROVE  Members(q) \subseteq Th
<1>1. DOMAIN q = 1 .. Len(q) /\ \A i \in 1 .. Len(q) : q[i] \in Entry(Th)
  BY LenProperties, ElementOfSeq
<1> QED
  BY <1>1 DEF Members, Entry

\* Removing the entry at a place removes its thread and nothing else.
LEMMA RemoveAtProps ==
    ASSUME NEW Th, NEW q \in Seq(Entry(Th)), NEW k \in 1 .. Len(q), Distinct(q)
    PROVE  /\ RemoveAt(q, k) \in Seq(Entry(Th))
           /\ Len(RemoveAt(q, k)) = Len(q) - 1
           /\ Members(RemoveAt(q, k)) = Members(q) \ {q[k].th}
           /\ Distinct(RemoveAt(q, k))
<1> DEFINE r == RemoveAt(q, k)
           Origin(i) == IF i < k THEN i ELSE i + 1
<1>1. Len(q) \in Nat /\ DOMAIN q = 1 .. Len(q)
  BY LenProperties
<1>2. r \in Seq(Entry(Th))
  BY RemoveAtElements
<1>3. Len(r) = Len(q) - 1
  BY RemoveAtElements
<1>4. \A i \in 1 .. k-1 : r[i] = q[i]
  BY RemoveAtElements
<1>5. \A i \in k .. Len(q) - 1 : r[i] = q[i+1]
  BY RemoveAtElements
<1> HIDE DEF r
<1>6. DOMAIN r = 1 .. Len(q) - 1
  BY <1>2, <1>3, LenProperties
<1>7. \A i, j \in 1 .. Len(q) : q[i].th = q[j].th => i = j
  BY <1>1 DEF Distinct
<1>8. ASSUME NEW i \in 1 .. Len(q) - 1
      PROVE  Origin(i) \in 1 .. Len(q) /\ Origin(i) # k /\ r[i] = q[Origin(i)]
  <2>1. CASE i < k
    <3>1. i \in 1 .. k-1
      BY <1>1, <2>1
    <3> QED BY <1>1, <1>4, <2>1, <3>1
  <2>2. CASE i >= k
    <3>1. i \in k .. Len(q) - 1
      BY <1>1, <2>2
    <3> QED BY <1>1, <1>5, <2>2, <3>1
  <2> QED BY <1>1, <2>1, <2>2
<1>9. ASSUME NEW i \in 1 .. Len(q), i # k
      PROVE  \E j \in 1 .. Len(q) - 1 : r[j] = q[i]
  <2>1. CASE i < k
    <3>1. i \in 1 .. k-1 /\ i \in 1 .. Len(q) - 1
      BY <1>1, <2>1
    <3> QED BY <1>4, <3>1
  <2>2. CASE i > k
    <3>1. i-1 \in k .. Len(q) - 1 /\ (i-1)+1 = i /\ i-1 \in 1 .. Len(q) - 1
      BY <1>1, <2>2
    <3> QED BY <1>5, <3>1
  <2> QED BY <1>1, <1>9, <2>1, <2>2
<1>10. Members(r) \subseteq Members(q) \ {q[k].th}
  <2> HIDE DEF Origin
  <2> SUFFICES ASSUME NEW i \in 1 .. Len(q) - 1
               PROVE  r[i].th \in Members(q) /\ r[i].th # q[k].th
    BY <1>6 DEF Members
  <2>1. Origin(i) \in 1 .. Len(q) /\ Origin(i) # k /\ r[i] = q[Origin(i)]
    BY <1>8
  <2> QED BY <1>1, <1>7, <2>1 DEF Members
<1>11. Members(q) \ {q[k].th} \subseteq Members(r)
  <2> SUFFICES ASSUME NEW i \in 1 .. Len(q), q[i].th # q[k].th
               PROVE  q[i].th \in Members(r)
    BY <1>1 DEF Members
  <2>1. i # k
    OBVIOUS
  <2>2. PICK j \in 1 .. Len(q) - 1 : r[j] = q[i]
    BY <1>9, <2>1
  <2> QED BY <1>6, <2>2 DEF Members
<1>12. Distinct(r)
  <2> SUFFICES ASSUME NEW i \in 1 .. Len(q) - 1, NEW j \in 1 .. Len(q) - 1,
                      r[i].th = r[j].th
               PROVE  i = j
    BY <1>6 DEF Distinct
  <2>1. Origin(i) = Origin(j)
    <3> HIDE DEF Origin
    <3>1. Origin(i) \in 1 .. Len(q) /\ r[i] = q[Origin(i)]
      BY <1>8
    <3>2. Origin(j) \in 1 .. Len(q) /\ r[j] = q[Origin(j)]
      BY <1>8
    <3> QED BY <1>7, <3>1, <3>2
  <2> QED BY <1>1, <2>1
<1> QED
  BY <1>2, <1>3, <1>10, <1>11, <1>12 DEF r

\* Deleting a member.
LEMMA DeleteProps ==
    ASSUME NEW Th, NEW q \in Seq(Entry(Th)), NEW t \in Members(q), Distinct(q)
    PROVE  /\ Delete(q, t) \in Seq(Entry(Th))
           /\ Len(Delete(q, t)) = Len(q) - 1
           /\ Members(Delete(q, t)) = Members(q) \ {t}
           /\ Distinct(Delete(q, t))
<1> DEFINE k == Position(q, t)
<1>1. \E i \in DOMAIN q : q[i].th = t
  BY DEF Members
<1>2. k \in DOMAIN q /\ q[k].th = t
  BY <1>1 DEF Position
<1>3. DOMAIN q = 1 .. Len(q)
  BY LenProperties
<1>4. Delete(q, t) = RemoveAt(q, k)
  BY DEF Delete
<1> HIDE DEF k
<1>5. k \in 1 .. Len(q)
  BY <1>2, <1>3
<1>6. /\ RemoveAt(q, k) \in Seq(Entry(Th))
      /\ Len(RemoveAt(q, k)) = Len(q) - 1
  BY <1>5, RemoveAtProps
<1>7. Members(RemoveAt(q, k)) = Members(q) \ {q[k].th}
  BY <1>5, RemoveAtProps
<1>8. Distinct(RemoveAt(q, k))
  BY <1>5, RemoveAtProps
<1> QED
  BY <1>2, <1>4, <1>6, <1>7, <1>8

\* Taking the maximum off the front.
LEMMA TailProps ==
    ASSUME NEW Th, NEW q \in Seq(Entry(Th)), q # <<>>, Distinct(q)
    PROVE  /\ Tail(q) \in Seq(Entry(Th))
           /\ Members(Tail(q)) = Members(q) \ {q[1].th}
           /\ Distinct(Tail(q))
<1>1. Len(q) \in Nat \ {0} /\ DOMAIN q = 1 .. Len(q)
  BY LenProperties, EmptySeq
<1>2. /\ Tail(q) \in Seq(Entry(Th))
      /\ Len(Tail(q)) = Len(q) - 1
      /\ \A i \in 1 .. Len(q) - 1 : Tail(q)[i] = q[i+1]
  BY HeadTailProperties
<1>3. DOMAIN Tail(q) = 1 .. Len(q) - 1
  BY <1>2, LenProperties
<1> DEFINE r == Tail(q)
<1> HIDE DEF r
<1>4. /\ DOMAIN r = 1 .. Len(q) - 1
      /\ \A i \in 1 .. Len(q) - 1 : r[i] = q[i+1]
  BY <1>2, <1>3 DEF r
<1>5. \A i, j \in 1 .. Len(q) : q[i].th = q[j].th => i = j
  BY <1>1 DEF Distinct
<1>6. Members(r) \subseteq Members(q) \ {q[1].th}
  <2> SUFFICES ASSUME NEW i \in 1 .. Len(q) - 1
               PROVE  r[i].th \in Members(q) /\ r[i].th # q[1].th
    BY <1>4 DEF Members
  <2>1. i+1 \in 1 .. Len(q) /\ 1 \in 1 .. Len(q) /\ i+1 # 1 /\ r[i] = q[i+1]
    BY <1>1, <1>4
  <2> QED BY <1>1, <1>5, <2>1 DEF Members
<1>7. Members(q) \ {q[1].th} \subseteq Members(r)
  <2> SUFFICES ASSUME NEW i \in 1 .. Len(q), q[i].th # q[1].th
               PROVE  q[i].th \in Members(r)
    BY <1>1 DEF Members
  <2>1. i # 1
    OBVIOUS
  <2>2. i-1 \in 1 .. Len(q) - 1 /\ (i-1)+1 = i
    BY <1>1, <2>1
  <2>3. r[i-1] = q[i]
    BY <1>4, <2>2
  <2> QED BY <1>4, <2>2, <2>3 DEF Members
<1>8. Distinct(r)
  <2> SUFFICES ASSUME NEW i \in 1 .. Len(q) - 1, NEW j \in 1 .. Len(q) - 1,
                      r[i].th = r[j].th
               PROVE  i = j
    BY <1>4 DEF Distinct
  <2>1. i+1 \in 1 .. Len(q) /\ j+1 \in 1 .. Len(q)
    BY <1>1
  <2>2. i+1 = j+1
    BY <1>4, <1>5, <2>1
  <2> QED BY <1>1, <2>2
<1> QED
  BY <1>2, <1>6, <1>7, <1>8 DEF r

\* Saturation yields a priority.
LEMMA ClampType ==
    ASSUME NEW p \in Int
    PROVE  Clamp(p) \in Int
BY PrioCapAssumption DEF Clamp

\* Favouring a thread that is not queued puts it in front.
LEMMA PushFavoriteProps ==
    ASSUME NEW Th, NEW q \in Seq(Entry(Th)), NEW t \in Th
    PROVE  /\ PushFavorite(q, t) \in Seq(Entry(Th))
           /\ Members(PushFavorite(q, t)) = Members(q) \cup {t}
           /\ Distinct(q) /\ t \notin Members(q) => Distinct(PushFavorite(q, t))
           /\ PushFavorite(q, t) # <<>>
<1>1. Len(q) \in Nat /\ DOMAIN q = 1 .. Len(q)
  BY LenProperties
<1>2. FavoritePrio(q) \in Int
  <2>1. CASE q = <<>>
    BY <2>1, PrioCapAssumption DEF FavoritePrio
  <2>2. CASE q # <<>>
    <3>1. 1 \in 1 .. Len(q)
      BY <1>1, <2>2, EmptySeq
    <3>2. q[1] \in Entry(Th)
      BY <3>1, ElementOfSeq
    <3>3. q[1].pr + 1 \in Int
      BY <3>2 DEF Entry
    <3> QED BY <2>2, <3>3, ClampType DEF FavoritePrio
  <2> QED BY <2>1, <2>2
<1> DEFINE e == [th |-> t, pr |-> FavoritePrio(q)]
           r == PushFavorite(q, t)
           x == <<e>>
<1>3. e \in Entry(Th) /\ e.th = t
  BY <1>2 DEF Entry
<1>4. r = x \o q
  BY DEF PushFavorite
<1> HIDE DEF e, r
<1>5. x \in Seq(Entry(Th)) /\ Len(x) = 1 /\ x[1] = e
  BY <1>3
<1> HIDE DEF x
<1>6. /\ x \o q \in Seq(Entry(Th))
      /\ Len(x \o q) = Len(q) + 1
      /\ \A i \in 1 .. 1 : (x \o q)[i] = x[i]
      /\ \A i \in 1+1 .. Len(q) + 1 : (x \o q)[i] = q[i-1]
  <2> DEFINE n == Len(q) + 1
             m == 1
             E == Entry(Th)
  <2>1. /\ m \in Nat /\ n \in Nat /\ Len(x) = m /\ Len(x) + Len(q) = n
        /\ x \in Seq(E) /\ q \in Seq(E)
    BY <1>1, <1>5
  <2> HIDE DEF n, m, E
  <2>2. /\ x \o q \in Seq(E)
        /\ Len(x \o q) = n
        /\ \A i \in 1 .. m : (x \o q)[i] = x[i]
        /\ \A i \in m+1 .. n : (x \o q)[i] = q[i-m]
    BY <2>1, ConcatAt
  <2> QED BY <2>2 DEF n, m, E
<1>7. /\ r \in Seq(Entry(Th))
      /\ DOMAIN r = 1 .. Len(q) + 1
      /\ r[1] = e
      /\ \A i \in 2 .. Len(q) + 1 : r[i] = q[i-1]
      /\ r # <<>>
  <2>1. r \in Seq(Entry(Th)) /\ Len(r) = Len(q) + 1
    BY <1>4, <1>6
  <2>2. r[1] = e
    BY <1>4, <1>5, <1>6
  <2>3. \A i \in 2 .. Len(q) + 1 : r[i] = q[i-1]
    BY <1>4, <1>6
  <2>4. DOMAIN r = 1 .. Len(q) + 1
    BY <2>1, LenProperties
  <2>5. r # <<>>
    BY <1>1, <2>1
  <2> QED BY <2>1, <2>2, <2>3, <2>4, <2>5
<1>8. Members(r) \subseteq Members(q) \cup {t}
  <2> SUFFICES ASSUME NEW i \in 1 .. Len(q) + 1, i # 1
               PROVE  r[i].th \in Members(q)
    BY <1>3, <1>7 DEF Members
  <2>1. i-1 \in 1 .. Len(q) /\ r[i] = q[i-1]
    BY <1>1, <1>7
  <2> QED BY <1>1, <2>1 DEF Members
<1>9. Members(q) \cup {t} \subseteq Members(r)
  <2>1. t \in Members(r)
    BY <1>1, <1>3, <1>7 DEF Members
  <2>2. ASSUME NEW i \in 1 .. Len(q) PROVE q[i].th \in Members(r)
    <3>1. i+1 \in 2 .. Len(q) + 1 /\ (i+1)-1 = i /\ i+1 \in 1 .. Len(q) + 1
      BY <1>1
    <3>2. r[i+1] = q[i]
      BY <1>7, <3>1
    <3> QED BY <1>7, <3>1, <3>2 DEF Members
  <2> QED BY <1>1, <2>1, <2>2 DEF Members
<1>10. ASSUME Distinct(q), t \notin Members(q) PROVE Distinct(r)
  <2>1. ASSUME NEW i \in 1 .. Len(q) + 1, i # 1
        PROVE  i-1 \in 1 .. Len(q) /\ r[i] = q[i-1] /\ r[i].th # t
    <3>1. i-1 \in 1 .. Len(q) /\ i \in 2 .. Len(q) + 1
      BY <1>1, <2>1
    <3>2. r[i] = q[i-1]
      BY <1>7, <3>1
    <3> QED BY <1>1, <1>10, <3>1, <3>2 DEF Members
  <2>2. \A i, j \in 1 .. Len(q) : q[i].th = q[j].th => i = j
    BY <1>1, <1>10 DEF Distinct
  <2> SUFFICES ASSUME NEW i \in 1 .. Len(q) + 1, NEW j \in 1 .. Len(q) + 1,
                      r[i].th = r[j].th
               PROVE  i = j
    BY <1>7 DEF Distinct
  <2>3. CASE i = 1 \/ j = 1
    BY <1>3, <1>7, <2>1, <2>3
  <2>4. CASE i # 1 /\ j # 1
    <3>1. i-1 = j-1
      BY <2>1, <2>2, <2>4
    <3> QED BY <1>1, <3>1
  <2> QED BY <2>3, <2>4
<1> QED
  BY <1>7, <1>8, <1>9, <1>10 DEF r

\* Favouring a member reorders the queue.
LEMMA FavoriteProps ==
    ASSUME NEW Th, NEW q \in Seq(Entry(Th)), NEW t \in Members(q), Distinct(q)
    PROVE  /\ Favorite(q, t) \in Seq(Entry(Th))
           /\ Members(Favorite(q, t)) = Members(q)
           /\ Distinct(Favorite(q, t))
<1>1. CASE Len(q) <= 1
  BY <1>1 DEF Favorite
<1>2. CASE ~(Len(q) <= 1)
  <2> DEFINE d == Delete(q, t)
  <2>1. d \in Seq(Entry(Th)) /\ Members(d) = Members(q) \ {t} /\ Distinct(d)
    BY DeleteProps
  <2>2. t \in Th
    BY MembersAreThreads
  <2>3. Favorite(q, t) = PushFavorite(d, t)
    BY <1>2 DEF Favorite
  <2> HIDE DEF d
  <2>4. PushFavorite(d, t) \in Seq(Entry(Th))
    BY <2>1, <2>2, PushFavoriteProps
  <2>5. Members(PushFavorite(d, t)) = Members(d) \cup {t}
    BY <2>1, <2>2, PushFavoriteProps
  <2>6. Distinct(PushFavorite(d, t))
    BY <2>1, <2>2, PushFavoriteProps
  <2> QED BY <2>1, <2>3, <2>4, <2>5, <2>6
<1> QED BY <1>1, <1>2

\* Aging keeps the queue and its order.
LEMMA IncreaseProps ==
    ASSUME NEW Th, NEW q \in Seq(Entry(Th))
    PROVE  /\ Increase(q) \in Seq(Entry(Th))
           /\ Members(Increase(q)) = Members(q)
           /\ Distinct(q) => Distinct(Increase(q))
<1> DEFINE r == Increase(q)
<1>1. Len(q) \in Nat /\ DOMAIN q = 1 .. Len(q)
  BY LenProperties
<1>2. DOMAIN r = 1 .. Len(q)
  BY <1>1 DEF Increase
<1>3. ASSUME NEW i \in 1 .. Len(q)
      PROVE  r[i] \in Entry(Th) /\ r[i].th = q[i].th
  <2>1. q[i] \in Entry(Th)
    BY ElementOfSeq
  <2>2. q[i].pr + 1 \in Int
    BY <2>1 DEF Entry
  <2>3. Clamp(q[i].pr + 1) \in Int
    BY <2>2, ClampType
  <2>4. r[i] = [q[i] EXCEPT !.pr = Clamp(q[i].pr + 1)]
    BY <1>1 DEF Increase
  <2> HIDE DEF r
  <2> QED BY <2>1, <2>3, <2>4 DEF Entry
<1>4. r \in [1 .. Len(q) -> Entry(Th)]
  <2>1. r = [i \in 1 .. Len(q) |-> r[i]]
    BY <1>1 DEF Increase
  <2> HIDE DEF r
  <2> QED BY <1>3, <2>1
<1> HIDE DEF r
<1>5. r \in Seq(Entry(Th))
  BY <1>1, <1>4, SeqDef
<1>6. Members(r) = Members(q)
  BY <1>1, <1>2, <1>3 DEF Members
<1>7. Distinct(q) => Distinct(r)
  BY <1>1, <1>2, <1>3 DEF Distinct
<1> QED
  BY <1>5, <1>6, <1>7 DEF r

\* Nobody is queued in the empty queue.
LEMMA EmptyQueueProps ==
    ASSUME NEW Th
    PROVE  /\ <<>> \in Seq(Entry(Th))
           /\ Members(<<>>) = {}
           /\ Distinct(<<>>)
BY DEF Members, Distinct

=============================================================================
