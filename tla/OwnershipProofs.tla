--------------------------- MODULE OwnershipProofs ----------------------------
(***************************************************************************)
(* Proofs about who holds what. The first part is about PthThreadData, for *)
(* any threads, keys and values: each value is accounted for, data_count   *)
(* is right, and no destructor is missed. The second is about JsObjects,   *)
(* for any cells, values and smart pointers: the counts of references are  *)
(* exact, whatever a chain of releases frees.  The third and the fourth    *)
(* are about JsProperties, for any values: what the host has put into an   *)
(* object is the host's to change, with any number of prototypes; and an   *)
(* array of any largest length is a sequence.  So is the fifth, for any    *)
(* names: an object that shares its properties with the host is one        *)
(* object, whose sorted tables are searched by halves.                     *)
(***************************************************************************)
EXTENDS PthThreadData, JsObjects, Sequences, FiniteSetTheorems, WellFoundedInduction, TLAPS

-------------------------------------------------------------------------------
(*                         Thread-specific data                            *)

Types ==
    /\ pth_keytab \in [Keys -> [used : BOOLEAN, destructor : BOOLEAN]]
    /\ data \in [Threads -> [alloc : BOOLEAN, value : [Keys -> Values \cup {NULL}], count : Int]]
    /\ ending \in [Threads -> [by : Threads \cup {NULL}, at : 0 .. LastPlace - 1, calls : BOOLEAN]]
    /\ given \in [Values -> {0, 1}] /\ lost \subseteq Values

\* The keys under which data d has a value.
KeysHeld(d) == {k \in Keys : d.value[k] # NULL}

Counted == \A t \in Threads : data[t].count = Cardinality(KeysHeld(data[t]))

\* Values are where the code allocated room for them.
RoomAllocated == \A t \in Threads : data[t].alloc \/ KeysHeld(data[t]) = {}

Has(v, t, k) == data[t].value[k] = v

\* A value is given out, lost, or with one thread under one key.
OnePlace ==
    \A v \in Values :
        /\ v \in lost => given[v] = 0
        /\ v \in lost \/ given[v] = 1 => \A t \in Threads, k \in Keys : ~Has(v, t, k)
        /\ \A t, u \in Threads, j, k \in Keys : Has(v, t, j) /\ Has(v, u, k) => t = u /\ j = k

\* The inductive invariant.
IInv == Types /\ Counted /\ RoomAllocated /\ OnePlace

-----------------------------------------------------------------------------
(*                               Numbers                                   *)

LEMMA TimesOne ==
    ASSUME NEW y \in Nat \ {0}, NEW z \in Int, z >= 1
    PROVE  y * z >= y
BY Z3

LEMMA Residue ==
    ASSUME NEW y \in Nat \ {0}, NEW q \in Nat, NEW k \in 0 .. y - 1
    PROVE  (y * q + k) % y = k /\ (y * q + k) \div y = q
<1> DEFINE x == y * q + k
          m == x % y
          d == x \div y
<1>1. x \in Nat /\ m \in 0 .. y - 1 /\ d \in Int /\ x = y * d + m
  BY Z3
<1>2. y * (d - q) = k - m
  BY <1>1, Z3
<1>3. d - q < 1
  BY <1>1, <1>2, TimesOne
<1>4. q - d < 1
  BY <1>1, <1>2, TimesOne
<1> QED BY <1>1, <1>3, <1>4

LEMMA LeastNumber ==
    ASSUME NEW T, T \subseteq Nat, T # {}
    PROVE  \E m \in T : \A n \in T : m <= n
<1> DEFINE Less == {ss \in Nat \X Nat : ss[1] < ss[2]}
<1>1. IsWellFoundedOn(Less, Nat)
  BY NatLessThanWellFounded, Zenon DEF OpToRel
<1>2. PICK m \in T : \A n \in T : <<n, m>> \notin Less
  <2> HIDE DEF Less
  <2> QED BY <1>1, WFMin
<1>3. \A n \in T : ~(n < m)
  <2>1. \A n \in T : <<n, m>> \in Nat \X Nat /\ <<n, m>>[1] = n /\ <<n, m>>[2] = m
    OBVIOUS
  <2> QED BY <1>2, <2>1
<1> QED BY <1>3

LEMMA NaturalsAre ==
    /\ LastPlace \in Nat \ {0}
    /\ LastPlace = PTH_KEY_MAX * (PTH_DESTRUCTOR_ITERATIONS - 1) + PTH_KEY_MAX
    /\ \A m \in Nat : m % PTH_KEY_MAX \in Keys
    /\ IsFiniteSet(Keys)
<1>1. LastPlace \in Nat \ {0}
  BY KeyAssumption, Z3 DEF LastPlace
<1>2. LastPlace = PTH_KEY_MAX * (PTH_DESTRUCTOR_ITERATIONS - 1) + PTH_KEY_MAX
  BY KeyAssumption, Z3 DEF LastPlace
<1>3. \A m \in Nat : m % PTH_KEY_MAX \in Keys
  BY KeyAssumption, Z3 DEF Keys
<1>4. IsFiniteSet(Keys)
  BY KeyAssumption, FS_Interval DEF Keys
<1> QED BY <1>1, <1>2, <1>3, <1>4

\* From any place but those of the last iteration on, the sweep comes by
\* every key.
LEMMA ComesBy ==
    ASSUME NEW i \in Nat, NEW k \in Keys,
           i <= PTH_KEY_MAX * (PTH_DESTRUCTOR_ITERATIONS - 1) + k
    PROVE  \E m \in i .. LastPlace - 1 : m % PTH_KEY_MAX = k
<1> DEFINE m == PTH_KEY_MAX * (PTH_DESTRUCTOR_ITERATIONS - 1) + k
<1>1. m % PTH_KEY_MAX = k
  BY KeyAssumption, Residue DEF Keys
<1>2. m \in i .. LastPlace - 1
  <2>1. PTH_KEY_MAX * (PTH_DESTRUCTOR_ITERATIONS - 1) \in Nat
    BY KeyAssumption, Z3
  <2> QED BY <2>1, NaturalsAre, KeyAssumption DEF Keys
<1> QED BY <1>1, <1>2

\* Places of the last iteration have its number.
LEMMA LastIteration ==
    ASSUME NEW i \in 0 .. LastPlace - 1, i >= PTH_KEY_MAX * (PTH_DESTRUCTOR_ITERATIONS - 1)
    PROVE  i \div PTH_KEY_MAX + 1 = PTH_DESTRUCTOR_ITERATIONS
<1> DEFINE q == PTH_DESTRUCTOR_ITERATIONS - 1
          k == i - PTH_KEY_MAX * q
<1>1. PTH_KEY_MAX * q \in Nat /\ q \in Nat
  BY KeyAssumption, Z3
<1>2. k \in 0 .. PTH_KEY_MAX - 1 /\ i = PTH_KEY_MAX * q + k
  BY <1>1, NaturalsAre, KeyAssumption
<1>3. i \div PTH_KEY_MAX = q
  <2> HIDE DEF k, q
  <2> QED BY <1>1, <1>2, Residue, KeyAssumption
<1> QED BY <1>1, <1>3, KeyAssumption

-----------------------------------------------------------------------------
(*                             The sweep                                   *)

\* Data whose count is right.
IsData(d) ==
    /\ d \in [alloc : BOOLEAN, value : [Keys -> Values \cup {NULL}], count : Int]
    /\ d.count = Cardinality(KeysHeld(d))

LEMMA TakenOutIsData ==
    ASSUME NEW d, IsData(d), NEW ks \in SUBSET KeysHeld(d)
    PROVE  /\ IsData(TakenOut(d, ks)) /\ KeysHeld(TakenOut(d, ks)) = KeysHeld(d) \ ks
           /\ TakenOut(d, ks).alloc = d.alloc
           /\ \A k \in Keys : TakenOut(d, ks).value[k] = IF k \in ks THEN NULL ELSE d.value[k]
<1> DEFINE e == TakenOut(d, ks)
<1>1. IsFiniteSet(KeysHeld(d)) /\ KeysHeld(d) \cap ks = ks
  BY NaturalsAre, FS_Subset DEF KeysHeld
<1>2. Cardinality(KeysHeld(d) \ ks) = Cardinality(KeysHeld(d)) - Cardinality(ks)
  BY <1>1, FS_Difference
<1>3. /\ e \in [alloc : BOOLEAN, value : [Keys -> Values \cup {NULL}], count : Int]
      /\ e.count = d.count - Cardinality(ks) /\ e.alloc = d.alloc
      /\ \A k \in Keys : e.value[k] = IF k \in ks THEN NULL ELSE d.value[k]
  <2>1. Cardinality(ks) \in Nat
    BY <1>1, FS_Subset, FS_CardinalityType
  <2>2. /\ e = [d EXCEPT !.value = [k \in Keys |-> IF k \in ks THEN NULL ELSE d.value[k]],
                        !.count = d.count - Cardinality(ks)]
        /\ d \in [alloc : BOOLEAN, value : [Keys -> Values \cup {NULL}], count : Int]
    BY DEF TakenOut, IsData
  <2>3. [k \in Keys |-> IF k \in ks THEN NULL ELSE d.value[k]] \in [Keys -> Values \cup {NULL}]
    BY <2>2
  <2> DEFINE w == [k \in Keys |-> IF k \in ks THEN NULL ELSE d.value[k]]
            n == d.count - Cardinality(ks)
  <2>4. \A k \in Keys : w[k] = IF k \in ks THEN NULL ELSE d.value[k]
    OBVIOUS
  <2>5. n \in Int /\ n = d.count - Cardinality(ks)
    BY <2>1, <2>2
  <2>6. e = [d EXCEPT !.value = w, !.count = n] /\ w \in [Keys -> Values \cup {NULL}]
    BY <2>2, <2>3
  <2> HIDE DEF e, w, n
  <2>7. e.value = w /\ e.count = n /\ e.alloc = d.alloc
    BY <2>2, <2>6
  <2>8. e \in [alloc : BOOLEAN, value : [Keys -> Values \cup {NULL}], count : Int]
    BY <2>2, <2>5, <2>6
  <2> QED BY <2>4, <2>5, <2>7, <2>8
<1>4. KeysHeld(e) = KeysHeld(d) \ ks
  <2> HIDE DEF e
  <2> QED BY <1>3 DEF KeysHeld
<1> QED BY <1>2, <1>3, <1>4 DEF IsData

LEMMA TakenOutTwice ==
    ASSUME NEW d, IsData(d), NEW ks \in SUBSET KeysHeld(d), NEW k \in KeysHeld(d) \ ks
    PROVE  TakenOut(TakenOut(d, ks), {k}) = TakenOut(d, ks \cup {k})
<1>1. IsFiniteSet(ks) /\ Cardinality(ks) \in Nat
  BY NaturalsAre, FS_Subset, FS_CardinalityType DEF KeysHeld
<1>2. Cardinality(ks \cup {k}) = Cardinality(ks) + 1 /\ Cardinality({k}) = 1
  BY <1>1, FS_AddElement, FS_Singleton
<1> DEFINE e == TakenOut(d, ks)
          f == TakenOut(d, ks \cup {k})
<1>3. /\ e = [d EXCEPT !.value = [h \in Keys |-> IF h \in ks THEN NULL ELSE d.value[h]],
                      !.count = d.count - Cardinality(ks)]
      /\ f = [d EXCEPT !.value = [h \in Keys |-> IF h \in ks \cup {k} THEN NULL ELSE d.value[h]],
                      !.count = d.count - (Cardinality(ks) + 1)]
      /\ TakenOut(e, {k}) =
           [e EXCEPT !.value = [h \in Keys |-> IF h \in {k} THEN NULL ELSE e.value[h]],
                     !.count = e.count - 1]
      /\ d \in [alloc : BOOLEAN, value : [Keys -> Values \cup {NULL}], count : Int]
  BY <1>2 DEF TakenOut, IsData
<1> HIDE DEF e, f
<1>4. e.value = [h \in Keys |-> IF h \in ks THEN NULL ELSE d.value[h]]
      /\ e.count = d.count - Cardinality(ks) /\ e.alloc = d.alloc
  BY <1>3
<1>5. [h \in Keys |-> IF h \in {k} THEN NULL ELSE e.value[h]]
        = [h \in Keys |-> IF h \in ks \cup {k} THEN NULL ELSE d.value[h]]
  BY <1>4
<1>6. e.count - 1 = d.count - (Cardinality(ks) + 1)
  BY <1>1, <1>3, <1>4
<1>7. TakenOut(e, {k}) =
           [e EXCEPT !.value = [h \in Keys |-> IF h \in ks \cup {k} THEN NULL ELSE d.value[h]],
                     !.count = d.count - (Cardinality(ks) + 1)]
  BY <1>3, <1>5, <1>6
<1>8. TakenOut(e, {k}) = f
  BY <1>3, <1>7
<1> QED BY <1>8 DEF e, f

LEMMA SweepStops ==
    ASSUME NEW d, NEW i \in 0 .. LastPlace
    PROVE  \E j \in i .. LastPlace :
               /\ Stops(d, i, j) /\ \A m \in i .. j - 1 : ~Stops(d, i, m)
               /\ Sweep(d, i) =
                    IF j = LastPlace \/ Swept(d, i, j).count = 0
                    THEN [data |-> Swept(d, i, j), at |-> j, gives |-> NULL]
                    ELSE [data |-> TakenOut(Swept(d, i, j), {j % PTH_KEY_MAX}), at |-> j,
                          gives |-> Swept(d, i, j).value[j % PTH_KEY_MAX]]
<1> DEFINE Ends(j) == Stops(d, i, j) /\ \A m \in i .. j - 1 : ~Stops(d, i, m)
          T == {j \in i .. LastPlace : Stops(d, i, j)}
<1>1. \E j \in i .. LastPlace : Ends(j)
  <2>1. T \subseteq Nat /\ LastPlace \in T
    BY NaturalsAre DEF Stops
  <2>2. PICK j \in T : \A n \in T : j <= n
    <3> HIDE DEF T
    <3> QED BY <2>1, LeastNumber
  <2> QED BY <2>1, <2>2, NaturalsAre
<1> DEFINE stop == CHOOSE j \in i .. LastPlace : Ends(j)
<1>2. stop \in i .. LastPlace /\ Ends(stop)
  <2> HIDE DEF Ends
  <2> QED BY <1>1
<1>3. Sweep(d, i) =
        IF stop = LastPlace \/ Swept(d, i, stop).count = 0
        THEN [data |-> Swept(d, i, stop), at |-> stop, gives |-> NULL]
        ELSE [data |-> TakenOut(Swept(d, i, stop), {stop % PTH_KEY_MAX}), at |-> stop,
              gives |-> Swept(d, i, stop).value[stop % PTH_KEY_MAX]]
  BY DEF Sweep
<1> HIDE DEF stop
<1> QED BY <1>2, <1>3

\* A destructor is given a value the sweep takes out; if none is called, the
\* sweep has not come by the keys that have a value and a destructor.
Missed(d, i) ==
    \A k \in Keys : Calls(d, k) => i > PTH_KEY_MAX * (PTH_DESTRUCTOR_ITERATIONS - 1) + k

LEMMA SweepTakes ==
    ASSUME NEW d, IsData(d), NEW i \in 0 .. LastPlace
    PROVE  \E ks \in SUBSET KeysHeld(d) :
               /\ Sweep(d, i).data = TakenOut(d, ks)
               /\ \/ Sweep(d, i).gives = NULL /\ Missed(d, i)
                  \/ /\ \E k \in ks : Sweep(d, i).gives = d.value[k]
                     /\ Sweep(d, i).gives # NULL /\ Sweep(d, i).at \in 0 .. LastPlace - 1
<1>1. PICK j \in i .. LastPlace :
               /\ Stops(d, i, j) /\ \A m \in i .. j - 1 : ~Stops(d, i, m)
               /\ Sweep(d, i) =
                    IF j = LastPlace \/ Swept(d, i, j).count = 0
                    THEN [data |-> Swept(d, i, j), at |-> j, gives |-> NULL]
                    ELSE [data |-> TakenOut(Swept(d, i, j), {j % PTH_KEY_MAX}), at |-> j,
                          gives |-> Swept(d, i, j).value[j % PTH_KEY_MAX]]
  BY SweepStops
<1> DEFINE k == j % PTH_KEY_MAX
          ks == {h \in {m % PTH_KEY_MAX : m \in i .. j - 1} : HasValue(d, h) /\ ~Calls(d, h)}
<1>2. Swept(d, i, j) = TakenOut(d, ks)
  BY DEF Swept
<1>3. ks \in SUBSET KeysHeld(d) /\ \A h \in ks : ~Calls(d, h)
  <2>1. \A m \in i .. j - 1 : m % PTH_KEY_MAX \in Keys
    BY NaturalsAre
  <2> QED BY <2>1 DEF HasValue, KeysHeld
<1>4. /\ IsData(TakenOut(d, ks)) /\ KeysHeld(TakenOut(d, ks)) = KeysHeld(d) \ ks
      /\ \A h \in Keys : TakenOut(d, ks).value[h] = IF h \in ks THEN NULL ELSE d.value[h]
  <2> HIDE DEF ks
  <2> QED BY <1>3, TakenOutIsData
<1>5. CASE j = LastPlace \/ Swept(d, i, j).count = 0
  <2>1. Sweep(d, i).data = TakenOut(d, ks) /\ Sweep(d, i).gives = NULL
    BY <1>1, <1>2, <1>5
  <2>2. Missed(d, i)
    <3> SUFFICES ASSUME NEW h \in Keys, Calls(d, h),
                        i <= PTH_KEY_MAX * (PTH_DESTRUCTOR_ITERATIONS - 1) + h
                 PROVE  FALSE
      <4> PTH_KEY_MAX * (PTH_DESTRUCTOR_ITERATIONS - 1) \in Int
        BY KeyAssumption, Z3
      <4> QED BY KeyAssumption DEF Missed, Keys
    <3>1. h \in KeysHeld(d) \ ks
      BY <1>3 DEF Calls, HasValue, KeysHeld
    <3>2. TakenOut(d, ks).count # 0
      <4>1. IsFiniteSet(KeysHeld(d) \ ks)
        BY NaturalsAre, FS_Subset DEF KeysHeld
      <4>2. Cardinality(KeysHeld(d) \ ks) # 0
        BY <3>1, <4>1, FS_EmptySet
      <4> QED BY <1>4, <4>2 DEF IsData
    <3>3. j = LastPlace
      BY <1>2, <1>5, <3>2
    <3>4. PICK m \in i .. LastPlace - 1 : m % PTH_KEY_MAX = h
      BY ComesBy, NaturalsAre
    <3>5. ~Calls(d, h)
      BY <1>1, <3>3, <3>4 DEF Stops
    <3> QED BY <3>5
  <2> QED BY <1>3, <2>1, <2>2
<1>6. CASE ~(j = LastPlace \/ Swept(d, i, j).count = 0)
  <2>1. /\ Sweep(d, i).data = TakenOut(TakenOut(d, ks), {k})
        /\ Sweep(d, i).gives = TakenOut(d, ks).value[k] /\ Sweep(d, i).at = j
    BY <1>1, <1>2, <1>6
  <2>2. Calls(d, k) /\ k \in Keys
    BY <1>1, <1>6, NaturalsAre DEF Stops
  <2>3. k \in KeysHeld(d) \ ks
    BY <1>3, <2>2 DEF Calls, HasValue, KeysHeld
  <2>4. Sweep(d, i).gives = d.value[k] /\ d.value[k] # NULL
    BY <1>4, <2>1, <2>2, <2>3 DEF KeysHeld
  <2>5. Sweep(d, i).data = TakenOut(d, ks \cup {k})
    <3> HIDE DEF ks, k
    <3> QED BY <1>3, <2>1, <2>3, TakenOutTwice
  <2>6. j \in 0 .. LastPlace - 1
    BY <1>6, NaturalsAre
  <2> QED BY <1>3, <2>1, <2>3, <2>4, <2>5, <2>6
<1> QED BY <1>5, <1>6

-----------------------------------------------------------------------------
(*                             The actions                                 *)

LEMMA InitOK == Init => IInv
<1> SUFFICES ASSUME Init PROVE IInv
  OBVIOUS
<1>1. Types
  BY NaturalsAre DEF Init, Types, NoData, NotEnding
<1>2. \A t \in Threads : data[t].count = 0 /\ KeysHeld(data[t]) = {}
  BY DEF Init, NoData, KeysHeld
<1>3. Counted /\ RoomAllocated
  BY <1>2, FS_EmptySet DEF Counted, RoomAllocated
<1>4. OnePlace
  BY KeyAssumption DEF Init, OnePlace, Has, NoData
<1> QED BY <1>1, <1>3, <1>4 DEF IInv

\* Steps that leave the data alone.
LEMMA QuietKeeps ==
    ASSUME IInv, UNCHANGED <<data, given, lost>>,
           \/ UNCHANGED pth_keytab
           \/ \E k \in Keys, d \in BOOLEAN :
                pth_keytab' = [pth_keytab EXCEPT ![k] = [used |-> TRUE, destructor |-> d]]
           \/ \E k \in Keys : pth_keytab' = [pth_keytab EXCEPT ![k].used = FALSE],
           \/ UNCHANGED ending
           \/ \E u, p \in Threads :
                ending' = [ending EXCEPT ![u] = [by |-> p, at |-> 0, calls |-> FALSE]]
    PROVE  IInv'
<1>1. pth_keytab' \in [Keys -> [used : BOOLEAN, destructor : BOOLEAN]]
  <2>1. pth_keytab \in [Keys -> [used : BOOLEAN, destructor : BOOLEAN]]
    BY DEF IInv, Types
  <2>2. ASSUME NEW k \in Keys, pth_keytab' = [pth_keytab EXCEPT ![k].used = FALSE]
        PROVE  pth_keytab' \in [Keys -> [used : BOOLEAN, destructor : BOOLEAN]]
    <3>1. [pth_keytab[k] EXCEPT !.used = FALSE] \in [used : BOOLEAN, destructor : BOOLEAN]
      BY <2>1
    <3> QED BY <2>1, <2>2, <3>1
  <2>3. ASSUME NEW k \in Keys, NEW d \in BOOLEAN,
               pth_keytab' = [pth_keytab EXCEPT ![k] = [used |-> TRUE, destructor |-> d]]
        PROVE  pth_keytab' \in [Keys -> [used : BOOLEAN, destructor : BOOLEAN]]
    BY <2>1, <2>3
  <2> QED BY <2>1, <2>2, <2>3
<1>2. ending' \in [Threads -> [by : Threads \cup {NULL}, at : 0 .. LastPlace - 1, calls : BOOLEAN]]
  <2>1. ending \in [Threads -> [by : Threads \cup {NULL}, at : 0 .. LastPlace - 1, calls : BOOLEAN]]
    BY DEF IInv, Types
  <2>2. ASSUME NEW p \in Threads
        PROVE  [by |-> p, at |-> 0, calls |-> FALSE]
                 \in [by : Threads \cup {NULL}, at : 0 .. LastPlace - 1, calls : BOOLEAN]
    BY NaturalsAre
  <2>3. ASSUME NEW u \in Threads, NEW p \in Threads,
               ending' = [ending EXCEPT ![u] = [by |-> p, at |-> 0, calls |-> FALSE]]
        PROVE  ending' \in [Threads ->
                   [by : Threads \cup {NULL}, at : 0 .. LastPlace - 1, calls : BOOLEAN]]
    <3> DEFINE R == [by : Threads \cup {NULL}, at : 0 .. LastPlace - 1, calls : BOOLEAN]
              x == [by |-> p, at |-> 0, calls |-> FALSE]
    <3>1. x \in R /\ ending \in [Threads -> R] /\ ending' = [ending EXCEPT ![u] = x]
      BY <2>1, <2>2, <2>3
    <3> HIDE DEF R, x
    <3>2. ending' \in [Threads -> R]
      BY <3>1
    <3> QED BY <3>2 DEF R
  <2> QED BY <2>1, <2>3
<1>3. Types'
  BY <1>1, <1>2 DEF IInv, Types
<1>4. Counted' /\ RoomAllocated' /\ OnePlace'
  BY DEF IInv, Counted, RoomAllocated, OnePlace, Has, KeysHeld
<1> QED BY <1>3, <1>4 DEF IInv

LEMMA SetDataKeeps ==
    ASSUME IInv, NEW t \in Threads, NEW k \in Keys, NEW v \in Unused \cup {NULL},
           pth_key_setdata(t, k, v)
    PROVE  IInv'
<1> DEFINE d == data[t]
          e == [alloc |-> TRUE, count |-> CountAfter(d, k, v),
                value |-> [d.value EXCEPT ![k] = v]]
<1>1. /\ data' = [data EXCEPT ![t] = e] /\ lost' = lost \cup ({d.value[k]} \ {NULL})
      /\ UNCHANGED <<pth_keytab, ending, given>>
  BY DEF pth_key_setdata
<1>2. /\ d \in [alloc : BOOLEAN, value : [Keys -> Values \cup {NULL}], count : Int]
      /\ d.count = Cardinality(KeysHeld(d))
  BY DEF IInv, Types, Counted
<1>3. /\ v \in Values \cup {NULL}
      /\ v # NULL => v \notin lost /\ given[v] = 0 /\ \A u \in Threads, j \in Keys : ~Has(v, u, j)
  BY KeyAssumption DEF Unused, Kept, Has
<1>4. /\ e.alloc = TRUE /\ e.value \in [Keys -> Values \cup {NULL}]
      /\ e.value[k] = v /\ \A j \in Keys \ {k} : e.value[j] = d.value[j]
  BY <1>2, <1>3
<1>5. e.count \in Int /\ e.count = Cardinality(KeysHeld(e))
  <2>1. IsFiniteSet(KeysHeld(d)) /\ Cardinality(KeysHeld(d)) \in Nat
    BY NaturalsAre, FS_Subset, FS_CardinalityType DEF KeysHeld
  <2>2. e.count = CountAfter(d, k, v)
    OBVIOUS
  <2> HIDE DEF e
  <2>3. CASE v = NULL
    <3>1. KeysHeld(e) = KeysHeld(d) \ {k}
      BY <1>4, <2>3 DEF KeysHeld
    <3>2. Cardinality(KeysHeld(e)) = IF k \in KeysHeld(d) THEN Cardinality(KeysHeld(d)) - 1 ELSE Cardinality(KeysHeld(d))
      <4>1. Cardinality(KeysHeld(d) \ {k})
              = IF k \in KeysHeld(d) THEN Cardinality(KeysHeld(d)) - 1 ELSE Cardinality(KeysHeld(d))
        BY <2>1, FS_RemoveElement, Zenon
      <4> QED BY <3>1, <4>1
    <3>3. e.count = IF k \in KeysHeld(d) THEN d.count - 1 ELSE d.count
      BY <2>2, <2>3 DEF CountAfter, KeysHeld
    <3> QED BY <1>2, <2>1, <3>2, <3>3
  <2>4. CASE v # NULL
    <3>1. KeysHeld(e) = KeysHeld(d) \cup {k}
      BY <1>4, <2>4 DEF KeysHeld
    <3>2. Cardinality(KeysHeld(e)) = IF k \in KeysHeld(d) THEN Cardinality(KeysHeld(d)) ELSE Cardinality(KeysHeld(d)) + 1
      <4>1. Cardinality(KeysHeld(d) \cup {k})
              = IF k \in KeysHeld(d) THEN Cardinality(KeysHeld(d)) ELSE Cardinality(KeysHeld(d)) + 1
        BY <2>1, FS_AddElement, Zenon
      <4> QED BY <3>1, <4>1
    <3>3. e.count = IF k \in KeysHeld(d) THEN d.count ELSE d.count + 1
      BY <2>2, <2>4 DEF CountAfter, KeysHeld
    <3> QED BY <1>2, <2>1, <3>2, <3>3
  <2> QED BY <2>3, <2>4
<1>6. e \in [alloc : BOOLEAN, value : [Keys -> Values \cup {NULL}], count : Int]
  BY <1>4, <1>5
<1> HIDE DEF e
<1>7. Types'
  <2>1. data' \in [Threads -> [alloc : BOOLEAN, value : [Keys -> Values \cup {NULL}], count : Int]]
    BY <1>1, <1>6 DEF IInv, Types
  <2>2. lost' \subseteq Values
    BY <1>1, <1>2 DEF IInv, Types
  <2> QED BY <1>1, <2>1, <2>2 DEF IInv, Types
<1>8. data'[t] = e /\ \A u \in Threads \ {t} : data'[u] = data[u]
  BY <1>1 DEF IInv, Types
<1>9. Counted' /\ RoomAllocated'
  <2>1. ASSUME NEW u \in Threads
        PROVE  /\ data'[u].count = Cardinality(KeysHeld(data'[u]))
               /\ data'[u].alloc \/ KeysHeld(data'[u]) = {}
    BY <1>4, <1>5, <1>8 DEF IInv, Counted, RoomAllocated
  <2> QED BY <2>1 DEF Counted, RoomAllocated
<1>10. OnePlace'
  <2>1. \A w \in Values, u \in Threads, j \in Keys :
            Has(w, u, j)' <=> IF u = t /\ j = k THEN w = v ELSE Has(w, u, j)
    BY <1>4, <1>8 DEF Has
  <2>2. \A w \in Values : w \in lost' <=> w \in lost \/ Has(w, t, k)
    BY <1>1, KeyAssumption DEF Has
  <2>3. \A w \in Values : w = v => v # NULL
    BY KeyAssumption
  <2>4. OnePlace /\ given' = given /\ given \in [Values -> {0, 1}]
    BY <1>1 DEF IInv, Types
  <2> SUFFICES ASSUME NEW w \in Values
               PROVE  /\ w \in lost' => given'[w] = 0
                      /\ w \in lost' \/ given'[w] = 1
                           => \A u \in Threads, j \in Keys : ~Has(w, u, j)'
                      /\ \A s, u \in Threads, i, j \in Keys :
                           Has(w, s, i)' /\ Has(w, u, j)' => s = u /\ i = j
    BY DEF OnePlace
  <2>5. CASE w = v
    BY <1>3, <2>1, <2>2, <2>3, <2>4, <2>5
  <2>6. CASE w # v
    BY <2>1, <2>2, <2>4, <2>6 DEF OnePlace
  <2> QED BY <2>5, <2>6
<1> QED BY <1>7, <1>9, <1>10 DEF IInv

\* What a thread has left goes to one place, or stays.
LEMMA ValuesMove ==
    ASSUME IInv, NEW u \in Threads,
           \A v \in Values, t \in Threads, k \in Keys : Has(v, t, k)' => Has(v, t, k),
           \A v \in Values :
             \/ given'[v] = given[v] /\ (v \in lost' <=> v \in lost)
             \/ /\ \E k \in Keys : Has(v, u, k)
                /\ \A k \in Keys : ~Has(v, u, k)'
                /\ \/ given'[v] = given[v] + 1 /\ (v \in lost' <=> v \in lost)
                   \/ given'[v] = given[v] /\ v \in lost'
    PROVE  OnePlace' /\ \A v \in Values : given'[v] \in {0, 1}
<1>1. given \in [Values -> {0, 1}] /\ OnePlace
  BY DEF IInv, Types
<1> SUFFICES ASSUME NEW v \in Values
             PROVE  /\ given'[v] \in {0, 1}
                    /\ v \in lost' => given'[v] = 0
                    /\ v \in lost' \/ given'[v] = 1
                         => \A t \in Threads, k \in Keys : ~Has(v, t, k)'
                    /\ \A s, t \in Threads, i, k \in Keys :
                         Has(v, s, i)' /\ Has(v, t, k)' => s = t /\ i = k
  BY DEF OnePlace
<1>2. CASE given'[v] = given[v] /\ (v \in lost' <=> v \in lost)
  BY <1>1, <1>2 DEF OnePlace
<1>3. CASE /\ \E k \in Keys : Has(v, u, k)
           /\ \A k \in Keys : ~Has(v, u, k)'
           /\ \/ given'[v] = given[v] + 1 /\ (v \in lost' <=> v \in lost)
              \/ given'[v] = given[v] /\ v \in lost'
  <2>1. given[v] = 0 /\ v \notin lost
    BY <1>1, <1>3 DEF OnePlace
  <2>2. \A t \in Threads, k \in Keys : ~Has(v, t, k)'
    BY <1>1, <1>3 DEF OnePlace
  <2> QED BY <1>3, <2>1, <2>2
<1> QED BY <1>2, <1>3

LEMMA CleansDataKeeps ==
    ASSUME IInv, NEW u \in Threads, NEW p \in Threads, NEW i \in 0 .. LastPlace,
           CleansData(u, p, i)
    PROVE  IInv' /\ (ended' # ended => ended' = ended \cup {u} /\ Missed(data[u], i))
<1> DEFINE d == data[u]
          s == IF d.alloc THEN Sweep(d, i) ELSE [data |-> d, at |-> LastPlace, gives |-> NULL]
          remain == {s.data.value[k] : k \in Keys} \ {NULL}
<1>1. /\ given' = [v \in Values |-> given[v] + IF v = s.gives THEN 1 ELSE 0]
      /\ pth_keytab' = pth_keytab
      /\ \/ /\ s.gives # NULL
            /\ data' = [data EXCEPT ![u] = s.data]
            /\ ending' = [ending EXCEPT ![u] = [by |-> p, at |-> s.at, calls |-> TRUE]]
            /\ lost' = lost \cup (Kept(u) \ (remain \cup {s.gives}))
            /\ ended' = ended
         \/ /\ s.gives = NULL
            /\ data' = [data EXCEPT ![u] = NoData] /\ ending' = [ending EXCEPT ![u] = NotEnding]
            /\ lost' = lost \cup Kept(u) /\ ended' = ended \cup {u}
  BY DEF CleansData
<1>2. IsData(d) /\ (d.alloc \/ KeysHeld(d) = {})
  BY DEF IInv, Types, Counted, RoomAllocated, IsData
<1>3. \E ks \in SUBSET KeysHeld(d) :
         /\ s.gives # NULL => s.data = TakenOut(d, ks)
         /\ \/ s.gives = NULL /\ Missed(d, i)
            \/ /\ \E k \in ks : s.gives = d.value[k]
               /\ s.gives # NULL /\ s.at \in 0 .. LastPlace - 1
  <2>1. CASE d.alloc
    BY <1>2, <2>1, SweepTakes
  <2>2. CASE ~d.alloc
    <3>1. Missed(d, i)
      BY <1>2, <2>2 DEF Missed, Calls, HasValue, KeysHeld
    <3> QED BY <2>2, <3>1
  <2> QED BY <2>1, <2>2
<1> HIDE DEF s
<1>4. PICK ks \in SUBSET KeysHeld(d) :
         /\ s.gives # NULL => s.data = TakenOut(d, ks)
         /\ \/ s.gives = NULL /\ Missed(d, i)
            \/ /\ \E k \in ks : s.gives = d.value[k]
               /\ s.gives # NULL /\ s.at \in 0 .. LastPlace - 1
  BY <1>3
<1>5. /\ data \in [Threads -> [alloc : BOOLEAN, value : [Keys -> Values \cup {NULL}], count : Int]]
      /\ given \in [Values -> {0, 1}] /\ lost \subseteq Values
      /\ Kept(u) \subseteq Values /\ NULL \notin Values
      /\ \A v \in Values : v \in Kept(u) <=> \E k \in Keys : Has(v, u, k)
  BY KeyAssumption DEF IInv, Types, Kept, Has
<1>6. CASE s.gives # NULL
  <2> DEFINE e == TakenOut(d, ks)
  <2>1. IsData(e) /\ e.alloc = d.alloc /\ KeysHeld(e) = KeysHeld(d) \ ks
        /\ \A k \in Keys : e.value[k] = IF k \in ks THEN NULL ELSE d.value[k]
    BY <1>2, TakenOutIsData
  <2> HIDE DEF e
  <2>2. s.data = e /\ data' = [data EXCEPT ![u] = e] /\ ended' = ended
        /\ lost' = lost \cup (Kept(u) \ (remain \cup {s.gives}))
        /\ ending' = [ending EXCEPT ![u] = [by |-> p, at |-> s.at, calls |-> TRUE]]
    BY <1>1, <1>4, <1>6 DEF e
  <2>3. data'[u] = e /\ \A t \in Threads \ {u} : data'[t] = data[t]
    BY <1>5, <2>2
  <2>4. PICK g \in ks : s.gives = d.value[g]
    BY <1>4, <1>6
  <2>5. \A v \in Values, t \in Threads, k \in Keys : Has(v, t, k)' => Has(v, t, k)
    BY <1>5, <2>1, <2>3 DEF Has
  <2>6. \A v \in Values : v \in remain <=> \E k \in Keys : Has(v, u, k)'
    BY <1>5, <2>2, <2>3 DEF Has
  <2>7. ASSUME NEW v \in Values
        PROVE  \/ given'[v] = given[v] /\ (v \in lost' <=> v \in lost)
               \/ /\ \E k \in Keys : Has(v, u, k)
                  /\ \A k \in Keys : ~Has(v, u, k)'
                  /\ \/ given'[v] = given[v] + 1 /\ (v \in lost' <=> v \in lost)
                     \/ given'[v] = given[v] /\ v \in lost'
    <3>1. CASE v = s.gives
      <4>1. g \in Keys /\ Has(v, u, g)
        BY <2>4, <3>1 DEF Has, KeysHeld
      <4>2. \A k \in Keys : Has(v, u, k) => k = g
        BY <4>1 DEF IInv, OnePlace
      <4>3. \A k \in Keys : ~Has(v, u, k)'
        BY <1>5, <2>1, <2>3, <2>4, <4>2 DEF Has
      <4>4. given'[v] = given[v] + 1 /\ (v \in lost' <=> v \in lost)
        BY <1>1, <2>2, <3>1
      <4> QED BY <4>1, <4>3, <4>4
    <3>2. CASE v # s.gives /\ v \in Kept(u) \ remain
      <4>1. given'[v] = given[v] /\ v \in lost'
        BY <1>1, <1>5, <2>2, <3>2
      <4> QED BY <1>5, <2>6, <3>2, <4>1
    <3>3. CASE v # s.gives /\ v \notin Kept(u) \ remain
      BY <1>1, <1>5, <2>2, <3>3
    <3> QED BY <3>1, <3>2, <3>3
  <2>8. OnePlace' /\ \A v \in Values : given'[v] \in {0, 1}
    BY <2>5, <2>7, ValuesMove
  <2>9. Types'
    <3>1. data' \in [Threads -> [alloc : BOOLEAN, value : [Keys -> Values \cup {NULL}], count : Int]]
      BY <1>5, <2>1, <2>2 DEF IsData
    <3>2. [by |-> p, at |-> s.at, calls |-> TRUE]
            \in [by : Threads \cup {NULL}, at : 0 .. LastPlace - 1, calls : BOOLEAN]
      BY <1>4, <1>6
    <3>3. ending' \in [Threads -> [by : Threads \cup {NULL}, at : 0 .. LastPlace - 1, calls : BOOLEAN]]
      BY <2>2, <3>2 DEF IInv, Types
    <3>4. given' \in [Values -> {0, 1}] /\ lost' \subseteq Values
      BY <1>1, <1>5, <2>2, <2>8
    <3> QED BY <1>1, <3>1, <3>3, <3>4 DEF IInv, Types
  <2>10. Counted' /\ RoomAllocated'
    <3>1. ASSUME NEW t \in Threads
          PROVE  /\ data'[t].count = Cardinality(KeysHeld(data'[t]))
                 /\ data'[t].alloc \/ KeysHeld(data'[t]) = {}
      BY <1>2, <2>1, <2>3 DEF IInv, Counted, RoomAllocated, IsData
    <3> QED BY <3>1 DEF Counted, RoomAllocated
  <2> QED BY <2>2, <2>8, <2>9, <2>10 DEF IInv
<1>7. CASE s.gives = NULL
  <2>1. /\ data' = [data EXCEPT ![u] = NoData] /\ ending' = [ending EXCEPT ![u] = NotEnding]
        /\ lost' = lost \cup Kept(u) /\ ended' = ended \cup {u}
    BY <1>1, <1>7
  <2>2. data'[u] = NoData /\ \A t \in Threads \ {u} : data'[t] = data[t]
    BY <1>5, <2>1
  <2>3. KeysHeld(NoData) = {} /\ NoData.count = 0
        /\ NoData \in [alloc : BOOLEAN, value : [Keys -> Values \cup {NULL}], count : Int]
    BY DEF KeysHeld, NoData
  <2>4. \A v \in Values : given'[v] = given[v]
    BY <1>1, <1>5, <1>7
  <2>5. \A v \in Values, k \in Keys : ~Has(v, u, k)'
    BY <1>5, <2>2 DEF Has, NoData
  <2>6. \A v \in Values, t \in Threads, k \in Keys : Has(v, t, k)' => Has(v, t, k)
    BY <2>2, <2>5 DEF Has
  <2>7. ASSUME NEW v \in Values
        PROVE  \/ given'[v] = given[v] /\ (v \in lost' <=> v \in lost)
               \/ /\ \E k \in Keys : Has(v, u, k)
                  /\ \A k \in Keys : ~Has(v, u, k)'
                  /\ \/ given'[v] = given[v] + 1 /\ (v \in lost' <=> v \in lost)
                     \/ given'[v] = given[v] /\ v \in lost'
    BY <1>5, <2>1, <2>4, <2>5
  <2>8. OnePlace' /\ \A v \in Values : given'[v] \in {0, 1}
    BY <2>6, <2>7, ValuesMove
  <2>9. Types'
    <3>1. data' \in [Threads -> [alloc : BOOLEAN, value : [Keys -> Values \cup {NULL}], count : Int]]
      BY <1>5, <2>1, <2>3
    <3>2. NotEnding \in [by : Threads \cup {NULL}, at : 0 .. LastPlace - 1, calls : BOOLEAN]
      BY NaturalsAre DEF NotEnding
    <3>3. ending' \in [Threads -> [by : Threads \cup {NULL}, at : 0 .. LastPlace - 1, calls : BOOLEAN]]
      BY <2>1, <3>2 DEF IInv, Types
    <3>4. given' \in [Values -> {0, 1}] /\ lost' \subseteq Values
      BY <1>1, <1>5, <2>1, <2>8
    <3> QED BY <1>1, <3>1, <3>3, <3>4 DEF IInv, Types
  <2>10. Counted' /\ RoomAllocated'
    <3>1. ASSUME NEW t \in Threads
          PROVE  /\ data'[t].count = Cardinality(KeysHeld(data'[t]))
                 /\ data'[t].alloc \/ KeysHeld(data'[t]) = {}
      BY <2>2, <2>3, FS_EmptySet DEF IInv, Counted, RoomAllocated
    <3> QED BY <3>1 DEF Counted, RoomAllocated
  <2> QED BY <1>4, <1>7, <2>1, <2>8, <2>9, <2>10 DEF IInv
<1> QED BY <1>6, <1>7

\* A thread that ends: its last sweep, from the start or from where the last
\* callback was, missed no destructor.
LastSweep(t) == t \in Threads /\ \E i \in {0, ending[t].at + 1} : i \in Nat /\ Missed(data[t], i)

LEMMA CleanupKeeps ==
    ASSUME IInv, NEW u \in Threads, NEW p \in Threads, pth_thread_cleanup(u, p)
    PROVE  IInv' /\ \A t \in ended' \ ended : LastSweep(t)
<1>1. CASE cleanups[u] = 0
  <2>1. CleansData(u, p, 0) /\ 0 \in 0 .. LastPlace
    BY <1>1, NaturalsAre DEF pth_thread_cleanup
  <2> QED BY <2>1, CleansDataKeeps DEF LastSweep
<1>2. CASE cleanups[u] # 0
  <2>1. /\ UNCHANGED <<data, given, lost, pth_keytab, ended>>
        /\ ending' = [ending EXCEPT ![u] = [by |-> p, at |-> 0, calls |-> FALSE]]
    BY <1>2 DEF pth_thread_cleanup
  <2>2. IInv'
    BY <2>1, QuietKeeps
  <2> QED BY <2>1, <2>2
<1> QED BY <1>1, <1>2

LEMMA ReturnKeeps ==
    ASSUME IInv, NEW u \in Threads, NEW p \in Threads, CallbackReturns(p, u)
    PROVE  IInv' /\ \A t \in ended' \ ended : LastSweep(t)
<1>1. CASE ending[u].calls
  <2>1. CleansData(u, p, ending[u].at + 1)
    BY <1>1 DEF CallbackReturns
  <2>2. ending[u].at + 1 \in 0 .. LastPlace
    BY NaturalsAre DEF IInv, Types
  <2> QED BY <2>1, <2>2, CleansDataKeeps DEF LastSweep
<1>2. CASE ~ending[u].calls
  BY <1>2, CleanupKeeps DEF CallbackReturns
<1> QED BY <1>1, <1>2

LEMMA NextKeeps ==
    IInv /\ [Next]_vars => IInv' /\ \A t \in ended' \ ended : LastSweep(t)
<1> SUFFICES ASSUME IInv, [Next]_vars
             PROVE  IInv' /\ \A t \in ended' \ ended : LastSweep(t)
  OBVIOUS
<1>1. ASSUME NEW t \in Threads, NEW d \in BOOLEAN, pth_key_create(t, d)
      PROVE  IInv' /\ ended' = ended
  <2>1. PICK k \in Keys : pth_keytab' = [pth_keytab EXCEPT ![k] = [used |-> TRUE, destructor |-> d]]
    BY <1>1 DEF pth_key_create
  <2>2. UNCHANGED <<data, given, lost, ending, ended>>
    BY <1>1 DEF pth_key_create
  <2> QED BY <2>1, <2>2, QuietKeeps
<1>2. ASSUME NEW t \in Threads, NEW k \in Keys, pth_key_delete(t, k)
      PROVE  IInv' /\ ended' = ended
  <2>1. /\ pth_keytab' = [pth_keytab EXCEPT ![k].used = FALSE]
        /\ UNCHANGED <<data, given, lost, ending, ended>>
    BY <1>2 DEF pth_key_delete
  <2> QED BY <2>1, QuietKeeps
<1>3. ASSUME NEW t \in Threads, NEW k \in Keys, NEW v \in Unused \cup {NULL}, pth_key_setdata(t, k, v)
      PROVE  IInv' /\ ended' = ended
  BY <1>3, SetDataKeeps DEF pth_key_setdata
<1>4. ASSUME NEW t \in Threads, pth_cleanup_push(t) \/ pth_cleanup_pop(t)
      PROVE  IInv' /\ ended' = ended
  BY <1>4, QuietKeeps DEF pth_cleanup_push, pth_cleanup_pop
<1>5. ASSUME NEW t \in Threads, pth_exit(t)
      PROVE  IInv' /\ \A u \in ended' \ ended : LastSweep(u)
  BY <1>5, CleanupKeeps DEF pth_exit
<1>6. ASSUME NEW p \in Threads, NEW u \in Threads, pth_cancel(p, u)
      PROVE  IInv' /\ \A t \in ended' \ ended : LastSweep(t)
  BY <1>6, CleanupKeeps DEF pth_cancel
<1>7. CASE UNCHANGED vars
  <2>1. UNCHANGED <<data, given, lost, pth_keytab, ending, ended>>
    BY <1>7 DEF vars
  <2> QED BY <2>1, QuietKeeps
<1>8. CASE Next
  BY <1>1, <1>2, <1>3, <1>4, <1>5, <1>6, <1>8, ReturnKeeps DEF Next
<1> QED BY <1>7, <1>8

LEMMA Invariance == Spec => []IInv
<1>1. IInv /\ [Next]_vars => IInv'
  BY NextKeeps
<1> QED BY <1>1, InitOK, PTL DEF Spec

-----------------------------------------------------------------------------
(*                            The properties                               *)

LEMMA IInvImpliesValuesAccounted == IInv => ValuesAccounted
<1> SUFFICES ASSUME IInv PROVE ValuesAccounted
  OBVIOUS
<1>1. \A t \in Threads : data[t].count = Cardinality({k \in Keys : data[t].value[k] # NULL})
  BY DEF IInv, Counted, KeysHeld
<1>2. ASSUME NEW v \in Values
      PROVE  given[v] + Cardinality({t \in Threads : v \in Kept(t)})
             + (IF v \in lost THEN 1 ELSE 0) <= 1
  <2> DEFINE H == {t \in Threads : v \in Kept(t)}
  <2>1. \A t \in Threads : t \in H <=> \E k \in Keys : Has(v, t, k)
    BY KeyAssumption DEF Kept, Has
  <2>2. given[v] \in {0, 1} /\ (v \in lost => given[v] = 0)
    BY DEF IInv, Types, OnePlace
  <2>3. CASE v \in lost \/ given[v] = 1
    <3>1. H = {}
      BY <2>1, <2>3 DEF IInv, OnePlace
    <3>2. Cardinality(H) = 0
      BY <3>1, FS_EmptySet
    <3> QED BY <2>2, <2>3, <3>2
  <2>4. CASE ~(v \in lost \/ given[v] = 1)
    <3>1. \A t, u \in H : t = u
      BY <2>1 DEF IInv, OnePlace
    <3>2. H = {} \/ \E t : H = {t}
      <4> HIDE DEF H
      <4> QED BY <3>1
    <3>3. Cardinality(H) \in {0, 1}
      <4> HIDE DEF H
      <4> QED BY <3>2, FS_EmptySet, FS_Singleton
    <3> QED BY <2>2, <2>4, <3>3
  <2> QED BY <2>3, <2>4
<1> QED BY <1>1, <1>2 DEF ValuesAccounted

(* data_count is right and each value is given to a destructor once, or    *)
(* lost, or with one thread, whoever sets keys and data in the callbacks   *)
(* of whoever's end.                                                       *)
THEOREM EachValueOnce == Spec => []ValuesAccounted
<1> QED BY Invariance, IInvImpliesValuesAccounted, PTL

(* pth_key_destroydata, left and entered again for each destructor, misses *)
(* none: a value with a destructor is left behind only by a thread whose   *)
(* last callback was in the last of the iterations.                        *)
THEOREM NoDestructorIsMissed == Spec => DestructorsRun
<1> DEFINE Step ==
        \A t \in ended' \ ended, k \in Keys :
            data[t].value[k] # NULL /\ pth_keytab[k].used /\ pth_keytab[k].destructor
            => Rounds(t) = PTH_DESTRUCTOR_ITERATIONS
<1>1. IInv /\ [Next]_vars => Step
  <2> SUFFICES ASSUME IInv, [Next]_vars, NEW t \in ended' \ ended, NEW k \in Keys,
                      data[t].value[k] # NULL, pth_keytab[k].used, pth_keytab[k].destructor
               PROVE  Rounds(t) = PTH_DESTRUCTOR_ITERATIONS
    OBVIOUS
  <2>0. t \in Threads
    BY NextKeeps DEF LastSweep
  <2>1. PICK i \in {0, ending[t].at + 1} : i \in Nat /\ Missed(data[t], i)
    BY NextKeeps DEF LastSweep
  <2>2. i > PTH_KEY_MAX * (PTH_DESTRUCTOR_ITERATIONS - 1) + k
    BY <2>1 DEF Missed, Calls, HasValue
  <2>3. PTH_KEY_MAX * (PTH_DESTRUCTOR_ITERATIONS - 1) \in Nat /\ k \in Nat
    BY KeyAssumption, Z3 DEF Keys
  <2>4. ending[t].at \in 0 .. LastPlace - 1
    BY <2>0 DEF IInv, Types
  <2>5. ending[t].at >= PTH_KEY_MAX * (PTH_DESTRUCTOR_ITERATIONS - 1)
    BY <2>1, <2>2, <2>3, <2>4
  <2> QED BY <2>4, <2>5, LastIteration DEF Rounds
<1> QED BY <1>1, Invariance, PTL DEF Spec, DestructorsRun

-------------------------------------------------------------------------------
(*                          Reference counting                             *)

TypeNames == {"unborn", "undefined", "null", "boolean", "number", "string", "object", "reference"}
Vals    == [type : TypeNames, cell : Cells \cup {NoCell}]
Kinds   == {"free", "string", "object", "reference"}
CellRec == [kind : Kinds, count : Nat, property : Vals, base : Cells \cup {NoCell}]
Stores  == [cells : [Cells -> CellRec], locals : [Locals -> Vals],
            pointers : [Pointers -> Cells \cup {NoCell}], fault : BOOLEAN]

Delta(a, b) == IF a = b THEN 1 ELSE 0
Number(f, S, c) == Cardinality({x \in S : f[x] = c})
Also(e, c) == [d \in Cells |-> e[d] + Delta(d, c)]

\* The cell that each cell holds; what the property of the cell pin holds is
\* left out while it is being replaced.
Inner(T, pin) == [d \in Cells |-> IF d = pin THEN NoCell ELSE HeldBy(T[d])]

\* A value that holds a cell holds one of its own kind.
Fits(T, v) == HoldsCell(v) => v.cell \in Cells /\ T[v.cell].kind = v.type

Shaped(T, pin, c) ==
    /\ T[c].kind = "free" => T[c] = Free
    /\ T[c].kind \in {"string", "reference"} => CellOf(T[c].property) = NoCell
    /\ T[c].kind \in {"string", "object"} => T[c].base = NoCell
    /\ T[c].kind = "object" /\ c # pin => Fits(T, T[c].property)
    /\ T[c].kind = "reference" => T[c].base \in Cells /\ T[T[c].base].kind = "object"

\* The store between two steps of an operation: e says how many hold a cell
\* from outside of the cells, fresh are cells that nobody may hold yet.
Sound(h, e, pin, fresh) ==
    /\ h \in Stores /\ ~h.fault /\ e \in [Cells -> Nat]
    /\ \A c \in Cells :
          /\ h.cells[c].count = Number(Inner(h.cells, pin), Cells, c) + e[c]
          /\ Shaped(h.cells, pin, c)
          /\ h.cells[c].kind # "free" /\ c \notin fresh => h.cells[c].count > 0

Same(T, U, c) == U[c].kind = T[c].kind /\ U[c].property = T[c].property /\ U[c].base = T[c].base

-------------------------------------------------------------------------------
LEMMA Least ==
    ASSUME NEW S \in SUBSET Nat, S # {}
    PROVE  \E k \in S : \A j \in S : k <= j
<1> DEFINE Less == {ss \in Nat \X Nat : ss[1] < ss[2]}
<1>1. IsWellFoundedOn(Less, Nat)
  BY NatLessThanWellFounded, Zenon DEF OpToRel
<1>2. PICK m \in S : \A n \in S : <<n, m>> \notin Less
  <2> HIDE DEF Less
  <2> QED BY <1>1, WFMin
<1>3. \A n \in S : ~(n < m)
  <2>1. \A n \in S : <<n, m>> \in Nat \X Nat /\ <<n, m>>[1] = n /\ <<n, m>>[2] = m
    OBVIOUS
  <2> QED BY <1>2, <2>1
<1> QED BY <1>3

LEMMA Steps ==
    ASSUME NEW S, 0 \in S, \A n \in Nat : n \in S => n + 1 \in S
    PROVE  Nat \subseteq S
<1> DEFINE T == {n \in Nat : n \notin S}
<1> SUFFICES ASSUME T # {} PROVE FALSE
  OBVIOUS
<1>1. PICK m \in T : \A n \in T : m <= n
  BY Least
<1>2. m # 0 /\ m - 1 \in Nat /\ m - 1 \notin T
  BY <1>1
<1> QED BY <1>2

ButAt(x, f, g, S) == x \in S /\ \A y \in S \ {x} : g[y] = f[y]

LEMMA NumberChanged ==
    ASSUME NEW S, IsFiniteSet(S), NEW f, NEW g, NEW x, ButAt(x, f, g, S), NEW c
    PROVE  /\ Number(f, S, c) \in Nat /\ Number(g, S, c) \in Nat
           /\ Number(g, S, c) + Delta(f[x], c) = Number(f, S, c) + Delta(g[x], c)
<1> DEFINE R == {y \in S \ {x} : f[y] = c}
          F == {y \in S : f[y] = c}
          G == {y \in S : g[y] = c}
<1>1. IsFiniteSet(R) /\ IsFiniteSet(F) /\ IsFiniteSet(G) /\ x \notin R
  BY FS_Subset
<1>2. F = IF f[x] = c THEN R \cup {x} ELSE R
  BY DEF ButAt
<1>3. G = IF g[x] = c THEN R \cup {x} ELSE R
  BY DEF ButAt
<1>4. Cardinality(R) \in Nat /\ Cardinality(R \cup {x}) = Cardinality(R) + 1
  BY <1>1, FS_AddElement, FS_CardinalityType
<1>5. Cardinality(F) = Cardinality(R) + Delta(f[x], c)
  <2> HIDE DEF F, R
  <2> QED BY <1>2, <1>4 DEF Delta
<1>6. Cardinality(G) = Cardinality(R) + Delta(g[x], c)
  <2> HIDE DEF G, R
  <2> QED BY <1>3, <1>4 DEF Delta
<1>7. Delta(f[x], c) \in Nat /\ Delta(g[x], c) \in Nat
  BY DEF Delta
<1>8. Number(f, S, c) = Cardinality(F) /\ Number(g, S, c) = Cardinality(G)
  BY DEF Number
<1> HIDE DEF F, G, R
<1> QED BY <1>4, <1>5, <1>6, <1>7, <1>8

LEMMA NumberHas ==
    ASSUME NEW S, IsFiniteSet(S), NEW f, NEW c
    PROVE  /\ Number(f, S, c) \in Nat
           /\ (\E x \in S : f[x] = c) <=> Number(f, S, c) >= 1
           /\ \A g : (\A x \in S : g[x] = f[x]) => Number(g, S, c) = Number(f, S, c)
<1> DEFINE F == {y \in S : f[y] = c}
<1>1. IsFiniteSet(F) /\ Cardinality(F) \in Nat
  BY FS_Subset, FS_CardinalityType
<1>2. (\E x \in S : f[x] = c) <=> F # {}
  OBVIOUS
<1>3. F # {} <=> Cardinality(F) >= 1
  <2> HIDE DEF F
  <2> QED BY <1>1, FS_EmptySet
<1>4. ASSUME NEW g, \A x \in S : g[x] = f[x] PROVE Number(g, S, c) = Number(f, S, c)
  BY <1>4 DEF Number
<1>5. Number(f, S, c) = Cardinality(F)
  BY DEF Number
<1> HIDE DEF F
<1> QED BY <1>1, <1>2, <1>3, <1>4, <1>5

LEMMA AlsoIs ==
    ASSUME NEW e \in [Cells -> Nat], NEW c
    PROVE  /\ Also(e, c) \in [Cells -> Nat]
           /\ \A d \in Cells : Also(e, c)[d] = e[d] + Delta(d, c)
           /\ c \notin Cells => Also(e, c) = e
<1>1. \A d \in Cells : Delta(d, c) \in Nat
  BY DEF Delta
<1>2. Also(e, c) \in [Cells -> Nat] /\ \A d \in Cells : Also(e, c)[d] = e[d] + Delta(d, c)
  BY <1>1 DEF Also
<1>3. c \notin Cells => \A d \in Cells : Also(e, c)[d] = e[d]
  BY DEF Also, Delta
<1> QED BY <1>2, <1>3

-------------------------------------------------------------------------------
LEMMA FreeIsCell == Free \in CellRec /\ UndefinedValue \in Vals /\ Unborn \in Vals
<1>1. UndefinedValue \in Vals /\ Unborn \in Vals
  BY DEF UndefinedValue, Unborn, Typed, Vals, TypeNames
<1> QED BY <1>1 DEF Free, CellRec, Kinds

\* A cell somebody holds is alive.
LEMMA HeldIsLive ==
    ASSUME NEW h, NEW e, NEW pin, NEW fresh, Sound(h, e, pin, fresh), NEW c \in Cells
    PROVE  /\ Number(Inner(h.cells, pin), Cells, c) \in Nat
           /\ e[c] >= 1 => h.cells[c].kind # "free" /\ h.cells[c].count >= 1
           /\ (\E d \in Cells : Inner(h.cells, pin)[d] = c) =>
                 h.cells[c].kind # "free" /\ h.cells[c].count >= 1
<1> DEFINE n == Number(Inner(h.cells, pin), Cells, c)
<1>1. n \in Nat /\ ((\E d \in Cells : Inner(h.cells, pin)[d] = c) => n >= 1)
  BY NumberHas, CountAssumption
<1>2. h.cells[c].count = n + e[c] /\ e[c] \in Nat
  BY DEF Sound
<1>3. h.cells[c].kind = "free" => h.cells[c].count = 0
  BY DEF Sound, Shaped, Free
<1> HIDE DEF n
<1>4. e[c] >= 1 => h.cells[c].count >= 1
  BY <1>1, <1>2
<1>5. (\E d \in Cells : Inner(h.cells, pin)[d] = c) => h.cells[c].count >= 1
  BY <1>1, <1>2
<1> QED BY <1>1, <1>3, <1>4, <1>5 DEF n

\* Soundness depends on the cells only.
LEMMA SoundCells ==
    ASSUME NEW h, NEW e, NEW pin, NEW fresh, Sound(h, e, pin, fresh),
           NEW z \in Stores, z.cells = h.cells, z.fault = h.fault
    PROVE  Sound(z, e, pin, fresh)
BY DEF Sound

LEMMA StoreParts ==
    ASSUME NEW h \in Stores
    PROVE  /\ h.cells \in [Cells -> CellRec] /\ h.locals \in [Locals -> Vals]
           /\ h.pointers \in [Pointers -> Cells \cup {NoCell}] /\ h.fault \in BOOLEAN
           /\ \A T \in [Cells -> CellRec] : [h EXCEPT !.cells = T] \in Stores
           /\ \A l \in Locals, v \in Vals : Put(h, l, v) \in Stores
           /\ \A c \in Cells, r \in CellRec :
                 /\ [h EXCEPT !.cells[c] = r] \in Stores
                 /\ [h EXCEPT !.cells[c] = r].cells = [h.cells EXCEPT ![c] = r]
                 /\ [h EXCEPT !.cells[c] = r].locals = h.locals
                 /\ [h EXCEPT !.cells[c] = r].pointers = h.pointers
                 /\ [h EXCEPT !.cells[c] = r].fault = h.fault
BY DEF Stores, Put

\* Cells that differ in their counts only.
LEMMA InnerSame ==
    ASSUME NEW T, NEW U, NEW pin, \A c \in Cells : Same(T, U, c)
    PROVE  /\ Inner(U, pin) = Inner(T, pin)
           /\ \A v : HoldsCell(v) /\ v.cell \in Cells /\ Fits(T, v) => Fits(U, v)
BY DEF Same, Inner, HeldBy, Fits

LEMMA AddRefSound ==
    ASSUME NEW h, NEW e, NEW pin, NEW fresh, Sound(h, e, pin, fresh),
           NEW c \in Cells \cup {NoCell}, c # NoCell => h.cells[c].kind # "free"
    PROVE  /\ Sound(AddRef(h, c), Also(e, c), pin, fresh \ {c})
           /\ AddRef(h, c).locals = h.locals /\ AddRef(h, c).pointers = h.pointers
           /\ \A d \in Cells : Same(h.cells, AddRef(h, c).cells, d)
<1>1. CASE c = NoCell
  <2>1. AddRef(h, c) = h /\ c \notin Cells
    BY <1>1, CountAssumption DEF AddRef
  <2>2. Also(e, c) = e
    BY <2>1, AlsoIs DEF Sound
  <2>3. Sound(h, e, pin, fresh \ {c})
    BY <2>1 DEF Sound
  <2> QED BY <2>1, <2>2, <2>3 DEF Same
<1>2. CASE c # NoCell
  <2> DEFINE r == [h.cells[c] EXCEPT !.count = @ + 1]
            x == [h EXCEPT !.cells[c] = r]
  <2>1. h \in Stores /\ c \in Cells /\ h.cells[c] \in CellRec
    BY <1>2 DEF Sound, Stores
  <2>2. AddRef(h, c) = x
    BY <1>2, <2>1 DEF AddRef, Stores
  <2>3. /\ r \in CellRec /\ r.kind = h.cells[c].kind /\ r.property = h.cells[c].property
        /\ r.base = h.cells[c].base /\ r.count = h.cells[c].count + 1
    BY <2>1 DEF CellRec
  <2> HIDE DEF r
  <2>4. x \in Stores /\ x.cells = [h.cells EXCEPT ![c] = r] /\ x.locals = h.locals
        /\ x.pointers = h.pointers /\ x.fault = h.fault
    BY <2>1, <2>3, StoreParts
  <2>5. x.cells[c] = r /\ \A d \in Cells \ {c} : x.cells[d] = h.cells[d]
    BY <2>1, <2>4, StoreParts
  <2> HIDE DEF x
  <2>6. \A d \in Cells : Same(h.cells, x.cells, d)
    BY <2>3, <2>5 DEF Same
  <2>7. Inner(x.cells, pin) = Inner(h.cells, pin)
    BY <2>6, InnerSame
  <2>8. ASSUME NEW d \in Cells
        PROVE  x.cells[d].count = Number(Inner(x.cells, pin), Cells, d) + Also(e, c)[d]
    <3>1. Also(e, c)[d] = e[d] + (IF d = c THEN 1 ELSE 0) /\ e[d] \in Nat
      BY AlsoIs DEF Sound, Delta
    <3>2. h.cells[d].count = Number(Inner(h.cells, pin), Cells, d) + e[d]
      BY DEF Sound
    <3>3. Number(Inner(h.cells, pin), Cells, d) \in Nat
      BY HeldIsLive
    <3>4. x.cells[d].count = h.cells[d].count + (IF d = c THEN 1 ELSE 0)
      <4>1. h.cells[d].count \in Nat
        BY <2>1, StoreParts DEF CellRec
      <4> QED BY <2>3, <2>5, <4>1
    <3> QED BY <2>7, <3>1, <3>2, <3>3, <3>4
  <2>9. ASSUME NEW d \in Cells
        PROVE  x.cells[d].kind # "free" /\ d \notin fresh \ {c} => x.cells[d].count > 0
    BY <2>1, <2>3, <2>5, StoreParts DEF Sound, CellRec
  <2>10. ASSUME NEW d \in Cells PROVE Shaped(x.cells, pin, d)
    <3>1. Shaped(h.cells, pin, d)
      BY DEF Sound
    <3>2. x.cells[d].kind = "free" => x.cells[d] = Free
      BY <1>2, <2>3, <2>5, <3>1 DEF Shaped
    <3>3. Same(h.cells, x.cells, d) /\ \A b \in Cells : x.cells[b].kind = h.cells[b].kind
      BY <2>6 DEF Same
    <3>4. h.cells[d].kind = "object" /\ d # pin => Fits(x.cells, h.cells[d].property)
      BY <3>1, <3>3 DEF Shaped, Fits
    <3> QED BY <3>1, <3>2, <3>3, <3>4 DEF Shaped, Same
  <2>11. Also(e, c) \in [Cells -> Nat]
    BY AlsoIs DEF Sound
  <2>12. Sound(x, Also(e, c), pin, fresh \ {c})
    BY <2>4, <2>8, <2>9, <2>10, <2>11 DEF Sound
  <2> QED BY <2>2, <2>4, <2>6, <2>12
<1> QED BY <1>1, <1>2

-------------------------------------------------------------------------------
(*                             Releases                                    *)

\* What is still alive is what it was; and what nobody has held yet stays.
Loyal(T, U) ==
    \A d \in Cells : /\ U[d].kind # "free" => Same(T, U, d)
                     /\ T[d].kind # "free" /\ T[d].count = 0 => U[d] = T[d]

\* The pinned cell is the base of a reference that is held.
Anchored(T, e, pin) ==
    pin # NoCell => /\ pin \in Cells /\ T[pin].kind = "object"
                    /\ \E r \in Cells : e[r] >= 1 /\ T[r].kind = "reference" /\ T[r].base = pin

LEMMA HeldByIs ==
    ASSUME NEW T \in [Cells -> CellRec], NEW pin, NEW c \in Cells
    PROVE  /\ HeldBy(T[c]) \in Cells \cup {NoCell}
           /\ Inner(T, pin)[c] = IF c = pin THEN NoCell ELSE HeldBy(T[c])
           /\ T[c].kind = "free" => HeldBy(T[c]) = NoCell
           /\ T[c].kind = "string" => HeldBy(T[c]) = NoCell
           /\ T[c].kind = "object" => HeldBy(T[c]) = CellOf(T[c].property)
           /\ T[c].kind = "reference" => HeldBy(T[c]) = T[c].base
BY DEF HeldBy, Inner, CellRec, Vals, CellOf, HoldsCell

\* A reference or an object that is alive holds a cell that is.
LEMMA WhatIsHeld ==
    ASSUME NEW h, NEW e, NEW pin, NEW fresh, Sound(h, e, pin, fresh), NEW c \in Cells,
           h.cells[c].kind = "reference" \/ (h.cells[c].kind = "object" /\ c # pin),
           HeldBy(h.cells[c]) # NoCell
    PROVE  HeldBy(h.cells[c]) \in Cells /\ h.cells[HeldBy(h.cells[c])].kind # "free"
<1>1. Shaped(h.cells, pin, c) /\ h.cells \in [Cells -> CellRec]
  BY DEF Sound, Stores
<1>2. HeldBy(h.cells[c]) \in Cells
  BY <1>1, HeldByIs
<1>3. CASE h.cells[c].kind = "reference"
  BY <1>1, <1>3, HeldByIs DEF Shaped
<1>4. CASE h.cells[c].kind = "object" /\ c # pin
  <2>1. Fits(h.cells, h.cells[c].property) /\ HeldBy(h.cells[c]) = CellOf(h.cells[c].property)
    BY <1>1, <1>4, HeldByIs DEF Shaped
  <2> QED BY <1>2, <2>1 DEF Fits, CellOf, HoldsCell
<1> QED BY <1>2, <1>3, <1>4

Frees(h, c, x, n) ==
    /\ ~(h.cells[c].count > 1)
    /\ x = [h EXCEPT !.cells[c] = Free]
    /\ n = HeldBy(h.cells[c])

Freed(h, e, pin, fresh, c, x, n) ==
    /\ n \in Cells \cup {NoCell}
    /\ Sound(x, Also(e, n), pin, fresh)
    /\ x.locals = h.locals /\ x.pointers = h.pointers
    /\ Loyal(h.cells, x.cells)
    /\ h.cells[c].kind # "free" /\ x.cells[c].kind = "free"
    /\ \A d \in Cells \ {c} : x.cells[d] = h.cells[d]

LEMMA LastRelease ==
    ASSUME NEW h, NEW e \in [Cells -> Nat], NEW pin, NEW fresh, NEW c \in Cells,
           Sound(h, Also(e, c), pin, fresh), Anchored(h.cells, e, pin),
           NEW x, NEW n, Frees(h, c, x, n)
    PROVE  Freed(h, e, pin, fresh, c, x, n)
<1> DEFINE T == h.cells
          U == x.cells
          A(d) == Number(Inner(T, pin), Cells, d)
          B(d) == Number(Inner(U, pin), Cells, d)
<1>0. x = [h EXCEPT !.cells[c] = Free] /\ n = HeldBy(T[c]) /\ ~(T[c].count > 1)
  BY DEF Frees
<1>1. h \in Stores /\ T \in [Cells -> CellRec] /\ Free \in CellRec
  BY FreeIsCell DEF Sound, Stores
<1>2. x \in Stores /\ U = [T EXCEPT ![c] = Free] /\ x.locals = h.locals
      /\ x.pointers = h.pointers /\ x.fault = h.fault
  BY <1>0, <1>1, StoreParts
<1>3. U[c] = Free /\ U \in [Cells -> CellRec] /\ \A d \in Cells \ {c} : U[d] = T[d]
  BY <1>1, <1>2
<1>4. n \in Cells \cup {NoCell} /\ NoCell \notin Cells
  BY <1>0, <1>1, HeldByIs, CountAssumption
<1>5. \A d \in Cells : A(d) \in Nat /\ T[d].count = A(d) + Also(e, c)[d]
  BY HeldIsLive DEF Sound
<1> HIDE DEF T, U
<1>6. \A d \in Cells : Also(e, c)[d] = e[d] + (IF d = c THEN 1 ELSE 0) /\ e[d] \in Nat
  BY AlsoIs DEF Delta
<1>7. T[c].count = 1 /\ A(c) = 0 /\ e[c] = 0
  <2>1. T[c].count \in Nat /\ ~(T[c].count > 1)
    BY <1>0, <1>1 DEF CellRec, T
  <2> HIDE DEF A
  <2> QED BY <1>5, <1>6, <2>1
<1>8. \A d \in Cells : Inner(T, pin)[d] # c
  BY <1>5, <1>7, NumberHas, CountAssumption
<1>9. T[c].kind # "free" /\ T[c].count # 0
  <2>1. Shaped(T, pin, c)
    BY DEF Sound, T
  <2> QED BY <1>7, <2>1 DEF Shaped, Free
<1>10. c # pin
  <2> SUFFICES ASSUME c = pin PROVE FALSE
    OBVIOUS
  <2>1. PICK r \in Cells : T[r].kind = "reference" /\ T[r].base = pin /\ T[pin].kind = "object"
    BY <1>4 DEF Anchored, T
  <2>2. Inner(T, pin)[r] = pin
    BY <1>1, <2>1, HeldByIs
  <2> QED BY <1>8, <2>2
<1>11. Inner(T, pin)[c] = n /\ Inner(U, pin)[c] = NoCell
  BY <1>0, <1>1, <1>3, <1>10, HeldByIs DEF Free
<1>12. \A d \in Cells \ {c} : Inner(U, pin)[d] = Inner(T, pin)[d]
  BY <1>3 DEF Inner
<1>13. \A d \in Cells : B(d) \in Nat /\ B(d) + Delta(n, d) = A(d) + Delta(NoCell, d)
  <2> TAKE d \in Cells
  <2> DEFINE f == Inner(T, pin)
            g == Inner(U, pin)
  <2>1. f[c] = n /\ g[c] = NoCell /\ ButAt(c, f, g, Cells)
    BY <1>11, <1>12 DEF ButAt
  <2>2. A(d) = Number(f, Cells, d) /\ B(d) = Number(g, Cells, d)
    OBVIOUS
  <2> HIDE DEF f, g, A, B
  <2>3. /\ Number(g, Cells, d) \in Nat
        /\ Number(g, Cells, d) + Delta(f[c], d) = Number(f, Cells, d) + Delta(g[c], d)
    BY <2>1, NumberChanged, CountAssumption
  <2> QED BY <2>1, <2>2, <2>3
<1>14. \A d \in Cells : B(d) \in Nat /\ B(d) + (IF n = d THEN 1 ELSE 0) = A(d)
  <2> HIDE DEF A, B
  <2> QED BY <1>4, <1>5, <1>13 DEF Delta
<1>15. \A d \in Cells : U[d].count = B(d) + Also(e, n)[d]
  <2> TAKE d \in Cells
  <2>1. Also(e, n)[d] = e[d] + (IF d = n THEN 1 ELSE 0)
    BY AlsoIs DEF Delta
  <2>2. d = c => U[d].count = 0
    BY <1>3 DEF Free
  <2>3. d # c => U[d].count = T[d].count
    BY <1>3
  <2>4. /\ B(d) \in Nat /\ B(d) + (IF n = d THEN 1 ELSE 0) = A(d)
        /\ A(d) \in Nat /\ T[d].count = A(d) + Also(e, c)[d]
    BY <1>5, <1>14
  <2>5. A(c) = 0 /\ e[c] = 0
    BY <1>7
  <2> HIDE DEF A, B
  <2> QED BY <1>6, <2>1, <2>2, <2>3, <2>4, <2>5
<1>16. \A d \in Cells : Shaped(U, pin, d)
  <2> TAKE d \in Cells
  <2>1. CASE d = c
    BY <1>3, <2>1 DEF Shaped, Free
  <2>2. CASE d # c
    <3>1. U[d] = T[d] /\ Shaped(T, pin, d)
      BY <1>3, <2>2 DEF Sound, T
    <3>2. Inner(T, pin)[d] # c
      BY <1>8
    <3>3. T[d].kind = "reference" => d # pin
      BY <1>4 DEF Anchored, T
    <3>4. T[d].kind = "reference" => T[d].base # c
      BY <1>1, <3>2, <3>3, HeldByIs
    <3>5. T[d].kind = "object" /\ d # pin => CellOf(T[d].property) # c
      BY <1>1, <3>2, HeldByIs
    <3>6. T[d].kind = "object" /\ d # pin => Fits(U, T[d].property)
      BY <1>3, <3>1, <3>5 DEF Shaped, Fits, CellOf
    <3>7. T[d].kind = "reference" => T[d].base \in Cells /\ U[T[d].base].kind = "object"
      BY <1>3, <3>1, <3>4 DEF Shaped
    <3> QED BY <3>1, <3>6, <3>7 DEF Shaped
  <2> QED BY <2>1, <2>2
<1>17. \A d \in Cells : U[d].kind # "free" /\ d \notin fresh => U[d].count > 0
  BY <1>3 DEF Sound, T, Free
<1>18. Sound(x, Also(e, n), pin, fresh)
  <2>1. Also(e, n) \in [Cells -> Nat]
    BY AlsoIs
  <2>2. ~x.fault
    BY <1>2 DEF Sound
  <2> QED BY <1>2, <1>15, <1>16, <1>17, <2>1, <2>2 DEF Sound, U
<1>19. Loyal(T, U)
  BY <1>3, <1>9 DEF Loyal, Same, Free
<1>20. U[c].kind = "free"
  BY <1>3 DEF Free
<1> QED BY <1>2, <1>3, <1>4, <1>9, <1>18, <1>19, <1>20 DEF T, U, Freed

LEMMA ReleaseOneSound ==
    ASSUME NEW h, NEW e \in [Cells -> Nat], NEW pin, NEW fresh, NEW c \in Cells \cup {NoCell},
           Sound(h, Also(e, c), pin, fresh), Anchored(h.cells, e, pin)
    PROVE  LET x == ReleaseOne(h, c).store
               n == ReleaseOne(h, c).next
           IN  /\ n \in Cells \cup {NoCell}
               /\ Sound(x, Also(e, n), pin, fresh)
               /\ x.locals = h.locals /\ x.pointers = h.pointers
               /\ Loyal(h.cells, x.cells)
               /\ n # NoCell => FreeCells(x) = FreeCells(h) \cup {c} /\ c \in Cells \ FreeCells(h)
<1>0. Also(e, NoCell) = e /\ NoCell \notin Cells
  BY CountAssumption, AlsoIs
<1>1. CASE c = NoCell
  <2>1. ReleaseOne(h, c).store = h /\ ReleaseOne(h, c).next = NoCell
    BY <1>1 DEF ReleaseOne
  <2> QED BY <1>0, <1>1, <2>1 DEF Loyal, Same
<1>2. ASSUME c # NoCell PROVE c \in Cells /\ h.cells[c].kind # "free" /\ Also(e, c)[c] >= 1
  <2>1. c \in Cells /\ Also(e, c)[c] = e[c] + 1 /\ e[c] \in Nat
    BY <1>2, AlsoIs DEF Delta
  <2> QED BY <2>1, HeldIsLive
<1>3. CASE c # NoCell /\ h.cells[c].count > 1
  <2> DEFINE r == [h.cells[c] EXCEPT !.count = @ - 1]
            x == [h EXCEPT !.cells[c] = r]
  <2>1. h \in Stores /\ c \in Cells /\ h.cells[c] \in CellRec /\ h.cells[c].kind # "free"
    BY <1>2, <1>3 DEF Sound, Stores
  <2>2. ReleaseOne(h, c).store = x /\ ReleaseOne(h, c).next = NoCell
    BY <1>3, <2>1 DEF ReleaseOne, Stores
  <2>3. /\ r \in CellRec /\ r.kind = h.cells[c].kind /\ r.property = h.cells[c].property
        /\ r.base = h.cells[c].base /\ r.count = h.cells[c].count - 1 /\ h.cells[c].count \in Nat
    BY <1>3, <2>1 DEF CellRec
  <2> HIDE DEF r
  <2>4. x \in Stores /\ x.cells = [h.cells EXCEPT ![c] = r] /\ x.locals = h.locals
        /\ x.pointers = h.pointers /\ x.fault = h.fault
    BY <2>1, <2>3, StoreParts
  <2>5. x.cells[c] = r /\ \A d \in Cells \ {c} : x.cells[d] = h.cells[d]
    BY <2>1, <2>4, StoreParts
  <2> HIDE DEF x
  <2>6. \A d \in Cells : Same(h.cells, x.cells, d)
    BY <2>3, <2>5 DEF Same
  <2>7. Inner(x.cells, pin) = Inner(h.cells, pin)
    BY <2>6, InnerSame
  <2>8. ASSUME NEW d \in Cells
        PROVE  x.cells[d].count = Number(Inner(x.cells, pin), Cells, d) + e[d]
    <3>1. Also(e, c)[d] = e[d] + (IF d = c THEN 1 ELSE 0) /\ e[d] \in Nat
      BY AlsoIs DEF Delta
    <3>2. h.cells[d].count = Number(Inner(h.cells, pin), Cells, d) + Also(e, c)[d]
      BY DEF Sound
    <3>3. Number(Inner(h.cells, pin), Cells, d) \in Nat
      BY HeldIsLive
    <3>4. x.cells[d].count = h.cells[d].count - (IF d = c THEN 1 ELSE 0)
      <4>1. h.cells[d].count \in Nat
        BY <2>1, StoreParts DEF CellRec
      <4> QED BY <2>3, <2>5, <4>1
    <3> QED BY <2>7, <3>1, <3>2, <3>3, <3>4
  <2>9. ASSUME NEW d \in Cells
        PROVE  x.cells[d].kind # "free" /\ d \notin fresh => x.cells[d].count > 0
    BY <1>3, <2>3, <2>5 DEF Sound
  <2>10. ASSUME NEW d \in Cells PROVE Shaped(x.cells, pin, d)
    <3>1. Shaped(h.cells, pin, d)
      BY DEF Sound
    <3>2. x.cells[d].kind = "free" => x.cells[d] = Free
      BY <2>1, <2>3, <2>5, <3>1 DEF Shaped
    <3>3. Same(h.cells, x.cells, d) /\ \A b \in Cells : x.cells[b].kind = h.cells[b].kind
      BY <2>6 DEF Same
    <3>4. h.cells[d].kind = "object" /\ d # pin => Fits(x.cells, h.cells[d].property)
      BY <3>1, <3>3 DEF Shaped, Fits
    <3> QED BY <3>1, <3>2, <3>3, <3>4 DEF Shaped, Same
  <2>11. Sound(x, e, pin, fresh)
    BY <2>4, <2>8, <2>9, <2>10 DEF Sound
  <2>12. Loyal(h.cells, x.cells)
    BY <1>3, <2>5, <2>6 DEF Loyal
  <2> QED BY <1>0, <2>2, <2>4, <2>11, <2>12
<1>4. CASE c # NoCell /\ ~(h.cells[c].count > 1)
  <2> DEFINE x == [h EXCEPT !.cells[c] = Free]
            n == HeldBy(h.cells[c])
  <2>1. ReleaseOne(h, c).store = x /\ ReleaseOne(h, c).next = n
    BY <1>2, <1>4 DEF ReleaseOne
  <2>2. /\ n \in Cells \cup {NoCell}
        /\ Sound(x, Also(e, n), pin, fresh)
        /\ x.locals = h.locals /\ x.pointers = h.pointers
        /\ Loyal(h.cells, x.cells)
        /\ h.cells[c].kind # "free" /\ x.cells[c].kind = "free"
        /\ \A d \in Cells \ {c} : x.cells[d] = h.cells[d]
    <3>1. c \in Cells
      BY <1>2, <1>4
    <3>2. Frees(h, c, x, n)
      BY <1>4 DEF Frees
    <3> HIDE DEF x, n
    <3>3. Freed(h, e, pin, fresh, c, x, n)
      BY <3>1, <3>2, LastRelease
    <3> QED BY <3>3 DEF Freed
  <2> HIDE DEF x, n
  <2>3. FreeCells(x) = FreeCells(h) \cup {c} /\ c \in Cells \ FreeCells(h)
    BY <1>2, <1>4, <2>2 DEF FreeCells
  <2> QED BY <2>1, <2>2, <2>3
<1> QED BY <1>1, <1>3, <1>4

LEMMA LoyalOn ==
    ASSUME NEW T, NEW U, NEW W, Loyal(T, U), Loyal(U, W)
    PROVE  Loyal(T, W)
BY DEF Loyal, Same

LEMMA AnchorHolds ==
    ASSUME NEW T, NEW h, NEW e \in [Cells -> Nat], NEW pin, NEW fresh, NEW c,
           Sound(h, Also(e, c), pin, fresh), Loyal(T, h.cells), Anchored(T, e, pin)
    PROVE  Anchored(h.cells, e, pin)
<1> SUFFICES ASSUME pin # NoCell PROVE Anchored(h.cells, e, pin)
  BY DEF Anchored
<1>1. PICK r \in Cells : /\ pin \in Cells /\ T[pin].kind = "object"
                         /\ e[r] >= 1 /\ T[r].kind = "reference" /\ T[r].base = pin
  BY DEF Anchored
<1>2. h.cells[r].kind # "free"
  <2>1. Also(e, c)[r] = e[r] + Delta(r, c) /\ Delta(r, c) \in Nat /\ e[r] \in Nat
    BY AlsoIs DEF Delta
  <2>2. Also(e, c)[r] >= 1
    BY <1>1, <2>1
  <2> QED BY <2>2, HeldIsLive
<1>3. h.cells[r].kind = "reference" /\ h.cells[r].base = pin
  BY <1>1, <1>2 DEF Loyal, Same
<1>4. h.cells[pin].kind = "object"
  BY <1>3 DEF Sound, Shaped
<1> QED BY <1>1, <1>3, <1>4 DEF Anchored

LEMMA ReleaseOneIs ==
    ASSUME NEW h, NEW c
    PROVE  ReleaseOne(h, c) = [store |-> ReleaseOne(h, c).store, next |-> ReleaseOne(h, c).next]
<1>1. CASE c = NoCell
  BY <1>1 DEF ReleaseOne
<1>2. CASE c # NoCell /\ h.cells[c].kind = "free"
  BY <1>2 DEF ReleaseOne
<1>3. CASE c # NoCell /\ h.cells[c].kind # "free" /\ h.cells[c].count > 1
  BY <1>3 DEF ReleaseOne
<1>4. CASE c # NoCell /\ h.cells[c].kind # "free" /\ ~(h.cells[c].count > 1)
  BY <1>4 DEF ReleaseOne
<1> QED BY <1>1, <1>2, <1>3, <1>4

\* After n releases: the store, and the cell that is still to be released.
AfterSome(h, e, pin, fresh, s, n) ==
    /\ s \in [store : Stores, next : Cells \cup {NoCell}]
    /\ Sound(s.store, Also(e, s.next), pin, fresh)
    /\ s.store.locals = h.locals /\ s.store.pointers = h.pointers
    /\ Loyal(h.cells, s.store.cells)
    /\ s.next # NoCell => Cardinality(FreeCells(s.store)) >= n

LEMMA AfterOneMore ==
    ASSUME NEW h, NEW e \in [Cells -> Nat], NEW pin, NEW fresh, NEW s, NEW n \in Nat,
           AfterSome(h, e, pin, fresh, s, n), Anchored(h.cells, e, pin)
    PROVE  AfterSome(h, e, pin, fresh, ReleaseOne(s.store, s.next), n + 1)
<1> DEFINE x == ReleaseOne(s.store, s.next).store
           m == ReleaseOne(s.store, s.next).next
           t == ReleaseOne(s.store, s.next)
<1>1. s.next \in Cells \cup {NoCell} /\ Sound(s.store, Also(e, s.next), pin, fresh)
  BY DEF AfterSome
<1>2. Anchored(s.store.cells, e, pin)
  BY AnchorHolds DEF AfterSome
<1>3. /\ m \in Cells \cup {NoCell}
      /\ Sound(x, Also(e, m), pin, fresh)
      /\ x.locals = s.store.locals /\ x.pointers = s.store.pointers
      /\ Loyal(s.store.cells, x.cells)
      /\ m # NoCell => /\ FreeCells(x) = FreeCells(s.store) \cup {s.next}
                       /\ s.next \in Cells \ FreeCells(s.store)
  BY <1>1, <1>2, ReleaseOneSound
<1>4. t = [store |-> x, next |-> m]
  BY ReleaseOneIs
<1> HIDE DEF x, m, t
<1>5. x \in Stores
  BY <1>3 DEF Sound
<1>6. t \in [store : Stores, next : Cells \cup {NoCell}] /\ t.store = x /\ t.next = m
  BY <1>3, <1>4, <1>5
<1>7. Loyal(h.cells, x.cells)
  BY <1>3, LoyalOn DEF AfterSome
<1>8. m # NoCell => Cardinality(FreeCells(x)) >= n + 1
  <2> SUFFICES ASSUME m # NoCell PROVE Cardinality(FreeCells(x)) >= n + 1
    OBVIOUS
  <2>1. s.next # NoCell /\ s.next \notin FreeCells(s.store)
    BY <1>3, CountAssumption
  <2>2. IsFiniteSet(FreeCells(s.store)) /\ Cardinality(FreeCells(s.store)) \in Nat
    <3>1. FreeCells(s.store) \subseteq Cells
      BY DEF FreeCells
    <3> QED BY <3>1, CountAssumption, FS_Subset, FS_CardinalityType
  <2>3. Cardinality(FreeCells(x)) = Cardinality(FreeCells(s.store)) + 1
    BY <1>3, <2>1, <2>2, FS_AddElement
  <2>4. Cardinality(FreeCells(s.store)) >= n
    BY <2>1 DEF AfterSome
  <2> QED BY <2>2, <2>3, <2>4
<1>9. x.locals = h.locals /\ x.pointers = h.pointers
  BY <1>3 DEF AfterSome
<1>10. AfterSome(h, e, pin, fresh, t, n + 1)
  BY <1>3, <1>6, <1>7, <1>8, <1>9 DEF AfterSome
<1> QED BY <1>10 DEF t

\* f is what Releases computes up to its nth release.
IsReleases(f, h, c, n) ==
    /\ f[0] = [store |-> h, next |-> c]
    /\ \A k \in 1 .. n : f[k] = ReleaseOne(f[k-1].store, f[k-1].next)

LEMMA ReleasesExist ==
    ASSUME NEW h, NEW e \in [Cells -> Nat], NEW pin, NEW fresh, NEW c \in Cells \cup {NoCell},
           Sound(h, Also(e, c), pin, fresh), Anchored(h.cells, e, pin), NEW n \in Nat
    PROVE  \E f : /\ f = [k \in 0 .. n |-> f[k]] /\ IsReleases(f, h, c, n)
                  /\ AfterSome(h, e, pin, fresh, f[n], n)
<1> DEFINE Good(f, m) == /\ f = [k \in 0 .. m |-> f[k]] /\ IsReleases(f, h, c, m)
                         /\ AfterSome(h, e, pin, fresh, f[m], m)
           S == {m \in Nat : \E f : Good(f, m)}
<1>1. 0 \in S
  <2> DEFINE s == [store |-> h, next |-> c]
            f == [k \in 0 .. 0 |-> s]
  <2>1. f = [k \in 0 .. 0 |-> f[k]] /\ f[0] = s
    OBVIOUS
  <2>2. IsReleases(f, h, c, 0)
    <3>1. \A k \in 1 .. 0 : FALSE
      OBVIOUS
    <3> QED BY <2>1, <3>1 DEF IsReleases
  <2>3. h \in Stores
    BY DEF Sound
  <2>4. s \in [store : Stores, next : Cells \cup {NoCell}] /\ s.store = h /\ s.next = c
    BY <2>3
  <2>5. Cardinality(FreeCells(h)) >= 0
    <3>1. FreeCells(h) \subseteq Cells
      BY DEF FreeCells
    <3>2. Cardinality(FreeCells(h)) \in Nat
      BY <3>1, CountAssumption, FS_Subset, FS_CardinalityType
    <3> QED BY <3>2
  <2>6. Loyal(h.cells, h.cells)
    BY DEF Loyal, Same
  <2> HIDE DEF s
  <2>7. AfterSome(h, e, pin, fresh, s, 0)
    BY <2>4, <2>5, <2>6 DEF AfterSome
  <2> HIDE DEF f
  <2>8. Good(f, 0)
    BY <2>1, <2>2, <2>7
  <2> QED BY <2>8
<1>2. ASSUME NEW m \in Nat, m \in S PROVE m + 1 \in S
  <2>1. PICK f : Good(f, m)
    BY <1>2
  <2> DEFINE t == ReleaseOne(f[m].store, f[m].next)
            g == [k \in 0 .. m + 1 |-> IF k = m + 1 THEN t ELSE f[k]]
  <2>2. AfterSome(h, e, pin, fresh, t, m + 1)
    <3>1. AfterSome(h, e, pin, fresh, f[m], m)
      BY <2>1
    <3> QED BY <3>1, AfterOneMore
  <2> HIDE DEF t
  <2>3. g = [k \in 0 .. m + 1 |-> g[k]] /\ g[m + 1] = t /\ \A k \in 0 .. m : g[k] = f[k]
    OBVIOUS
  <2> HIDE DEF g
  <2>4. IsReleases(f, h, c, m)
    BY <2>1
  <2>5. g[0] = [store |-> h, next |-> c]
    <3>1. 0 \in 0 .. m
      OBVIOUS
    <3>2. f[0] = [store |-> h, next |-> c]
      BY <2>4 DEF IsReleases
    <3> QED BY <2>3, <3>1, <3>2
  <2>6. ASSUME NEW k \in 1 .. m + 1 PROVE g[k] = ReleaseOne(g[k-1].store, g[k-1].next)
    <3>1. CASE k = m + 1
      <4>1. k - 1 = m /\ g[m] = f[m]
        BY <2>3, <3>1
      <4> QED BY <2>3, <3>1, <4>1 DEF t
    <3>2. CASE k # m + 1
      <4>1. k \in 1 .. m /\ k \in 0 .. m /\ k - 1 \in 0 .. m
        BY <3>2
      <4>2. g[k] = f[k] /\ g[k-1] = f[k-1]
        BY <2>3, <4>1
      <4> QED BY <2>4, <4>1, <4>2 DEF IsReleases
    <3> QED BY <3>1, <3>2
  <2>7. IsReleases(g, h, c, m + 1)
    BY <2>5, <2>6 DEF IsReleases
  <2>8. Good(g, m + 1)
    BY <2>2, <2>3, <2>7
  <2> HIDE DEF Good
  <2> QED BY <2>8
<1>3. Nat \subseteq S
  <2> HIDE DEF S
  <2> QED BY <1>1, <1>2, Steps
<1>4. n \in S
  BY <1>3
<1> QED BY <1>4

\* Releasing a cell that is held takes one from its count, and frees what
\* nothing holds any more and nothing else.
LEMMA ReleaseSound ==
    ASSUME NEW h, NEW e \in [Cells -> Nat], NEW pin, NEW fresh, NEW c \in Cells \cup {NoCell},
           Sound(h, Also(e, c), pin, fresh), Anchored(h.cells, e, pin)
    PROVE  /\ Sound(Release(h, c), e, pin, fresh)
           /\ Release(h, c).locals = h.locals /\ Release(h, c).pointers = h.pointers
           /\ Loyal(h.cells, Release(h, c).cells)
<1> DEFINE M == MostReleases
           first == [store |-> h, next |-> c]
           F(m) == [k \in 0 .. M |-> IF k = 0 THEN first ELSE ReleaseOne(m[k-1].store, m[k-1].next)]
           b == CHOOSE m : m = F(m)
<1>1. M \in Nat /\ M = Cardinality(Cells) + 1
  BY CountAssumption, FS_CardinalityType DEF MostReleases
<1>2. PICK f : /\ f = [k \in 0 .. M |-> f[k]] /\ IsReleases(f, h, c, M)
               /\ AfterSome(h, e, pin, fresh, f[M], M)
  <2> HIDE DEF M
  <2> QED BY <1>1, ReleasesExist
<1>3. f = F(f)
  <2>1. \A k \in 0 .. M : f[k] = IF k = 0 THEN first ELSE ReleaseOne(f[k-1].store, f[k-1].next)
    <3>1. f[0] = first /\ \A k \in 1 .. M : f[k] = ReleaseOne(f[k-1].store, f[k-1].next)
      BY <1>2 DEF IsReleases
    <3>2. \A k \in 0 .. M : k = 0 \/ k \in 1 .. M
      BY <1>1
    <3> HIDE DEF M, first
    <3>3. \A k \in 1 .. M : k # 0
      BY <1>1
    <3> QED BY <3>1, <3>2, <3>3, Zenon
  <2> HIDE DEF M, first
  <2>2. [k \in 0 .. M |-> f[k]] = F(f)
    BY <2>1
  <2> QED BY <1>2, <2>2
<1>4. b = F(b)
  <2> HIDE DEF F
  <2> QED BY <1>3
<1>5. Release(h, c) = b[M].store
  BY DEF Release, Releases
<1> HIDE DEF b, M, first
<1>6. b[0] = first /\ \A k \in 1 .. M : b[k] = ReleaseOne(b[k-1].store, b[k-1].next)
  BY <1>1, <1>4
<1> HIDE DEF F
<1> DEFINE S == {k \in Nat : k <= M => b[k] = f[k]}
<1>7. Nat \subseteq S
  <2>1. 0 \in S
    BY <1>2, <1>6 DEF IsReleases, first
  <2>2. ASSUME NEW k \in Nat, k \in S PROVE k + 1 \in S
    <3> SUFFICES ASSUME k + 1 <= M PROVE b[k + 1] = f[k + 1]
      OBVIOUS
    <3>1. k + 1 \in 1 .. M /\ (k + 1) - 1 = k /\ b[k] = f[k]
      BY <1>1, <2>2
    <3>2. b[k + 1] = ReleaseOne(b[k].store, b[k].next)
      BY <1>6, <3>1
    <3>3. f[k + 1] = ReleaseOne(f[k].store, f[k].next)
      BY <1>2, <3>1 DEF IsReleases
    <3> QED BY <3>1, <3>2, <3>3
  <2> HIDE DEF S
  <2> QED BY <2>1, <2>2, Steps
<1>8. Release(h, c) = f[M].store
  <2>1. M \in S
    BY <1>1, <1>7
  <2> QED BY <1>1, <1>5, <2>1
<1> DEFINE x == f[M].store
<1>9. AfterSome(h, e, pin, fresh, f[M], M)
  BY <1>2
<1>10. f[M].next = NoCell
  <2> SUFFICES ASSUME f[M].next # NoCell PROVE FALSE
    OBVIOUS
  <2>1. Cardinality(FreeCells(x)) >= M
    BY <1>9 DEF AfterSome
  <2>2. FreeCells(x) \subseteq Cells
    BY DEF FreeCells
  <2> HIDE DEF x
  <2>3. Cardinality(FreeCells(x)) \in Nat /\ Cardinality(Cells) \in Nat
        /\ Cardinality(FreeCells(x)) <= Cardinality(Cells)
    BY <2>2, CountAssumption, FS_Subset, FS_CardinalityType
  <2> QED BY <1>1, <2>1, <2>3
<1>11. Also(e, NoCell) = e
  BY CountAssumption, AlsoIs
<1> QED BY <1>8, <1>9, <1>10, <1>11 DEF AfterSome

-------------------------------------------------------------------------------
(*                          Holders outside                                *)

\* How many values and pointers hold a cell.
CellsOf(locals) == [l \in Locals |-> CellOf(locals[l])]
Outside(locals, pointers) ==
    [c \in Cells |-> Number(CellsOf(locals), Locals, c) + Number(pointers, Pointers, c)]

\* The inductive invariant.
CountInv(h) ==
    /\ Sound(h, Outside(h.locals, h.pointers), NoCell, {})
    /\ \A l \in Locals : Fits(h.cells, h.locals[l])
    /\ \A p \in Pointers : h.pointers[p] # NoCell => h.cells[h.pointers[p]].kind = "object"

\* Those that are left when the value l, or the pointer p, is put aside.
WithoutLocal(h, l)   == Outside([h.locals EXCEPT ![l] = Unborn], h.pointers)
WithoutPointer(h, p) == Outside(h.locals, [h.pointers EXCEPT ![p] = NoCell])

LEMMA CellOfIs ==
    /\ \A v \in Vals : CellOf(v) \in Cells \cup {NoCell}
    /\ \A v : ~HoldsCell(v) => CellOf(v) = NoCell
    /\ ~HoldsCell(Unborn) /\ ~HoldsCell(UndefinedValue)
    /\ \A v \in Vals : Copy(v) \in Vals /\ CellOf(Copy(v)) = CellOf(v)
    /\ \A T, v : Fits(T, v) => Fits(T, Copy(v))
<1>1. \A v \in Vals : CellOf(v) \in Cells \cup {NoCell}
  BY DEF CellOf, Vals
<1>2. \A v : ~HoldsCell(v) => CellOf(v) = NoCell
  BY DEF CellOf
<1>3. ~HoldsCell(Unborn) /\ ~HoldsCell(UndefinedValue)
  BY DEF HoldsCell, Unborn, UndefinedValue, Typed
<1>4. ASSUME NEW v, HoldsCell(v), v.cell = NoCell
      PROVE  /\ Copy(v) \in Vals /\ CellOf(v) = NoCell /\ CellOf(Copy(v)) = NoCell
             /\ ~HoldsCell(Copy(v))
  BY <1>4 DEF Copy, Typed, Vals, TypeNames, CellOf, HoldsCell
<1>5. ASSUME NEW v, ~(HoldsCell(v) /\ v.cell = NoCell) PROVE Copy(v) = v
  BY <1>5 DEF Copy
<1>6. \A v \in Vals : Copy(v) \in Vals /\ CellOf(Copy(v)) = CellOf(v)
  BY <1>4, <1>5
<1>7. \A T, v : Fits(T, v) => Fits(T, Copy(v))
  BY <1>4, <1>5 DEF Fits
<1> QED BY <1>1, <1>2, <1>3, <1>6, <1>7

LEMMA OutsideIs ==
    ASSUME NEW locals \in [Locals -> Vals], NEW pointers \in [Pointers -> Cells \cup {NoCell}]
    PROVE  /\ Outside(locals, pointers) \in [Cells -> Nat]
           /\ \A l \in Locals : CellOf(locals[l]) \in Cells
                                  => Outside(locals, pointers)[CellOf(locals[l])] >= 1
           /\ \A p \in Pointers : pointers[p] \in Cells
                                  => Outside(locals, pointers)[pointers[p]] >= 1
<1>1. \A c : Number(CellsOf(locals), Locals, c) \in Nat /\ Number(pointers, Pointers, c) \in Nat
  BY NumberHas, CountAssumption
<1>2. Outside(locals, pointers) \in [Cells -> Nat]
  BY <1>1 DEF Outside
<1>3. ASSUME NEW l \in Locals, CellOf(locals[l]) \in Cells
      PROVE  Outside(locals, pointers)[CellOf(locals[l])] >= 1
  <2> DEFINE c == CellOf(locals[l])
  <2>1. CellsOf(locals)[l] = c /\ c \in Cells
    BY <1>3 DEF CellsOf
  <2> HIDE DEF c
  <2>2. Number(CellsOf(locals), Locals, c) >= 1
    BY <2>1, NumberHas, CountAssumption
  <2>3. Outside(locals, pointers)[c] >= 1
    BY <1>1, <2>1, <2>2 DEF Outside
  <2> QED BY <2>3 DEF c
<1>4. ASSUME NEW p \in Pointers, pointers[p] \in Cells
      PROVE  Outside(locals, pointers)[pointers[p]] >= 1
  <2>2. Number(pointers, Pointers, pointers[p]) >= 1
    BY NumberHas, CountAssumption
  <2> QED BY <1>1, <1>4, <2>2 DEF Outside
<1> QED BY <1>2, <1>3, <1>4

\* A value more.
LEMMA LocalAdds ==
    ASSUME NEW locals \in [Locals -> Vals], NEW pointers \in [Pointers -> Cells \cup {NoCell}],
           NEW l \in Locals, NEW v \in Vals
    PROVE  Outside([locals EXCEPT ![l] = v], pointers)
             = Also(Outside([locals EXCEPT ![l] = Unborn], pointers), CellOf(v))
<1> DEFINE f == CellsOf([locals EXCEPT ![l] = Unborn])
          g == CellsOf([locals EXCEPT ![l] = v])
          e == Outside([locals EXCEPT ![l] = Unborn], pointers)
          d == Outside([locals EXCEPT ![l] = v], pointers)
<1>1. f[l] = NoCell /\ g[l] = CellOf(v) /\ ButAt(l, f, g, Locals)
  BY CellOfIs DEF CellsOf, ButAt
<1>2. [locals EXCEPT ![l] = Unborn] \in [Locals -> Vals]
      /\ [locals EXCEPT ![l] = v] \in [Locals -> Vals]
  BY FreeIsCell
<1>3. e \in [Cells -> Nat] /\ d \in [Cells -> Nat]
  BY <1>2, OutsideIs
<1>4. \A c \in Cells : /\ e[c] = Number(f, Locals, c) + Number(pointers, Pointers, c)
                       /\ d[c] = Number(g, Locals, c) + Number(pointers, Pointers, c)
  BY DEF Outside
<1> HIDE DEF f, g, e, d
<1>5. \A c \in Cells : d[c] = Also(e, CellOf(v))[c]
  <2> TAKE c \in Cells
  <2>1. /\ Number(f, Locals, c) \in Nat /\ Number(g, Locals, c) \in Nat
        /\ Number(g, Locals, c) + Delta(f[l], c) = Number(f, Locals, c) + Delta(g[l], c)
    BY <1>1, NumberChanged, CountAssumption
  <2>2. Number(pointers, Pointers, c) \in Nat
    BY NumberHas, CountAssumption
  <2>3. Also(e, CellOf(v))[c] = e[c] + Delta(c, CellOf(v))
    BY <1>3, AlsoIs
  <2>4. Delta(f[l], c) = 0 /\ Delta(g[l], c) = Delta(c, CellOf(v)) /\ Delta(g[l], c) \in Nat
    BY <1>1, CountAssumption DEF Delta
  <2> QED BY <1>4, <2>1, <2>2, <2>3, <2>4
<1>6. Also(e, CellOf(v)) \in [Cells -> Nat]
  BY <1>3, AlsoIs
<1>7. d = Also(e, CellOf(v))
  BY <1>3, <1>5, <1>6
<1> QED BY <1>7 DEF d, e

LEMMA PointerAdds ==
    ASSUME NEW locals \in [Locals -> Vals], NEW pointers \in [Pointers -> Cells \cup {NoCell}],
           NEW p \in Pointers, NEW b \in Cells \cup {NoCell}
    PROVE  Outside(locals, [pointers EXCEPT ![p] = b])
             = Also(Outside(locals, [pointers EXCEPT ![p] = NoCell]), b)
<1> DEFINE f == [pointers EXCEPT ![p] = NoCell]
          g == [pointers EXCEPT ![p] = b]
          e == Outside(locals, f)
          d == Outside(locals, g)
<1>1. f[p] = NoCell /\ g[p] = b /\ ButAt(p, f, g, Pointers)
  BY DEF ButAt
<1>2. f \in [Pointers -> Cells \cup {NoCell}] /\ g \in [Pointers -> Cells \cup {NoCell}]
  OBVIOUS
<1> HIDE DEF f, g
<1>3. e \in [Cells -> Nat] /\ d \in [Cells -> Nat]
  BY <1>2, OutsideIs
<1>4. \A c \in Cells : /\ e[c] = Number(CellsOf(locals), Locals, c) + Number(f, Pointers, c)
                       /\ d[c] = Number(CellsOf(locals), Locals, c) + Number(g, Pointers, c)
  BY DEF Outside
<1> HIDE DEF e, d
<1>5. \A c \in Cells : d[c] = Also(e, b)[c]
  <2> TAKE c \in Cells
  <2>1. /\ Number(f, Pointers, c) \in Nat /\ Number(g, Pointers, c) \in Nat
        /\ Number(g, Pointers, c) + Delta(f[p], c) = Number(f, Pointers, c) + Delta(g[p], c)
    BY <1>1, NumberChanged, CountAssumption
  <2>2. Number(CellsOf(locals), Locals, c) \in Nat
    BY NumberHas, CountAssumption
  <2>3. Also(e, b)[c] = e[c] + Delta(c, b)
    BY <1>3, AlsoIs
  <2>4. Delta(f[p], c) = 0 /\ Delta(g[p], c) = Delta(c, b) /\ Delta(g[p], c) \in Nat
    BY <1>1, CountAssumption DEF Delta
  <2> QED BY <1>4, <2>1, <2>2, <2>3, <2>4
<1>6. Also(e, b) \in [Cells -> Nat]
  BY <1>3, AlsoIs
<1>7. d = Also(e, b)
  BY <1>3, <1>5, <1>6
<1> QED BY <1>7 DEF d, e, f, g

-------------------------------------------------------------------------------
(*                         Steps of operations                             *)

\* What lives afterwards was the same before; what lived before is the same
\* afterwards; what lives before and afterwards is of the same kind.
Follows(T, U) == \A d \in Cells : U[d].kind # "free" => Same(T, U, d)
Grows(T, U)   == \A d \in Cells : T[d].kind # "free" => Same(T, U, d)
Keeps(T, U)   ==
    \A d \in Cells : T[d].kind # "free" /\ U[d].kind # "free" => U[d].kind = T[d].kind

LEMMA StepsOn ==
    /\ \A T, U, W : Follows(T, U) /\ Follows(U, W) => Follows(T, W)
    /\ \A T, U, W : Grows(T, U) /\ Follows(U, W) => Keeps(T, W)
    /\ \A T, U : Follows(T, U) \/ Grows(T, U) => Keeps(T, U)
    /\ \A T, U : Loyal(T, U) => Follows(T, U)
    /\ \A T : Follows(T, T) /\ Grows(T, T)
    /\ \A T, U : (\A d \in Cells : Same(T, U, d)) => Follows(T, U) /\ Grows(T, U)
<1>1. \A T, U, W : Follows(T, U) /\ Follows(U, W) => Follows(T, W)
  BY DEF Follows, Same
<1>2. \A T, U, W : Grows(T, U) /\ Follows(U, W) => Keeps(T, W)
  BY DEF Grows, Follows, Keeps, Same
<1>3. \A T, U : Follows(T, U) \/ Grows(T, U) => Keeps(T, U)
  BY DEF Grows, Follows, Keeps, Same
<1>4. \A T, U : Loyal(T, U) => Follows(T, U)
  BY DEF Loyal, Follows
<1>5. \A T : Follows(T, T) /\ Grows(T, T)
  BY DEF Follows, Grows, Same
<1>6. \A T, U : (\A d \in Cells : Same(T, U, d)) => Follows(T, U) /\ Grows(T, U)
  BY DEF Follows, Grows
<1> QED BY <1>1, <1>2, <1>3, <1>4, <1>5, <1>6

LEMMA AlsoCommutes ==
    ASSUME NEW e \in [Cells -> Nat], NEW a, NEW b
    PROVE  /\ Also(Also(e, a), b) = Also(Also(e, b), a)
           /\ e \in [Cells -> Nat] /\ Also(e, a) \in [Cells -> Nat]
           /\ \A c \in Cells : e[c] >= 1 => Also(e, a)[c] >= 1
           /\ a \in Cells => Also(e, a)[a] >= 1
<1>1. /\ Also(e, a) \in [Cells -> Nat] /\ Also(e, b) \in [Cells -> Nat]
      /\ Also(Also(e, a), b) \in [Cells -> Nat] /\ Also(Also(e, b), a) \in [Cells -> Nat]
  BY AlsoIs
<1>2. ASSUME NEW c \in Cells PROVE Also(Also(e, a), b)[c] = Also(Also(e, b), a)[c]
  <2>1. Also(Also(e, a), b)[c] = e[c] + Delta(c, a) + Delta(c, b)
    BY <1>1, AlsoIs
  <2>2. Also(Also(e, b), a)[c] = e[c] + Delta(c, b) + Delta(c, a)
    BY <1>1, AlsoIs
  <2>3. Delta(c, a) \in Nat /\ Delta(c, b) \in Nat /\ e[c] \in Nat
    BY DEF Delta
  <2> QED BY <2>1, <2>2, <2>3
<1>3. \A c \in Cells : Also(e, a)[c] = e[c] + Delta(c, a) /\ e[c] \in Nat /\ Delta(c, a) \in Nat
  BY AlsoIs DEF Delta
<1>4. Delta(a, a) = 1
  BY DEF Delta
<1>5. \A c \in Cells : e[c] >= 1 => Also(e, a)[c] >= 1
  BY <1>3
<1>6. a \in Cells => Also(e, a)[a] >= 1
  BY <1>3, <1>4
<1> QED BY <1>1, <1>2, <1>5, <1>6

\* What a value is released from.
LEMMA DestroyedSound ==
    ASSUME NEW h, NEW e \in [Cells -> Nat], NEW v \in Vals, NEW fresh,
           Sound(h, Also(e, CellOf(v)), NoCell, fresh)
    PROVE  LET x == Destroyed(h, v)
           IN  /\ Sound(x, e, NoCell, fresh) /\ Loyal(h.cells, x.cells)
               /\ x.locals = h.locals /\ x.pointers = h.pointers
<1>1. CellOf(v) \in Cells \cup {NoCell} /\ Anchored(h.cells, e, NoCell)
  BY CellOfIs DEF Anchored
<1> QED BY <1>1, ReleaseSound DEF Destroyed

\* A value that somebody else holds too is held once more.
LEMMA HeldSound ==
    ASSUME NEW h, NEW e \in [Cells -> Nat], NEW v \in Vals, NEW pin, NEW fresh,
           Sound(h, e, pin, fresh),
           CellOf(v) \in Cells => h.cells[CellOf(v)].kind # "free"
    PROVE  LET x == Held(h, v)
           IN  /\ Sound(x, Also(e, CellOf(v)), pin, fresh)
               /\ Follows(h.cells, x.cells) /\ Grows(h.cells, x.cells)
               /\ x.locals = h.locals /\ x.pointers = h.pointers
<1> DEFINE c == CellOf(v)
<1>1. c \in Cells \cup {NoCell} /\ (c # NoCell => h.cells[c].kind # "free")
  BY CellOfIs
<1> HIDE DEF c
<1> DEFINE x == AddRef(h, c)
<1>2. /\ Sound(x, Also(e, c), pin, fresh \ {c})
      /\ x.locals = h.locals /\ x.pointers = h.pointers
      /\ \A d \in Cells : Same(h.cells, x.cells, d)
  BY <1>1, AddRefSound
<1> HIDE DEF x
<1>3. Sound(x, Also(e, c), pin, fresh)
  BY <1>2 DEF Sound
<1>4. Held(h, v) = x
  BY DEF Held, x, c
<1> QED BY <1>2, <1>3, <1>4, StepsOn DEF c

LEMMA PutIs ==
    ASSUME NEW h, NEW l \in Locals, NEW v \in Vals, NEW e, NEW pin, NEW fresh,
           Sound(h, e, pin, fresh)
    PROVE  /\ Sound(Put(h, l, v), e, pin, fresh)
           /\ Put(h, l, v).cells = h.cells /\ Put(h, l, v).pointers = h.pointers
           /\ Put(h, l, v).locals = [h.locals EXCEPT ![l] = v]
<1>1. h \in Stores
  BY DEF Sound
<1>2. /\ Put(h, l, v) \in Stores
      /\ Put(h, l, v).cells = h.cells /\ Put(h, l, v).pointers = h.pointers
      /\ Put(h, l, v).locals = [h.locals EXCEPT ![l] = v] /\ Put(h, l, v).fault = h.fault
  BY <1>1, StoreParts DEF Put, Stores
<1> QED BY <1>2, SoundCells

\* The value l is assigned one that is held elsewhere.
LEMMA AssignedSound ==
    ASSUME NEW h, NEW e \in [Cells -> Nat], NEW l \in Locals, NEW v \in Vals, NEW fresh,
           Sound(h, Also(e, CellOf(h.locals[l])), NoCell, fresh),
           CellOf(v) \in Cells => e[CellOf(v)] >= 1
    PROVE  LET x == Assigned(h, l, v)
           IN  /\ Sound(x, Also(e, CellOf(v)), NoCell, fresh) /\ Follows(h.cells, x.cells)
               /\ x.locals = [h.locals EXCEPT ![l] = Copy(v)] /\ x.pointers = h.pointers
<1> DEFINE y == Destroyed(h, h.locals[l])
          z == Held(y, v)
<1>1. h.locals[l] \in Vals
  BY StoreParts DEF Sound
<1>2. /\ Sound(y, e, NoCell, fresh) /\ Loyal(h.cells, y.cells)
      /\ y.locals = h.locals /\ y.pointers = h.pointers
  BY <1>1, DestroyedSound
<1> HIDE DEF y
<1>3. CellOf(v) \in Cells => y.cells[CellOf(v)].kind # "free"
  BY <1>2, HeldIsLive
<1>4. /\ Sound(z, Also(e, CellOf(v)), NoCell, fresh) /\ Follows(y.cells, z.cells)
      /\ z.locals = y.locals /\ z.pointers = y.pointers
  BY <1>2, <1>3, HeldSound
<1> HIDE DEF z
<1>5. Copy(v) \in Vals
  BY CellOfIs
<1> DEFINE x == Put(z, l, Copy(v))
<1>6. /\ Sound(x, Also(e, CellOf(v)), NoCell, fresh)
      /\ x.cells = z.cells /\ x.pointers = z.pointers
      /\ x.locals = [z.locals EXCEPT ![l] = Copy(v)]
  BY <1>4, <1>5, PutIs
<1>7. Assigned(h, l, v) = x
  BY DEF Assigned, x, y, z
<1> HIDE DEF x
<1>8. Follows(h.cells, x.cells)
  BY <1>2, <1>4, <1>6, StepsOn
<1> QED BY <1>2, <1>4, <1>6, <1>7, <1>8

-------------------------------------------------------------------------------
(*                             New cells                                   *)

\* What a cell may be made of.
CanBe(T, cell) ==
    /\ cell \in CellRec /\ cell.count = 0
    /\ \/ cell.kind = "string" /\ cell.property = UndefinedValue /\ cell.base = NoCell
       \/ cell.kind = "object" /\ Fits(T, cell.property) /\ cell.base = NoCell
       \/ /\ cell.kind = "reference" /\ cell.property = UndefinedValue
          /\ cell.base \in Cells /\ T[cell.base].kind = "object"

LEMMA CanBeHolds ==
    ASSUME NEW T, NEW cell, CanBe(T, cell)
    PROVE  /\ HeldBy(cell) \in Cells \cup {NoCell} /\ cell.kind # "free"
           /\ HeldBy(cell) # NoCell => T[HeldBy(cell)].kind # "free"
<1>1. cell \in CellRec /\ cell.property \in Vals
  BY DEF CanBe, CellRec
<1>2. CASE cell.kind = "string"
  BY <1>2 DEF HeldBy
<1>3. CASE cell.kind = "object"
  <2>1. HeldBy(cell) = CellOf(cell.property) /\ Fits(T, cell.property)
    BY <1>3 DEF CanBe, HeldBy
  <2>2. CellOf(cell.property) # NoCell => T[CellOf(cell.property)].kind # "free"
    BY <2>1 DEF Fits, CellOf, HoldsCell
  <2> QED BY <1>1, <1>3, <2>1, <2>2, CellOfIs
<1>4. CASE cell.kind = "reference"
  <2>1. HeldBy(cell) = cell.base
    BY <1>4 DEF HeldBy
  <2> QED BY <1>4, <2>1 DEF CanBe
<1> QED BY <1>2, <1>3, <1>4 DEF CanBe

LEMMA AllocatedSound ==
    ASSUME NEW h, NEW e, Sound(h, e, NoCell, {}), FreeCells(h) # {},
           NEW kind, NEW property, NEW base,
           CanBe(h.cells, [kind |-> kind, count |-> 0, property |-> property, base |-> base])
    PROVE  LET x == Allocated(h, kind, property, base)
               c == New(h)
           IN  /\ c \in Cells /\ h.cells[c].kind = "free" /\ x.cells[c].kind = kind
               /\ x.cells[c].count = 0
               /\ Sound(x, e, NoCell, {c}) /\ Grows(h.cells, x.cells)
               /\ x.locals = h.locals /\ x.pointers = h.pointers
<1> DEFINE T == h.cells
          c == New(h)
          cell == [kind |-> kind, count |-> 0, property |-> property, base |-> base]
          n == HeldBy(cell)
          y == [h EXCEPT !.cells[c] = cell]
          x == AddRef(y, n)
          A(d) == Number(Inner(T, NoCell), Cells, d)
          B(d) == Number(Inner(y.cells, NoCell), Cells, d)
<1>1. c \in Cells /\ T[c].kind = "free"
  <2>1. c \in FreeCells(h)
    BY DEF New
  <2> QED BY <2>1 DEF FreeCells
<1>2. h \in Stores /\ T \in [Cells -> CellRec] /\ T[c] = Free /\ cell \in CellRec
  <2>1. h \in Stores /\ Shaped(h.cells, NoCell, c)
    BY <1>1 DEF Sound
  <2> QED BY <1>1, <2>1, StoreParts DEF Shaped, CanBe
<1>3. /\ n \in Cells \cup {NoCell} /\ cell.kind # "free"
      /\ n # NoCell => T[n].kind # "free"
  BY CanBeHolds
<1>4. cell.kind = kind /\ cell.count = 0 /\ cell.property = property /\ cell.base = base
  OBVIOUS
<1>5. CanBe(T, cell)
  OBVIOUS
<1> HIDE DEF c, cell, n
<1>6. /\ y \in Stores /\ y.cells = [T EXCEPT ![c] = cell]
      /\ y.locals = h.locals /\ y.pointers = h.pointers /\ y.fault = h.fault
  BY <1>1, <1>2, StoreParts
<1>7. /\ y.cells[c] = cell /\ y.cells \in [Cells -> CellRec]
      /\ \A d \in Cells \ {c} : y.cells[d] = T[d]
  BY <1>1, <1>2, <1>6
<1> HIDE DEF y
<1>8. x = Allocated(h, kind, property, base)
  BY DEF Allocated, x, y, c, n, cell
<1>9. n # c /\ (n \in Cells => y.cells[n].kind # "free" /\ y.cells[n] = T[n])
  BY <1>1, <1>3, <1>7, CountAssumption
\* One reference added.
<1>10. /\ x \in Stores /\ x.locals = y.locals /\ x.pointers = y.pointers /\ x.fault = y.fault
       /\ \A d \in Cells : Same(y.cells, x.cells, d)
       /\ \A d \in Cells : x.cells[d].count = y.cells[d].count + Delta(n, d)
       /\ \A d \in Cells : x.cells[d].kind = "free" => x.cells[d] = y.cells[d]
  <2>1. CASE n = NoCell
    <3>1. x = y
      BY <2>1 DEF AddRef
    <3>2. \A d \in Cells : y.cells[d].count = y.cells[d].count + Delta(n, d)
      <4> TAKE d \in Cells
      <4>1. Delta(n, d) = 0 /\ y.cells[d].count \in Nat
        BY <1>7, <2>1, CountAssumption DEF Delta, CellRec
      <4> QED BY <4>1
    <3> HIDE DEF x
    <3> QED BY <1>6, <3>1, <3>2 DEF Same
  <2>2. CASE n # NoCell
    <3> DEFINE r == [y.cells[n] EXCEPT !.count = @ + 1]
    <3>1. n \in Cells /\ y.cells[n] \in CellRec /\ y.cells[n].kind # "free"
      BY <1>3, <1>7, <1>9, <2>2
    <3>2. x = [y EXCEPT !.cells[n] = r]
      BY <1>6, <2>2, <3>1 DEF AddRef, Stores
    <3>3. /\ r \in CellRec /\ r.kind = y.cells[n].kind /\ r.property = y.cells[n].property
          /\ r.base = y.cells[n].base /\ r.count = y.cells[n].count + 1
      BY <3>1 DEF CellRec
    <3> HIDE DEF r
    <3>4. /\ x \in Stores /\ x.cells = [y.cells EXCEPT ![n] = r] /\ x.locals = y.locals
          /\ x.pointers = y.pointers /\ x.fault = y.fault
      BY <1>6, <3>1, <3>2, <3>3, StoreParts
    <3> HIDE DEF x
    <3>5. x.cells[n] = r /\ \A d \in Cells \ {n} : x.cells[d] = y.cells[d]
      BY <1>7, <3>1, <3>4
    <3>6. \A d \in Cells : Same(y.cells, x.cells, d)
      BY <3>3, <3>5 DEF Same
    <3>7. \A d \in Cells : x.cells[d].count = y.cells[d].count + Delta(n, d)
      <4> TAKE d \in Cells
      <4>1. y.cells[d].count \in Nat
        BY <1>7 DEF CellRec
      <4> QED BY <3>3, <3>5, <4>1 DEF Delta
    <3>8. \A d \in Cells : x.cells[d].kind = "free" => x.cells[d] = y.cells[d]
      BY <3>1, <3>3, <3>5
    <3> QED BY <3>4, <3>6, <3>7, <3>8
  <2> QED BY <2>1, <2>2
<1> HIDE DEF x
<1>11. Inner(T, NoCell)[c] = NoCell /\ Inner(y.cells, NoCell)[c] = n
  BY <1>1, <1>2, <1>7, HeldByIs, CountAssumption DEF n
<1>12. ButAt(c, Inner(T, NoCell), Inner(y.cells, NoCell), Cells)
  BY <1>1, <1>7 DEF ButAt, Inner
<1>13. \A d \in Cells : A(d) \in Nat /\ B(d) \in Nat /\ B(d) = A(d) + Delta(n, d)
  <2> TAKE d \in Cells
  <2> DEFINE f == Inner(T, NoCell)
            g == Inner(y.cells, NoCell)
  <2>1. f[c] = NoCell /\ g[c] = n /\ ButAt(c, f, g, Cells)
    BY <1>11, <1>12
  <2>2. A(d) = Number(f, Cells, d) /\ B(d) = Number(g, Cells, d)
    OBVIOUS
  <2> HIDE DEF f, g, A, B
  <2>3. /\ Number(f, Cells, d) \in Nat /\ Number(g, Cells, d) \in Nat
        /\ Number(g, Cells, d) + Delta(f[c], d) = Number(f, Cells, d) + Delta(g[c], d)
    BY <2>1, NumberChanged, CountAssumption
  <2>4. Delta(NoCell, d) = 0 /\ Delta(n, d) \in Nat
    BY CountAssumption DEF Delta
  <2> QED BY <2>1, <2>2, <2>3, <2>4
<1>14. Inner(x.cells, NoCell) = Inner(y.cells, NoCell)
  BY <1>10, InnerSame
<1>15. ASSUME NEW d \in Cells
       PROVE  x.cells[d].count = Number(Inner(x.cells, NoCell), Cells, d) + e[d]
  <2>1. T[d].count = A(d) + e[d] /\ e[d] \in Nat
    BY DEF Sound
  <2>2. y.cells[d].count = T[d].count
    BY <1>2, <1>4, <1>7 DEF Free
  <2>3. x.cells[d].count = y.cells[d].count + Delta(n, d) /\ Delta(n, d) \in Nat
    BY <1>10 DEF Delta
  <2>4. A(d) \in Nat /\ B(d) = A(d) + Delta(n, d)
    BY <1>13
  <2>5. Number(Inner(x.cells, NoCell), Cells, d) = B(d)
    BY <1>14
  <2> HIDE DEF A, B
  <2> QED BY <2>1, <2>2, <2>3, <2>4, <2>5
<1>16. ASSUME NEW d \in Cells
       PROVE  x.cells[d].kind # "free" /\ d \notin {c} => x.cells[d].count > 0
  <2> SUFFICES ASSUME x.cells[d].kind # "free", d # c PROVE x.cells[d].count > 0
    OBVIOUS
  <2>1. y.cells[d] = T[d] /\ T[d].kind # "free"
    BY <1>7, <1>10 DEF Same
  <2>2. T[d].count > 0 /\ T[d].count \in Nat
    BY <1>2, <2>1 DEF Sound, CellRec
  <2>3. x.cells[d].count = T[d].count + Delta(n, d) /\ Delta(n, d) \in Nat
    BY <1>10, <2>1 DEF Delta
  <2> QED BY <2>2, <2>3
<1>17. ASSUME NEW d \in Cells PROVE Shaped(x.cells, NoCell, d)
  <2>1. ASSUME NEW v, Fits(T, v) PROVE Fits(x.cells, v)
    <3> SUFFICES ASSUME HoldsCell(v) PROVE v.cell \in Cells /\ x.cells[v.cell].kind = v.type
      BY DEF Fits
    <3>1. v.cell \in Cells /\ T[v.cell].kind = v.type /\ v.type # "free"
      BY <2>1 DEF Fits, HoldsCell
    <3>2. v.cell # c
      BY <1>1, <3>1
    <3> QED BY <1>7, <1>10, <3>1, <3>2 DEF Same
  <2>2. \A b \in Cells : T[b].kind = "object" => x.cells[b].kind = "object"
    BY <1>1, <1>7, <1>10 DEF Same
  <2>3. CASE d = c
    <3>1. x.cells[d].kind = kind /\ x.cells[d].property = property /\ x.cells[d].base = base
      BY <1>4, <1>7, <1>10, <2>3 DEF Same
    <3>2. kind # "free"
      BY <1>3, <1>4
    <3>3. kind \in {"string", "reference"} => property = UndefinedValue
      BY <1>4, <1>5 DEF CanBe
    <3>4. kind \in {"string", "object"} => base = NoCell
      BY <1>4, <1>5 DEF CanBe
    <3>5. kind = "object" => Fits(x.cells, property)
      BY <1>4, <1>5, <2>1 DEF CanBe
    <3>6. kind = "reference" => base \in Cells /\ x.cells[base].kind = "object"
      BY <1>4, <1>5, <2>2 DEF CanBe
    <3>7. CellOf(UndefinedValue) = NoCell
      BY CellOfIs
    <3> QED BY <3>1, <3>2, <3>3, <3>4, <3>5, <3>6, <3>7 DEF Shaped
  <2>4. CASE d # c
    <3>1. y.cells[d] = T[d] /\ Same(T, x.cells, d) /\ Shaped(T, NoCell, d)
      BY <1>7, <1>10, <2>4 DEF Same, Sound
    <3>2. x.cells[d].kind = "free" => x.cells[d] = Free
      BY <1>10, <3>1 DEF Same, Shaped
    <3>3. T[d].kind = "object" /\ d # NoCell => Fits(x.cells, T[d].property)
      BY <2>1, <3>1 DEF Shaped
    <3>4. T[d].kind = "reference" => T[d].base \in Cells /\ x.cells[T[d].base].kind = "object"
      BY <2>2, <3>1 DEF Shaped
    <3> QED BY <3>1, <3>2, <3>3, <3>4 DEF Same, Shaped
  <2> QED BY <2>3, <2>4
<1>18. Sound(x, e, NoCell, {c})
  <2>1. ~x.fault /\ e \in [Cells -> Nat]
    BY <1>6, <1>10 DEF Sound
  <2> QED BY <1>10, <1>15, <1>16, <1>17, <2>1 DEF Sound
<1>19. Grows(T, x.cells)
  BY <1>1, <1>7, <1>10 DEF Grows, Same
<1>20. x.cells[c].kind = kind /\ x.cells[c].count = 0
  <2>1. x.cells[c].count = 0 + Delta(n, c) /\ Delta(n, c) = 0
    BY <1>1, <1>4, <1>7, <1>9, <1>10 DEF Delta
  <2> QED BY <1>1, <1>4, <1>7, <1>10, <2>1 DEF Same
<1> QED BY <1>1, <1>6, <1>8, <1>10, <1>18, <1>19, <1>20 DEF c

-------------------------------------------------------------------------------
(*                              Operations                                 *)

LEMMA FitsKept ==
    ASSUME NEW T, NEW U, NEW v, Fits(T, v), Keeps(T, U),
           CellOf(v) \in Cells => U[CellOf(v)].kind # "free"
    PROVE  Fits(U, v)
BY DEF Fits, Keeps, CellOf, HoldsCell

\* What an operation leaves is right if the holders have been counted.
LEMMA Done ==
    ASSUME NEW h, CountInv(h), NEW z,
           Sound(z, Outside(z.locals, z.pointers), NoCell, {}), Keeps(h.cells, z.cells),
           \A l \in Locals : z.locals[l] = h.locals[l] \/ Fits(z.cells, z.locals[l]),
           \A p \in Pointers : \/ z.pointers[p] \in {NoCell, h.pointers[p]}
                               \/ z.cells[z.pointers[p]].kind = "object"
    PROVE  CountInv(z)
<1>1. z.locals \in [Locals -> Vals] /\ z.pointers \in [Pointers -> Cells \cup {NoCell}]
  BY StoreParts DEF Sound
<1>2. ASSUME NEW l \in Locals PROVE Fits(z.cells, z.locals[l])
  <2>1. CellOf(z.locals[l]) \in Cells => z.cells[CellOf(z.locals[l])].kind # "free"
    BY <1>1, OutsideIs, HeldIsLive
  <2>2. z.locals[l] = h.locals[l] => Fits(h.cells, z.locals[l])
    BY DEF CountInv
  <2> QED BY <2>1, <2>2, FitsKept
<1>3. ASSUME NEW p \in Pointers, z.pointers[p] # NoCell
      PROVE  z.cells[z.pointers[p]].kind = "object"
  <2>1. z.pointers[p] \in Cells
    BY <1>1, <1>3
  <2>2. z.cells[z.pointers[p]].kind # "free"
    BY <1>1, <2>1, OutsideIs, HeldIsLive
  <2>3. z.pointers[p] = h.pointers[p] => h.cells[z.pointers[p]].kind = "object"
    BY <1>3 DEF CountInv
  <2> QED BY <1>3, <2>1, <2>2, <2>3 DEF Keeps
<1> QED BY <1>2, <1>3 DEF CountInv

LEMMA StoreOf ==
    ASSUME NEW h, CountInv(h)
    PROVE  /\ h \in Stores /\ h.cells \in [Cells -> CellRec] /\ h.locals \in [Locals -> Vals]
           /\ h.pointers \in [Pointers -> Cells \cup {NoCell}]
           /\ Outside(h.locals, h.pointers) \in [Cells -> Nat]
           /\ \A l \in Locals : CellOf(h.locals[l]) \in Cells =>
                                   h.cells[CellOf(h.locals[l])].kind # "free"
<1>1. h \in Stores
  BY DEF CountInv, Sound
<1>2. /\ h.cells \in [Cells -> CellRec] /\ h.locals \in [Locals -> Vals]
      /\ h.pointers \in [Pointers -> Cells \cup {NoCell}]
  BY <1>1, StoreParts
<1> DEFINE e == Outside(h.locals, h.pointers)
<1>3. /\ e \in [Cells -> Nat]
      /\ \A l \in Locals : CellOf(h.locals[l]) \in Cells => e[CellOf(h.locals[l])] >= 1
  BY <1>2, OutsideIs
<1>4. Sound(h, e, NoCell, {})
  BY DEF CountInv
<1> HIDE DEF e
<1>5. \A l \in Locals : CellOf(h.locals[l]) \in Cells => h.cells[CellOf(h.locals[l])].kind # "free"
  BY <1>3, <1>4, HeldIsLive
<1> QED BY <1>1, <1>2, <1>3, <1>5 DEF e

\* The value l is put aside.
LEMMA Aside ==
    ASSUME NEW h, CountInv(h), NEW l \in Locals
    PROVE  LET e == WithoutLocal(h, l)
           IN  /\ e \in [Cells -> Nat]
               /\ Sound(h, Also(e, CellOf(h.locals[l])), NoCell, {})
               /\ ~HoldsCell(h.locals[l]) => Sound(h, e, NoCell, {})
               /\ \A k \in Locals \ {l} : CellOf(h.locals[k]) \in Cells => e[CellOf(h.locals[k])] >= 1
               /\ \A p \in Pointers : h.pointers[p] \in Cells => e[h.pointers[p]] >= 1
<1> DEFINE locals == [h.locals EXCEPT ![l] = Unborn]
          e == Outside(locals, h.pointers)
<1>1. locals \in [Locals -> Vals] /\ \A k \in Locals \ {l} : locals[k] = h.locals[k]
  BY StoreOf, FreeIsCell
<1>2. [h.locals EXCEPT ![l] = h.locals[l]] = h.locals /\ h.locals[l] \in Vals
  BY StoreOf
<1>3. Outside(h.locals, h.pointers) = Also(e, CellOf(h.locals[l]))
  BY <1>2, StoreOf, LocalAdds
<1> HIDE DEF locals
<1>4. /\ e \in [Cells -> Nat]
      /\ \A k \in Locals : CellOf(locals[k]) \in Cells => e[CellOf(locals[k])] >= 1
      /\ \A p \in Pointers : h.pointers[p] \in Cells => e[h.pointers[p]] >= 1
  BY <1>1, OutsideIs, StoreOf
<1>5. e = WithoutLocal(h, l)
  BY DEF WithoutLocal, locals
<1> HIDE DEF e
<1>6. Sound(h, Also(e, CellOf(h.locals[l])), NoCell, {})
  BY <1>3 DEF CountInv
<1>7. ~HoldsCell(h.locals[l]) => Also(e, CellOf(h.locals[l])) = e
  BY <1>4, CellOfIs, AlsoIs, CountAssumption
<1> QED BY <1>1, <1>4, <1>5, <1>6, <1>7

\* The value l has become v, and all else is as it was.
LEMMA LocalDone ==
    ASSUME NEW h, CountInv(h), NEW l \in Locals, NEW v \in Vals, NEW z,
           Sound(z, Also(WithoutLocal(h, l), CellOf(v)), NoCell, {}),
           z.locals = [h.locals EXCEPT ![l] = v], z.pointers = h.pointers,
           Keeps(h.cells, z.cells), Fits(z.cells, v)
    PROVE  CountInv(z)
<1>1. Outside(z.locals, z.pointers) = Also(WithoutLocal(h, l), CellOf(v))
  BY StoreOf, LocalAdds DEF WithoutLocal
<1>2. \A k \in Locals : z.locals[k] = h.locals[k] \/ Fits(z.cells, z.locals[k])
  BY StoreOf
<1>3. \A p \in Pointers : z.pointers[p] \in {NoCell, h.pointers[p]}
  OBVIOUS
<1> QED BY <1>1, <1>2, <1>3, Done

\* A value is destroyed, or made a Boolean or a number.
LEMMA ReplacedKeeps ==
    ASSUME NEW h, CountInv(h), NEW l \in Locals, NEW v \in Vals, ~HoldsCell(v)
    PROVE  CountInv(Put(Destroyed(h, h.locals[l]), l, v))
<1> DEFINE e == WithoutLocal(h, l)
          x == Destroyed(h, h.locals[l])
          z == Put(x, l, v)
<1>1. e \in [Cells -> Nat] /\ Sound(h, Also(e, CellOf(h.locals[l])), NoCell, {})
  BY Aside
<1>2. h.locals[l] \in Vals /\ Also(e, CellOf(v)) = e
  BY <1>1, StoreOf, CellOfIs, AlsoIs, CountAssumption
<1> HIDE DEF e
<1>3. /\ Sound(x, e, NoCell, {}) /\ Loyal(h.cells, x.cells)
      /\ x.locals = h.locals /\ x.pointers = h.pointers
  BY <1>1, <1>2, DestroyedSound
<1> HIDE DEF x
<1>4. /\ Sound(z, e, NoCell, {}) /\ z.cells = x.cells /\ z.pointers = x.pointers
      /\ z.locals = [x.locals EXCEPT ![l] = v]
  BY <1>3, PutIs
<1> HIDE DEF z
<1>5. Keeps(h.cells, z.cells) /\ Fits(z.cells, v)
  BY <1>3, <1>4, StepsOn DEF Fits
<1>6. CountInv(z)
  BY <1>2, <1>3, <1>4, <1>5, LocalDone DEF e
<1> QED BY <1>6 DEF z, x

\* A value is constructed that holds nothing.
LEMMA BornKeeps ==
    ASSUME NEW h, CountInv(h), NEW l \in Locals, ~HoldsCell(h.locals[l])
    PROVE  CountInv(Put(h, l, UndefinedValue))
<1> DEFINE e == WithoutLocal(h, l)
          v == UndefinedValue
          z == Put(h, l, v)
<1>1. e \in [Cells -> Nat] /\ Sound(h, e, NoCell, {})
  BY Aside
<1>2. v \in Vals /\ ~HoldsCell(v) /\ Also(e, CellOf(v)) = e
  BY <1>1, FreeIsCell, CellOfIs, AlsoIs, CountAssumption
<1> HIDE DEF e, v
<1>3. /\ Sound(z, e, NoCell, {}) /\ z.cells = h.cells /\ z.pointers = h.pointers
      /\ z.locals = [h.locals EXCEPT ![l] = v]
  BY <1>1, <1>2, PutIs
<1> HIDE DEF z
<1>4. Keeps(h.cells, z.cells) /\ Fits(z.cells, v)
  BY <1>2, <1>3, StepsOn DEF Fits
<1>5. CountInv(z)
  BY <1>2, <1>3, <1>4, LocalDone DEF e
<1> QED BY <1>5 DEF z, v

\* operator=
LEMMA AssignKeeps ==
    ASSUME NEW h, CountInv(h), NEW l \in Locals, NEW k \in Locals
    PROVE  CountInv(AssignLocal(h, l, k))
<1>1. CASE l = k
  BY <1>1 DEF AssignLocal
<1>2. CASE l # k
  <2> DEFINE e == WithoutLocal(h, l)
            v == h.locals[k]
            z == Assigned(h, l, v)
  <2>1. /\ e \in [Cells -> Nat] /\ Sound(h, Also(e, CellOf(h.locals[l])), NoCell, {})
        /\ CellOf(v) \in Cells => e[CellOf(v)] >= 1
    BY <1>2, Aside
  <2>2. v \in Vals /\ Fits(h.cells, v)
    BY StoreOf DEF CountInv
  <2> HIDE DEF e, v
  <2>3. /\ Sound(z, Also(e, CellOf(v)), NoCell, {}) /\ Follows(h.cells, z.cells)
        /\ z.locals = [h.locals EXCEPT ![l] = Copy(v)] /\ z.pointers = h.pointers
    BY <2>1, <2>2, AssignedSound
  <2>4. AssignLocal(h, l, k) = z
    BY <1>2 DEF AssignLocal, v
  <2> HIDE DEF z
  <2>5. Copy(v) \in Vals /\ CellOf(Copy(v)) = CellOf(v)
    BY <2>2, CellOfIs
  <2>6. Keeps(h.cells, z.cells)
    BY <2>3, StepsOn
  <2>7. CellOf(v) \in Cells => z.cells[CellOf(v)].kind # "free"
    BY <2>1, <2>3, AlsoCommutes, HeldIsLive
  <2>8. Fits(z.cells, Copy(v))
    BY <2>2, <2>6, <2>7, FitsKept, CellOfIs
  <2>9. CountInv(z)
    BY <2>3, <2>5, <2>6, <2>8, LocalDone DEF e
  <2> QED BY <2>4, <2>9
<1> QED BY <1>1, <1>2

\* The value that is made of a cell.
LEMMA TypedIs ==
    ASSUME NEW kind \in {"string", "object", "reference"}, NEW c \in Cells
    PROVE  /\ Typed(kind, c) \in Vals /\ CellOf(Typed(kind, c)) = c
           /\ \A T : Fits(T, Typed(kind, c)) <=> T[c].kind = kind
BY DEF Typed, Vals, TypeNames, CellOf, HoldsCell, Fits

LEMMA FreshHeld ==
    ASSUME NEW h, NEW e, NEW c \in Cells, Sound(h, e, NoCell, {c}), h.cells[c].kind # "free"
    PROVE  /\ Sound(AddRef(h, c), Also(e, c), NoCell, {})
           /\ AddRef(h, c).locals = h.locals /\ AddRef(h, c).pointers = h.pointers
           /\ \A d \in Cells : Same(h.cells, AddRef(h, c).cells, d)
<1>1. {c} \ {c} = {}
  OBVIOUS
<1>2. /\ Sound(AddRef(h, c), Also(e, c), NoCell, {c} \ {c})
      /\ AddRef(h, c).locals = h.locals /\ AddRef(h, c).pointers = h.pointers
      /\ \A d \in Cells : Same(h.cells, AddRef(h, c).cells, d)
  BY AddRefSound
<1> QED BY <1>1, <1>2, Zenon

\* A string, an object or a reference is made, and a value of it.
LEMMA ConstructsKeeps ==
    ASSUME NEW h, CountInv(h), NEW l \in Locals, ~HoldsCell(h.locals[l]), FreeCells(h) # {},
           NEW kind, NEW property, NEW base,
           CanBe(h.cells, [kind |-> kind, count |-> 0, property |-> property, base |-> base])
    PROVE  CountInv(Constructs(h, l, kind, property, base))
<1> DEFINE e == WithoutLocal(h, l)
          c == New(h)
          x == Allocated(h, kind, property, base)
          y == AddRef(x, c)
          v == Typed(kind, c)
          z == Put(y, l, v)
<1>1. e \in [Cells -> Nat] /\ Sound(h, e, NoCell, {})
  BY Aside
<1>2. kind \in {"string", "object", "reference"}
  BY DEF CanBe
<1> HIDE DEF e
<1>3. /\ c \in Cells /\ x.cells[c].kind = kind
      /\ Sound(x, e, NoCell, {c}) /\ Grows(h.cells, x.cells)
      /\ x.locals = h.locals /\ x.pointers = h.pointers
  BY <1>1, AllocatedSound
<1> HIDE DEF c, x
<1>4. /\ Sound(y, Also(e, c), NoCell, {})
      /\ y.locals = x.locals /\ y.pointers = x.pointers
      /\ \A d \in Cells : Same(x.cells, y.cells, d)
  BY <1>2, <1>3, FreshHeld
<1> HIDE DEF y
<1>6. v \in Vals /\ CellOf(v) = c /\ Fits(y.cells, v)
  BY <1>2, <1>3, <1>4, TypedIs DEF Same
<1> HIDE DEF v
<1>7. /\ Sound(z, Also(e, c), NoCell, {}) /\ z.cells = y.cells /\ z.pointers = y.pointers
      /\ z.locals = [y.locals EXCEPT ![l] = v]
  BY <1>4, <1>6, PutIs
<1> HIDE DEF z
<1>8. Keeps(h.cells, z.cells)
  BY <1>3, <1>4, <1>7, StepsOn
<1>9. CountInv(z)
  BY <1>3, <1>4, <1>6, <1>7, <1>8, LocalDone DEF e
<1> QED BY <1>9 DEF Constructs, z, y, x, v, c

\* A value is copied when it is constructed.
LEMMA CopiedKeeps ==
    ASSUME NEW h, CountInv(h), NEW l \in Locals, ~HoldsCell(h.locals[l]), NEW v \in Vals,
           Fits(h.cells, v), CellOf(v) \in Cells => h.cells[CellOf(v)].kind # "free"
    PROVE  CountInv(Put(Held(h, v), l, Copy(v)))
<1> DEFINE e == WithoutLocal(h, l)
          x == Held(h, v)
          z == Put(x, l, Copy(v))
<1>1. e \in [Cells -> Nat] /\ Sound(h, e, NoCell, {})
  BY Aside
<1> HIDE DEF e
<1>2. /\ Sound(x, Also(e, CellOf(v)), NoCell, {}) /\ Follows(h.cells, x.cells)
      /\ x.locals = h.locals /\ x.pointers = h.pointers
  BY <1>1, HeldSound
<1> HIDE DEF x
<1>3. Copy(v) \in Vals /\ CellOf(Copy(v)) = CellOf(v)
  BY CellOfIs
<1>4. /\ Sound(z, Also(e, CellOf(v)), NoCell, {}) /\ z.cells = x.cells
      /\ z.pointers = x.pointers /\ z.locals = [x.locals EXCEPT ![l] = Copy(v)]
  BY <1>2, <1>3, PutIs
<1> HIDE DEF z
<1>5. Keeps(h.cells, z.cells)
  BY <1>2, <1>4, StepsOn
<1>6. CellOf(v) \in Cells => z.cells[CellOf(v)].kind # "free"
  BY <1>1, <1>4, AlsoCommutes, HeldIsLive
<1>7. Fits(z.cells, Copy(v))
  BY <1>5, <1>6, FitsKept, CellOfIs
<1>8. CountInv(z)
  BY <1>2, <1>3, <1>4, <1>5, <1>7, LocalDone DEF e
<1> QED BY <1>8 DEF z, x

LEMMA CellsThatCanBe ==
    ASSUME NEW h, CountInv(h)
    PROVE  /\ CanBe(h.cells, [kind |-> "string", count |-> 0, property |-> UndefinedValue, base |-> NoCell])
           /\ \A v \in Vals : Fits(h.cells, v) =>
                CanBe(h.cells, [kind |-> "object", count |-> 0, property |-> v, base |-> NoCell])
           /\ \A b \in Cells : h.cells[b].kind = "object" =>
                CanBe(h.cells, [kind |-> "reference", count |-> 0, property |-> UndefinedValue, base |-> b])
<1>1. UndefinedValue \in Vals
  BY FreeIsCell
<1>2. ASSUME NEW k \in Kinds, NEW v \in Vals, NEW b \in Cells \cup {NoCell}
      PROVE  [kind |-> k, count |-> 0, property |-> v, base |-> b] \in CellRec
  BY DEF CellRec
<1>3. {"string", "object", "reference"} \subseteq Kinds
  BY DEF Kinds
<1> QED BY <1>1, <1>2, <1>3 DEF CanBe

\* Wrapping a value in an object.
LEMMA ToObjectKeeps ==
    ASSUME NEW h, CountInv(h), NEW l \in Locals, FreeCells(h) # {}
    PROVE  CountInv(convertToObject(h, l))
<1>1. CASE h.locals[l].type = "object"
  BY <1>1 DEF convertToObject
<1>2. CASE h.locals[l].type # "object"
  <2> DEFINE e == WithoutLocal(h, l)
            v == h.locals[l]
            c == New(h)
            m == Allocated(h, "object", v, NoCell)
            x == Destroyed(m, v)
            y == AddRef(x, c)
            w == Typed("object", c)
            z == Put(y, l, w)
  <2>1. e \in [Cells -> Nat] /\ Sound(h, Also(e, CellOf(v)), NoCell, {})
    BY Aside
  <2>2. v \in Vals /\ CanBe(h.cells, [kind |-> "object", count |-> 0, property |-> v, base |-> NoCell])
    BY StoreOf, CellsThatCanBe DEF CountInv
  <2> HIDE DEF e
  <2>3. /\ c \in Cells /\ m.cells[c].kind = "object" /\ m.cells[c].count = 0
        /\ Sound(m, Also(e, CellOf(v)), NoCell, {c}) /\ Grows(h.cells, m.cells)
        /\ m.locals = h.locals /\ m.pointers = h.pointers
    BY <2>1, <2>2, AllocatedSound
  <2> HIDE DEF c, m
  <2>4. /\ Sound(x, e, NoCell, {c}) /\ Loyal(m.cells, x.cells)
        /\ x.locals = m.locals /\ x.pointers = m.pointers
    BY <2>1, <2>2, <2>3, DestroyedSound
  <2> HIDE DEF x
  <2>5. x.cells[c].kind = "object"
    BY <2>3, <2>4 DEF Loyal
  <2>6. /\ Sound(y, Also(e, c), NoCell, {})
        /\ y.locals = x.locals /\ y.pointers = x.pointers
        /\ \A d \in Cells : Same(x.cells, y.cells, d)
    BY <2>3, <2>4, <2>5, FreshHeld
  <2> HIDE DEF y
  <2>7. w \in Vals /\ CellOf(w) = c /\ Fits(y.cells, w)
    BY <2>3, <2>5, <2>6, TypedIs DEF Same
  <2> HIDE DEF w
  <2>8. /\ Sound(z, Also(e, c), NoCell, {}) /\ z.cells = y.cells /\ z.pointers = y.pointers
        /\ z.locals = [y.locals EXCEPT ![l] = w]
    BY <2>6, <2>7, PutIs
  <2> HIDE DEF z
  <2>9. Keeps(h.cells, z.cells)
    BY <2>3, <2>4, <2>6, <2>8, StepsOn
  <2>10. CountInv(z)
    BY <2>3, <2>4, <2>6, <2>7, <2>8, <2>9, LocalDone DEF e
  <2>11. convertToObject(h, l) = z
    BY <1>2 DEF convertToObject, z, w, y, x, m, c
  <2> QED BY <2>10, <2>11
<1> QED BY <1>1, <1>2

\* An object is made the string that its conversion gives.
LEMMA ObjectToStringKeeps ==
    ASSUME NEW h, CountInv(h), NEW l \in Locals, FreeCells(h) # {}
    PROVE  LET t == AddRef(Allocated(h, "string", UndefinedValue, NoCell), New(h))
           IN  CountInv(Release(Assigned(t, l, Typed("string", New(h))), New(h)))
<1> DEFINE e == WithoutLocal(h, l)
          old == CellOf(h.locals[l])
          c == New(h)
          m == Allocated(h, "string", UndefinedValue, NoCell)
          t == AddRef(m, c)
          w == Typed("string", c)
          y == Assigned(t, l, w)
          z == Release(y, c)
<1>1. e \in [Cells -> Nat] /\ Sound(h, Also(e, old), NoCell, {})
  BY Aside
<1>2. CanBe(h.cells, [kind |-> "string", count |-> 0, property |-> UndefinedValue, base |-> NoCell])
  BY CellsThatCanBe
<1> HIDE DEF e
<1>3. /\ c \in Cells /\ m.cells[c].kind = "string"
      /\ Sound(m, Also(e, old), NoCell, {c}) /\ Grows(h.cells, m.cells)
      /\ m.locals = h.locals /\ m.pointers = h.pointers
  BY <1>1, <1>2, AllocatedSound
<1> HIDE DEF c, m
<1>4. /\ Sound(t, Also(Also(e, old), c), NoCell, {})
      /\ t.locals = m.locals /\ t.pointers = m.pointers
      /\ \A d \in Cells : Same(m.cells, t.cells, d)
  BY <1>3, FreshHeld
<1> HIDE DEF t
<1> DEFINE f == Also(e, c)
<1>5. f \in [Cells -> Nat] /\ Sound(t, Also(f, old), NoCell, {}) /\ f[c] >= 1
  BY <1>1, <1>3, <1>4, AlsoCommutes
<1>6. w \in Vals /\ CellOf(w) = c /\ w.cell = c /\ \A T : Fits(T, w) <=> T[c].kind = "string"
  BY <1>3, TypedIs DEF Typed
<1>7. Copy(w) = w
  BY <1>3, <1>6, CountAssumption DEF Copy
<1> HIDE DEF w, f
<1>8. /\ Sound(y, Also(f, c), NoCell, {}) /\ Follows(t.cells, y.cells)
      /\ y.locals = [t.locals EXCEPT ![l] = w] /\ y.pointers = t.pointers
  <2>1. t.locals[l] = h.locals[l]
    BY <1>3, <1>4
  <2>2. Sound(t, Also(f, CellOf(t.locals[l])), NoCell, {})
    BY <1>5, <2>1 DEF old
  <2>3. w \in Vals /\ f \in [Cells -> Nat] /\ (CellOf(w) \in Cells => f[CellOf(w)] >= 1)
    BY <1>5, <1>6
  <2> HIDE DEF old, y
  <2>4. LET b == Assigned(t, l, w)
        IN  /\ Sound(b, Also(f, CellOf(w)), NoCell, {}) /\ Follows(t.cells, b.cells)
            /\ b.locals = [t.locals EXCEPT ![l] = Copy(w)] /\ b.pointers = t.pointers
    BY <2>2, <2>3, AssignedSound
  <2>5. /\ Sound(y, Also(f, CellOf(w)), NoCell, {}) /\ Follows(t.cells, y.cells)
        /\ y.locals = [t.locals EXCEPT ![l] = Copy(w)] /\ y.pointers = t.pointers
    BY <2>4, Zenon DEF y
  <2> QED BY <1>6, <1>7, <2>5
<1> HIDE DEF y
<1>9. /\ Sound(z, f, NoCell, {}) /\ Loyal(y.cells, z.cells)
      /\ z.locals = y.locals /\ z.pointers = y.pointers
  <2>1. Anchored(y.cells, f, NoCell)
    BY DEF Anchored
  <2>2. c \in Cells \cup {NoCell} /\ f \in [Cells -> Nat]
    BY <1>3, <1>5
  <2>3. Sound(y, Also(f, c), NoCell, {})
    BY <1>8
  <2>4. z = Release(y, c)
    OBVIOUS
  <2> HIDE DEF z
  <2>5. /\ Sound(Release(y, c), f, NoCell, {}) /\ Loyal(y.cells, Release(y, c).cells)
        /\ Release(y, c).locals = y.locals /\ Release(y, c).pointers = y.pointers
    BY <2>1, <2>2, <2>3, ReleaseSound
  <2> QED BY <2>4, <2>5
<1> HIDE DEF z
<1>10. Follows(m.cells, z.cells)
  BY <1>4, <1>8, <1>9, StepsOn
<1>11. Keeps(h.cells, z.cells)
  BY <1>3, <1>10, StepsOn
<1>12. z.cells[c].kind # "free"
  BY <1>3, <1>5, <1>9, HeldIsLive
<1>13. Fits(z.cells, w)
  BY <1>3, <1>6, <1>10, <1>12 DEF Follows, Same
<1>14. CountInv(z)
  BY <1>3, <1>4, <1>6, <1>8, <1>9, <1>11, <1>13, LocalDone DEF e, f
<1> QED BY <1>14 DEF z, y, w, t, m, c

LEMMA ToStringKeeps ==
    ASSUME NEW h, CountInv(h), NEW l \in Locals, FreeCells(h) # {},
           h.locals[l].type \in Primitive \cup {"object"}
    PROVE  CountInv(convertToString(h, l))
<1>1. CASE h.locals[l].type = "string"
  BY <1>1 DEF convertToString
<1>2. CASE h.locals[l].type = "object"
  BY <1>2, ObjectToStringKeeps DEF convertToString
<1>3. CASE h.locals[l].type \notin {"string", "object"}
  <2>1. ~HoldsCell(h.locals[l])
    BY <1>3 DEF Primitive, HoldsCell
  <2>2. convertToString(h, l) = Constructs(h, l, "string", UndefinedValue, NoCell)
    BY <1>3 DEF convertToString, Constructs
  <2> QED BY <2>1, <2>2, CellsThatCanBe, ConstructsKeeps
<1> QED BY <1>1, <1>2, <1>3

\* What a reference refers to.
LEMMA ReferenceIs ==
    ASSUME NEW h, CountInv(h), NEW r \in Locals, h.locals[r].type = "reference"
    PROVE  LET c == Base(h, h.locals[r])
               v == PropertyOf(h, h.locals[r])
               b == h.locals[r].cell
           IN  /\ b \in Cells /\ b = CellOf(h.locals[r]) /\ h.cells[b].kind = "reference"
               /\ c \in Cells /\ c = h.cells[b].base /\ h.cells[c].kind = "object"
               /\ v \in Vals /\ v = h.cells[c].property /\ Fits(h.cells, v)
               /\ CellOf(v) \in Cells => h.cells[CellOf(v)].kind # "free"
<1> DEFINE b == h.locals[r].cell
          c == Base(h, h.locals[r])
          v == PropertyOf(h, h.locals[r])
<1>1. HoldsCell(h.locals[r]) /\ Fits(h.cells, h.locals[r])
  BY DEF HoldsCell, CountInv
<1>2. b \in Cells /\ b = CellOf(h.locals[r]) /\ h.cells[b].kind = "reference"
  BY <1>1 DEF Fits, CellOf
<1>3. c = h.cells[b].base /\ c \in Cells /\ h.cells[c].kind = "object"
  <2>1. Shaped(h.cells, NoCell, b)
    BY <1>2 DEF CountInv, Sound
  <2> QED BY <1>2, <2>1 DEF Shaped, Base
<1>4. v = h.cells[c].property
  BY DEF PropertyOf
<1> HIDE DEF b, c, v
<1>5. v \in Vals /\ Fits(h.cells, v)
  <2>1. Shaped(h.cells, NoCell, c) /\ c # NoCell
    BY <1>3, CountAssumption DEF CountInv, Sound
  <2>2. h.cells[c] \in CellRec
    BY <1>3, StoreOf
  <2> QED BY <1>3, <1>4, <2>1, <2>2 DEF Shaped, CellRec
<1>6. CellOf(v) \in Cells => h.cells[CellOf(v)].kind # "free"
  BY <1>5, CountAssumption DEF Fits, CellOf, HoldsCell
<1> QED BY <1>2, <1>3, <1>4, <1>5, <1>6 DEF b, c, v

\* A reference's value.
LEMMA GetValueKeeps ==
    ASSUME NEW h, CountInv(h), NEW l \in Locals, NEW r \in Locals, h.locals[r].type = "reference"
    PROVE  CountInv(GetValue(h, l, r))
<1> DEFINE e == WithoutLocal(h, l)
          old == CellOf(h.locals[l])
          v == PropertyOf(h, h.locals[r])
          d == CellOf(v)
          f == Also(e, d)
          x == Held(h, v)
          y == Assigned(x, l, v)
          z == Destroyed(y, v)
<1>1. e \in [Cells -> Nat] /\ Sound(h, Also(e, old), NoCell, {})
  BY Aside
<1>2. /\ v \in Vals /\ Fits(h.cells, v) /\ (d \in Cells => h.cells[d].kind # "free")
  BY ReferenceIs
<1> HIDE DEF e, v
<1>3. /\ Sound(x, Also(Also(e, old), d), NoCell, {}) /\ Follows(h.cells, x.cells)
      /\ x.locals = h.locals /\ x.pointers = h.pointers
  <2>1. Also(e, old) \in [Cells -> Nat]
    BY <1>1, AlsoIs
  <2> HIDE DEF old
  <2> QED BY <1>1, <1>2, <2>1, HeldSound
<1> HIDE DEF x
<1>4. f \in [Cells -> Nat] /\ Sound(x, Also(f, old), NoCell, {}) /\ (d \in Cells => f[d] >= 1)
  BY <1>1, <1>3, AlsoCommutes
<1> HIDE DEF f
<1>5. /\ Sound(y, Also(f, d), NoCell, {}) /\ Follows(x.cells, y.cells)
      /\ y.locals = [x.locals EXCEPT ![l] = Copy(v)] /\ y.pointers = x.pointers
  <2>1. Sound(x, Also(f, CellOf(x.locals[l])), NoCell, {})
    BY <1>3, <1>4
  <2>2. d = CellOf(v) /\ v \in Vals /\ f \in [Cells -> Nat]
    BY <1>2, <1>4
  <2> HIDE DEF d, z, old
  <2> QED BY <1>2, <1>4, <2>1, <2>2, AssignedSound, SMTT(30)
<1> HIDE DEF y
<1>6. /\ Sound(z, f, NoCell, {}) /\ Loyal(y.cells, z.cells)
      /\ z.locals = y.locals /\ z.pointers = y.pointers
  BY <1>2, <1>4, <1>5, DestroyedSound
<1> HIDE DEF z
<1>7. Keeps(h.cells, z.cells)
  BY <1>3, <1>5, <1>6, StepsOn
<1>8. d \in Cells => z.cells[d].kind # "free"
  BY <1>4, <1>6, HeldIsLive
<1>9. Copy(v) \in Vals /\ CellOf(Copy(v)) = d /\ Fits(z.cells, Copy(v))
  BY <1>2, <1>7, <1>8, FitsKept, CellOfIs
<1>10. z.locals = [h.locals EXCEPT ![l] = Copy(v)] /\ z.pointers = h.pointers
  BY <1>3, <1>5, <1>6
<1>11. Sound(z, Also(WithoutLocal(h, l), CellOf(Copy(v))), NoCell, {})
  BY <1>6, <1>9 DEF e, f
<1>12. CountInv(z)
  BY <1>7, <1>9, <1>10, <1>11, LocalDone
<1> QED BY <1>12 DEF GetValue, z, y, x, v

\* The pointer p is put aside.
LEMMA PointerAside ==
    ASSUME NEW h, CountInv(h), NEW p \in Pointers
    PROVE  LET e == WithoutPointer(h, p)
           IN  /\ e \in [Cells -> Nat]
               /\ Sound(h, Also(e, h.pointers[p]), NoCell, {})
               /\ \A l \in Locals : CellOf(h.locals[l]) \in Cells => e[CellOf(h.locals[l])] >= 1
               /\ \A q \in Pointers \ {p} : h.pointers[q] \in Cells => e[h.pointers[q]] >= 1
<1> DEFINE pointers == [h.pointers EXCEPT ![p] = NoCell]
          e == Outside(h.locals, pointers)
<1>1. /\ pointers \in [Pointers -> Cells \cup {NoCell}]
      /\ \A q \in Pointers \ {p} : pointers[q] = h.pointers[q]
  BY StoreOf
<1>2. [h.pointers EXCEPT ![p] = h.pointers[p]] = h.pointers /\ h.pointers[p] \in Cells \cup {NoCell}
  BY StoreOf
<1>3. Outside(h.locals, h.pointers) = Also(e, h.pointers[p])
  <2>1. h.locals \in [Locals -> Vals] /\ h.pointers \in [Pointers -> Cells \cup {NoCell}]
    BY StoreOf
  <2>2. Outside(h.locals, [h.pointers EXCEPT ![p] = h.pointers[p]]) = Also(e, h.pointers[p])
    BY <1>2, <2>1, PointerAdds
  <2> HIDE DEF e
  <2> QED BY <1>2, <2>2
<1> HIDE DEF pointers
<1>4. /\ e \in [Cells -> Nat]
      /\ \A l \in Locals : CellOf(h.locals[l]) \in Cells => e[CellOf(h.locals[l])] >= 1
      /\ \A q \in Pointers : pointers[q] \in Cells => e[pointers[q]] >= 1
  BY <1>1, OutsideIs, StoreOf
<1>5. e = WithoutPointer(h, p)
  BY DEF WithoutPointer, pointers
<1> HIDE DEF e
<1>6. Sound(h, Also(e, h.pointers[p]), NoCell, {})
  BY <1>3 DEF CountInv
<1> QED BY <1>1, <1>4, <1>5, <1>6

\* A smart pointer is assigned what another holder has.
LEMMA PointAtKeeps ==
    ASSUME NEW h, CountInv(h), NEW p \in Pointers, NEW c \in Cells \cup {NoCell},
           c # NoCell => h.cells[c].kind = "object" /\ WithoutPointer(h, p)[c] >= 1
    PROVE  CountInv(PointAt(h, p, c))
<1> DEFINE e == WithoutPointer(h, p)
          old == h.pointers[p]
          x == Release(h, old)
          y == AddRef(x, c)
          z == [y EXCEPT !.pointers[p] = c]
<1>1. e \in [Cells -> Nat] /\ Sound(h, Also(e, old), NoCell, {}) /\ old \in Cells \cup {NoCell}
  BY PointerAside, StoreOf
<1> HIDE DEF e, old
<1>2. /\ Sound(x, e, NoCell, {}) /\ Loyal(h.cells, x.cells)
      /\ x.locals = h.locals /\ x.pointers = h.pointers
  <2>1. Anchored(h.cells, e, NoCell)
    BY DEF Anchored
  <2> QED BY <1>1, <2>1, ReleaseSound
<1> HIDE DEF x
<1>3. c # NoCell => x.cells[c].kind # "free"
  <2>1. c # NoCell => c \in Cells /\ e[c] >= 1
    BY DEF e
  <2> QED BY <1>2, <2>1, HeldIsLive
<1>4. /\ Sound(y, Also(e, c), NoCell, {} \ {c})
      /\ y.locals = x.locals /\ y.pointers = x.pointers
      /\ \A d \in Cells : Same(x.cells, y.cells, d)
  BY <1>2, <1>3, AddRefSound
<1> HIDE DEF y
<1>5. Sound(y, Also(e, c), NoCell, {})
  BY <1>4 DEF Sound
<1>6. /\ z \in Stores /\ z.cells = y.cells /\ z.fault = y.fault /\ z.locals = y.locals
      /\ z.pointers = [y.pointers EXCEPT ![p] = c]
  <2>1. y \in Stores
    BY <1>5 DEF Sound
  <2> QED BY <2>1 DEF Stores
<1>7. PointAt(h, p, c) = z
  BY DEF PointAt, x, y, old
<1> HIDE DEF z
<1>8. Sound(z, Also(e, c), NoCell, {})
  BY <1>5, <1>6, SoundCells
<1>9. z.locals = h.locals /\ z.pointers = [h.pointers EXCEPT ![p] = c]
  BY <1>2, <1>4, <1>6
<1>10. Outside(z.locals, z.pointers) = Also(e, c)
  <2>1. h.locals \in [Locals -> Vals] /\ h.pointers \in [Pointers -> Cells \cup {NoCell}]
    BY StoreOf
  <2>2. Outside(h.locals, [h.pointers EXCEPT ![p] = c]) = Also(WithoutPointer(h, p), c)
    BY <2>1, PointerAdds DEF WithoutPointer
  <2> QED BY <1>9, <2>2 DEF e
<1>11. Follows(h.cells, x.cells) /\ Follows(x.cells, z.cells)
  BY <1>2, <1>4, <1>6, StepsOn
<1>12. Keeps(h.cells, z.cells)
  BY <1>11, StepsOn
<1>13. c # NoCell => z.cells[c].kind = "object"
  BY <1>2, <1>3, <1>4, <1>6 DEF Loyal, Same
<1>14. \A q \in Pointers : \/ z.pointers[q] \in {NoCell, h.pointers[q]}
                           \/ z.cells[z.pointers[q]].kind = "object"
  <2> TAKE q \in Pointers
  <2>1. CASE q = p
    BY <1>9, <1>13, <2>1, StoreOf
  <2>2. CASE q # p
    BY <1>9, <2>2, StoreOf
  <2> QED BY <2>1, <2>2
<1>15. CountInv(z)
  BY <1>8, <1>9, <1>10, <1>12, <1>14, Done
<1> QED BY <1>7, <1>15

\* A property that is about to be replaced is held from outside.
LEMMA Pinned ==
    ASSUME NEW h, NEW e, Sound(h, e, NoCell, {}), NEW c \in Cells, h.cells[c].kind = "object"
    PROVE  Sound(h, Also(e, CellOf(h.cells[c].property)), c, {})
<1> DEFINE T == h.cells
          old == CellOf(T[c].property)
          f == Inner(T, NoCell)
          g == Inner(T, c)
<1>1. h \in Stores /\ ~h.fault /\ e \in [Cells -> Nat] /\ T \in [Cells -> CellRec]
  BY StoreParts DEF Sound
<1>2. f[c] = old /\ g[c] = NoCell /\ ButAt(c, f, g, Cells)
  <2>1. f[c] = old /\ g[c] = NoCell
    BY <1>1, HeldByIs, CountAssumption
  <2>2. \A d \in Cells \ {c} : g[d] = f[d]
    BY CountAssumption DEF Inner
  <2> QED BY <2>1, <2>2 DEF ButAt
<1>3. \A d \in Cells : T[d].count = Number(f, Cells, d) + e[d] /\ Shaped(T, NoCell, d)
                       /\ (T[d].kind # "free" => T[d].count > 0)
  BY DEF Sound
<1> HIDE DEF old, f, g
<1>4. ASSUME NEW d \in Cells PROVE T[d].count = Number(g, Cells, d) + Also(e, old)[d]
  <2>1. /\ Number(f, Cells, d) \in Nat /\ Number(g, Cells, d) \in Nat
        /\ Number(g, Cells, d) + Delta(f[c], d) = Number(f, Cells, d) + Delta(g[c], d)
    BY <1>2, NumberChanged, CountAssumption
  <2>2. Also(e, old)[d] = e[d] + Delta(d, old) /\ e[d] \in Nat
    BY <1>1, AlsoIs
  <2>3. Delta(g[c], d) = 0 /\ Delta(f[c], d) = Delta(d, old) /\ Delta(d, old) \in Nat
    BY <1>2, CountAssumption DEF Delta
  <2>4. T[d].count = Number(f, Cells, d) + e[d]
    BY <1>3
  <2> QED BY <2>1, <2>2, <2>3, <2>4
<1>5. ASSUME NEW d \in Cells PROVE Shaped(T, c, d)
  <2>1. Shaped(T, NoCell, d) /\ d # NoCell
    BY <1>3, CountAssumption
  <2> QED BY <2>1 DEF Shaped
<1>6. Also(e, old) \in [Cells -> Nat]
  BY <1>1, AlsoIs
<1> QED BY <1>1, <1>3, <1>4, <1>5, <1>6 DEF Sound, old, g

\* The property is replaced by one that has been held.
WithProperty(y, c, w) == [y EXCEPT !.cells[c].property = w]

LEMMA Unpinned ==
    ASSUME NEW y, NEW e \in [Cells -> Nat], NEW c \in Cells, NEW w \in Vals,
           Sound(y, Also(e, CellOf(w)), c, {}), y.cells[c].kind = "object", Fits(y.cells, w)
    PROVE  LET z == WithProperty(y, c, w)
           IN  /\ Sound(z, e, NoCell, {}) /\ z.locals = y.locals /\ z.pointers = y.pointers
               /\ \A d \in Cells : z.cells[d].kind = y.cells[d].kind
<1> DEFINE z == WithProperty(y, c, w)
          T == y.cells
          U == z.cells
          f == Inner(T, c)
          g == Inner(U, NoCell)
<1>1. y \in Stores /\ ~y.fault /\ T \in [Cells -> CellRec]
  BY StoreParts DEF Sound
<1>2. /\ z \in Stores /\ ~z.fault /\ z.locals = y.locals /\ z.pointers = y.pointers
      /\ U = [T EXCEPT ![c].property = w]
  <2>1. U = [T EXCEPT ![c].property = w] /\ z.locals = y.locals /\ z.pointers = y.pointers /\ ~z.fault
    BY <1>1 DEF Stores, WithProperty
  <2>2. [T EXCEPT ![c].property = w] \in [Cells -> CellRec]
    BY <1>1 DEF CellRec
  <2>3. z \in Stores
    BY <1>1, <2>2 DEF Stores, WithProperty
  <2> QED BY <2>1, <2>3
<1> HIDE DEF z
<1>3. /\ \A d \in Cells : U[d].kind = T[d].kind /\ U[d].count = T[d].count /\ U[d].base = T[d].base
      /\ U[c].property = w /\ \A d \in Cells \ {c} : U[d] = T[d]
      /\ U \in [Cells -> CellRec]
  <2>1. U \in [Cells -> CellRec]
    BY <1>2, StoreParts
  <2> QED BY <1>1, <1>2, <2>1 DEF CellRec
<1> HIDE DEF U
<1>4. f[c] = NoCell /\ g[c] = CellOf(w) /\ ButAt(c, f, g, Cells)
  <2>1. f[c] = NoCell /\ g[c] = CellOf(w)
    BY <1>1, <1>3, HeldByIs, CountAssumption
  <2>2. \A d \in Cells \ {c} : g[d] = f[d]
    BY <1>3, CountAssumption DEF Inner
  <2> QED BY <2>1, <2>2 DEF ButAt
<1>5. \A d \in Cells : T[d].count = Number(f, Cells, d) + Also(e, CellOf(w))[d] /\ Shaped(T, c, d)
                       /\ (T[d].kind # "free" => T[d].count > 0)
  BY DEF Sound
<1> HIDE DEF f, g
<1>6. ASSUME NEW d \in Cells PROVE U[d].count = Number(g, Cells, d) + e[d]
  <2>1. /\ Number(f, Cells, d) \in Nat /\ Number(g, Cells, d) \in Nat
        /\ Number(g, Cells, d) + Delta(f[c], d) = Number(f, Cells, d) + Delta(g[c], d)
    BY <1>4, NumberChanged, CountAssumption
  <2>2. Also(e, CellOf(w))[d] = e[d] + Delta(d, CellOf(w)) /\ e[d] \in Nat
    BY AlsoIs
  <2>3. /\ Delta(f[c], d) = 0 /\ Delta(g[c], d) = Delta(d, CellOf(w))
        /\ Delta(d, CellOf(w)) \in Nat
    BY <1>4, CountAssumption DEF Delta
  <2>4. U[d].count = Number(f, Cells, d) + Also(e, CellOf(w))[d]
    BY <1>3, <1>5
  <2> QED BY <2>1, <2>2, <2>3, <2>4
<1>7. \A v : Fits(T, v) => Fits(U, v)
  BY <1>3 DEF Fits
<1>8. ASSUME NEW d \in Cells PROVE Shaped(U, NoCell, d)
  <2>1. Shaped(T, c, d) /\ d # NoCell
    BY <1>5, CountAssumption
  <2>2. CASE d = c
    BY <1>3, <1>7, <2>1, <2>2 DEF Shaped
  <2>3. CASE d # c
    <3>1. U[d] = T[d]
      BY <1>3, <2>3
    <3>2. T[d].kind = "reference" => T[d].base \in Cells /\ U[T[d].base].kind = "object"
      BY <1>3, <2>1 DEF Shaped
    <3> QED BY <1>7, <2>1, <2>3, <3>1, <3>2 DEF Shaped
  <2> QED BY <2>2, <2>3
<1>9. Sound(z, e, NoCell, {})
  BY <1>2, <1>3, <1>5, <1>6, <1>8 DEF Sound, U, g
<1> QED BY <1>2, <1>3, <1>9 DEF z, U

\* A value is put to what a reference refers to.
LEMMA PutValueKeeps ==
    ASSUME NEW h, CountInv(h), NEW l \in Locals, NEW r \in Locals, h.locals[r].type = "reference"
    PROVE  CountInv(PutValue(h, r, l))
<1> DEFINE e == Outside(h.locals, h.pointers)
          b == h.locals[r].cell
          c == Base(h, h.locals[r])
          old == h.cells[c].property
          v == h.locals[l]
          w == Copy(v)
          x == Destroyed(h, old)
          y == Held(x, v)
          z == WithProperty(y, c, w)
<1>1. /\ b \in Cells /\ b = CellOf(h.locals[r]) /\ h.cells[b].kind = "reference"
      /\ c \in Cells /\ c = h.cells[b].base /\ h.cells[c].kind = "object"
      /\ old \in Vals
  <2>1. old = PropertyOf(h, h.locals[r])
    BY DEF PropertyOf
  <2> QED BY <2>1, ReferenceIs
<1>2. Sound(h, e, NoCell, {})
  BY DEF CountInv
<1>3. /\ e \in [Cells -> Nat] /\ e[b] >= 1 /\ (CellOf(v) \in Cells => e[CellOf(v)] >= 1)
  BY <1>1, StoreOf, OutsideIs
<1>4. v \in Vals /\ Fits(h.cells, v)
  BY StoreOf DEF CountInv
<1>5. PutValue(h, r, l) = z
  BY DEF PutValue, WithProperty
<1> HIDE DEF e, b, c, v
<1>6. Sound(h, Also(e, CellOf(old)), c, {})
  BY <1>1, <1>2, Pinned
<1>7. Anchored(h.cells, e, c)
  BY <1>1, <1>3 DEF Anchored
<1> HIDE DEF old
<1>8. /\ Sound(x, e, c, {}) /\ Loyal(h.cells, x.cells)
      /\ x.locals = h.locals /\ x.pointers = h.pointers
  <2>1. CellOf(old) \in Cells \cup {NoCell}
    BY <1>1, CellOfIs
  <2> QED BY <1>3, <1>6, <1>7, <2>1, ReleaseSound DEF Destroyed
<1> HIDE DEF x
<1>9. x.cells[c].kind = "object"
  <2>1. Also(e, NoCell) = e
    BY <1>3, AlsoIs, CountAssumption
  <2>2. Sound(x, Also(e, NoCell), c, {})
    BY <1>8, <2>1
  <2>3. Anchored(x.cells, e, c)
    BY <1>3, <1>7, <1>8, <2>2, AnchorHolds
  <2>4. c # NoCell
    BY <1>1, CountAssumption
  <2> QED BY <2>3, <2>4 DEF Anchored
<1>10. /\ Sound(y, Also(e, CellOf(v)), c, {}) /\ Follows(x.cells, y.cells) /\ Grows(x.cells, y.cells)
       /\ y.locals = x.locals /\ y.pointers = x.pointers
  <2>1. CellOf(v) \in Cells => x.cells[CellOf(v)].kind # "free"
    BY <1>3, <1>8, HeldIsLive
  <2> QED BY <1>3, <1>4, <1>8, <2>1, HeldSound
<1> HIDE DEF y
<1>11. y.cells[c].kind = "object"
  BY <1>1, <1>9, <1>10 DEF Grows, Same
<1>12. w \in Vals /\ CellOf(w) = CellOf(v)
  BY <1>4, CellOfIs
<1>13. Follows(h.cells, x.cells) /\ Follows(h.cells, y.cells) /\ Keeps(h.cells, y.cells)
  BY <1>8, <1>10, StepsOn
<1>14. Fits(y.cells, w)
  <2>1. CellOf(v) \in Cells => Also(e, CellOf(v))[CellOf(v)] >= 1
    BY <1>3, AlsoCommutes
  <2>2. CellOf(v) \in Cells => y.cells[CellOf(v)].kind # "free"
    BY <1>10, <2>1, HeldIsLive
  <2> QED BY <1>4, <1>13, <2>2, FitsKept, CellOfIs
<1> HIDE DEF w
<1>15. /\ Sound(z, e, NoCell, {}) /\ z.locals = y.locals /\ z.pointers = y.pointers
       /\ \A d \in Cells : z.cells[d].kind = y.cells[d].kind
  <2>1. Sound(y, Also(e, CellOf(w)), c, {})
    BY <1>10, <1>12
  <2> QED BY <1>1, <1>3, <1>11, <1>12, <1>14, <2>1, Unpinned
<1> HIDE DEF z
<1>16. z.locals = h.locals /\ z.pointers = h.pointers
  BY <1>8, <1>10, <1>15
<1>17. Sound(z, Outside(z.locals, z.pointers), NoCell, {})
  BY <1>15, <1>16 DEF e
<1>18. Keeps(h.cells, z.cells)
  BY <1>13, <1>15 DEF Keeps
<1>19. CountInv(z)
  BY <1>16, <1>17, <1>18, Done
<1> QED BY <1>5, <1>19

-------------------------------------------------------------------------------
(*                             The engine                                  *)

LEMMA EmptyIsSound == CountInv(Empty)
<1> DEFINE T == [c \in Cells |-> Free]
          locals == [l \in Locals |-> Unborn]
          pointers == [p \in Pointers |-> NoCell]
          e == Outside(locals, pointers)
          f == Inner(T, NoCell)
<1>1. /\ Empty.cells = T /\ Empty.locals = locals /\ Empty.pointers = pointers
      /\ Empty.fault = FALSE
  BY DEF Empty
<1>2. Empty \in Stores
  <2>1. T \in [Cells -> CellRec] /\ locals \in [Locals -> Vals]
    BY FreeIsCell
  <2> QED BY <2>1 DEF Empty, Stores
<1>3. e \in [Cells -> Nat]
  <2>1. locals \in [Locals -> Vals] /\ pointers \in [Pointers -> Cells \cup {NoCell}]
    BY FreeIsCell
  <2> QED BY <2>1, OutsideIs
<1>4. \A d \in Cells : f[d] = NoCell
  BY DEF Inner, HeldBy, Free
<1>5. \A l \in Locals : CellsOf(locals)[l] = NoCell
  BY CellOfIs DEF CellsOf
<1>6. \A p \in Pointers : pointers[p] = NoCell
  OBVIOUS
<1> DEFINE none(g, S, c) == Number(g, S, c) = 0
<1>7. ASSUME NEW g, NEW S, IsFiniteSet(S), \A x \in S : g[x] = NoCell, NEW c \in Cells
      PROVE  none(g, S, c)
  BY <1>7, NumberHas, CountAssumption
<1>8. ASSUME NEW c \in Cells PROVE e[c] = 0 /\ Number(f, Cells, c) = 0
  <2>1. e[c] = Number(CellsOf(locals), Locals, c) + Number(pointers, Pointers, c)
    BY DEF Outside
  <2> HIDE DEF locals, pointers, f, e
  <2>2. none(CellsOf(locals), Locals, c)
    BY <1>5, <1>7, CountAssumption
  <2>3. none(pointers, Pointers, c)
    BY <1>6, <1>7, CountAssumption
  <2>4. none(f, Cells, c)
    BY <1>4, <1>7, CountAssumption
  <2> QED BY <2>1, <2>2, <2>3, <2>4
<1>9. ASSUME NEW c \in Cells
      PROVE  T[c] = Free /\ T[c].kind = "free" /\ T[c].count = 0 /\ Shaped(T, NoCell, c)
  BY DEF Free, Shaped
<1>10. Sound(Empty, e, NoCell, {})
  <2> HIDE DEF T, e, f
  <2> QED BY <1>1, <1>2, <1>3, <1>8, <1>9 DEF Sound, f
<1>11. \A l \in Locals : Fits(Empty.cells, Empty.locals[l])
  BY <1>1, CellOfIs DEF Fits
<1> QED BY <1>1, <1>10, <1>11 DEF CountInv

\* A smart pointer's object as a value.
LEMMA PointedKeeps ==
    ASSUME NEW h, CountInv(h), NEW l \in Locals, ~HoldsCell(h.locals[l]), NEW p \in Pointers,
           h.pointers[p] # NoCell
    PROVE  CountInv(Put(AddRef(h, h.pointers[p]), l, Typed("object", h.pointers[p])))
<1> DEFINE c == h.pointers[p]
          v == Typed("object", c)
<1>1. c \in Cells /\ h.cells[c].kind = "object"
  BY StoreOf DEF CountInv
<1> HIDE DEF c
<1>2. v \in Vals /\ CellOf(v) = c /\ Fits(h.cells, v) /\ v.cell = c
  BY <1>1, TypedIs DEF Typed
<1> HIDE DEF v
<1>3. Copy(v) = v
  BY <1>1, <1>2, CountAssumption DEF Copy
<1>4. CountInv(Put(Held(h, v), l, Copy(v)))
  BY <1>1, <1>2, CopiedKeeps
<1>5. CountInv(Put(AddRef(h, c), l, v))
  BY <1>2, <1>3, <1>4 DEF Held
<1> QED BY <1>5 DEF c, v

LEMMA ConstructedKeeps ==
    ASSUME NEW h, CountInv(h), NEW z \in Constructed(h)
    PROVE  CountInv(z)
<1> DEFINE unborn == {l \in Locals : ~Alive(h, l)}
          alive == {l \in Locals : Alive(h, l)}
          objects == {l \in Locals : Is(h, l, {"object"})}
<1>1. \A l \in unborn : l \in Locals /\ ~HoldsCell(h.locals[l])
  BY CellOfIs DEF Alive
<1>2. \A o \in objects : h.locals[o].cell \in Cells /\ h.cells[h.locals[o].cell].kind = "object"
  BY DEF Is, CountInv, Fits, HoldsCell
<1>3. CASE \E l \in unborn : z = Put(h, l, UndefinedValue)
  BY <1>1, <1>3, BornKeeps
<1>4. CASE /\ FreeCells(h) # {}
           /\ \E l \in unborn, kind \in {"string", "object"} :
                z = Constructs(h, l, kind, UndefinedValue, NoCell)
  <2>1. PICK l \in unborn, kind \in {"string", "object"} :
                z = Constructs(h, l, kind, UndefinedValue, NoCell)
    BY <1>4
  <2>2. UndefinedValue \in Vals /\ Fits(h.cells, UndefinedValue)
    BY FreeIsCell, CellOfIs DEF Fits
  <2>3. CanBe(h.cells, [kind |-> kind, count |-> 0, property |-> UndefinedValue, base |-> NoCell])
    BY <2>2, CellsThatCanBe
  <2> QED BY <1>1, <1>4, <2>1, <2>3, ConstructsKeeps
<1>5. CASE /\ FreeCells(h) # {}
           /\ \E l \in unborn, o \in objects :
                z = Constructs(h, l, "reference", UndefinedValue, h.locals[o].cell)
  <2>1. PICK l \in unborn, o \in objects :
                z = Constructs(h, l, "reference", UndefinedValue, h.locals[o].cell)
    BY <1>5
  <2>2. CanBe(h.cells, [kind |-> "reference", count |-> 0, property |-> UndefinedValue,
                        base |-> h.locals[o].cell])
    BY <1>2, CellsThatCanBe
  <2> QED BY <1>1, <1>5, <2>1, <2>2, ConstructsKeeps
<1>6. CASE \E l \in unborn, o \in alive : z = Put(Held(h, h.locals[o]), l, Copy(h.locals[o]))
  <2>1. PICK l \in unborn, o \in alive : z = Put(Held(h, h.locals[o]), l, Copy(h.locals[o]))
    BY <1>6
  <2>2. /\ h.locals[o] \in Vals /\ Fits(h.cells, h.locals[o])
        /\ CellOf(h.locals[o]) \in Cells => h.cells[CellOf(h.locals[o])].kind # "free"
    BY StoreOf DEF CountInv
  <2> QED BY <1>1, <2>1, <2>2, CopiedKeeps
<1>7. CASE \E l \in unborn, p \in {q \in Pointers : h.pointers[q] # NoCell} :
                z = Put(AddRef(h, h.pointers[p]), l, Typed("object", h.pointers[p]))
  BY <1>1, <1>7, PointedKeeps
<1> QED BY <1>3, <1>4, <1>5, <1>6, <1>7 DEF Constructed

LEMMA ChangedKeeps ==
    ASSUME NEW h, CountInv(h), NEW z \in Changed(h)
    PROVE  CountInv(z)
<1> DEFINE alive == {l \in Locals : Alive(h, l)}
          references == {l \in Locals : Is(h, l, {"reference"})}
          primitive  == {l \in Locals : Is(h, l, Primitive)}
          objects    == {l \in Locals : Is(h, l, {"object"})}
<1>1. \A r \in references : r \in Locals /\ h.locals[r].type = "reference"
  BY DEF Is
<1>2. \A t \in {"boolean", "number"} : Typed(t, NoCell) \in Vals /\ ~HoldsCell(Typed(t, NoCell))
  BY DEF Typed, Vals, TypeNames, HoldsCell
<1>3. CASE \E l \in alive : z = Put(Destroyed(h, h.locals[l]), l, Unborn)
  BY <1>3, FreeIsCell, CellOfIs, ReplacedKeeps
<1>4. CASE \E l \in alive, other \in alive : z = AssignLocal(h, l, other)
  BY <1>4, AssignKeeps
<1>5. CASE \E l \in alive : z = convertToBoolean(h, l)
  BY <1>2, <1>5, ReplacedKeeps DEF convertToBoolean
<1>6. CASE \E l \in alive : z = convertToNumber(h, l)
  BY <1>2, <1>6, ReplacedKeeps DEF convertToNumber
<1>7. CASE /\ FreeCells(h) # {}
           /\ \E l \in {k \in primitive : ~Is(h, k, {"undefined", "null"})} : z = convertToObject(h, l)
  BY <1>7, ToObjectKeeps
<1>8. CASE FreeCells(h) # {} /\ \E l \in primitive \cup objects : z = convertToString(h, l)
  BY <1>8, ToStringKeeps DEF Is
<1>9. CASE \E l \in alive, r \in references : z = GetValue(h, l, r)
  BY <1>1, <1>9, GetValueKeeps
<1>10. CASE \E l \in alive, r \in references : z = PutValue(h, r, l)
  BY <1>1, <1>10, PutValueKeeps
<1>11. CASE \E p \in Pointers, c \in {NoCell} \cup {h.locals[o].cell : o \in objects} :
                z = PointAt(h, p, c)
  <2>1. PICK p \in Pointers, c \in {NoCell} \cup {h.locals[o].cell : o \in objects} :
                z = PointAt(h, p, c)
    BY <1>11
  <2>2. CASE c = NoCell
    BY <2>1, <2>2, PointAtKeeps
  <2>3. CASE c # NoCell
    <3>1. PICK o \in objects : c = h.locals[o].cell
      BY <2>3
    <3>2. c \in Cells /\ h.cells[c].kind = "object" /\ c = CellOf(h.locals[o])
      BY <3>1 DEF Is, CountInv, Fits, HoldsCell, CellOf
    <3>3. WithoutPointer(h, p)[c] >= 1
      BY <3>2, PointerAside
    <3> QED BY <2>1, <3>2, <3>3, PointAtKeeps
  <2> QED BY <2>2, <2>3
<1>12. CASE \E p \in Pointers : \E q \in Pointers \ {p} : z = PointAt(h, p, h.pointers[q])
  <2>1. PICK p \in Pointers, q \in Pointers : q # p /\ z = PointAt(h, p, h.pointers[q])
    BY <1>12
  <2>2. h.pointers[q] \in Cells \cup {NoCell}
    BY StoreOf
  <2>3. h.pointers[q] # NoCell =>
          h.cells[h.pointers[q]].kind = "object" /\ WithoutPointer(h, p)[h.pointers[q]] >= 1
    <3> SUFFICES ASSUME h.pointers[q] # NoCell
                 PROVE  /\ h.cells[h.pointers[q]].kind = "object"
                        /\ WithoutPointer(h, p)[h.pointers[q]] >= 1
      OBVIOUS
    <3>1. h.cells[h.pointers[q]].kind = "object"
      BY DEF CountInv
    <3>2. WithoutPointer(h, p)[h.pointers[q]] >= 1
      BY <2>1, <2>2, PointerAside
    <3> QED BY <3>1, <3>2
  <2> QED BY <2>1, <2>2, <2>3, PointAtKeeps
<1> QED BY <1>3, <1>4, <1>5, <1>6, <1>7, <1>8, <1>9, <1>10, <1>11, <1>12 DEF Changed

\* The invariant says of every cell how many hold it.
LEMMA InvIsExact ==
    ASSUME NEW h, CountInv(h)
    PROVE  Exact(h)
<1> DEFINE T == h.cells
          e == Outside(h.locals, h.pointers)
<1>1. Sound(h, e, NoCell, {}) /\ ~h.fault /\ T \in [Cells -> CellRec] /\ e \in [Cells -> Nat]
  BY StoreOf DEF CountInv, Sound
<1>2. ASSUME NEW c \in Cells
      PROVE  T[c].count = Holders(h, c) /\ (T[c].kind = "free" <=> Holders(h, c) = 0)
  <2> DEFINE P == {d \in Live(h) : CellOf(T[d].property) = c}
            B == {d \in Live(h) : T[d].base = c}
            W == {d \in Cells : Inner(T, NoCell)[d] = c}
  <2>1. ASSUME NEW d \in Live(h), T[d].kind # "object" PROVE d \notin P
    <3>1. Shaped(T, NoCell, d) /\ T[d] \in CellRec /\ d \in Cells /\ T[d].kind # "free"
      BY <1>1, <2>1 DEF Live, Sound
    <3>2. CellOf(T[d].property) = NoCell
      BY <2>1, <3>1 DEF Shaped, CellRec, Kinds
    <3> QED BY <3>2, CountAssumption
  <2>2. ASSUME NEW d \in Live(h), T[d].kind # "reference" PROVE d \notin B
    <3>1. Shaped(T, NoCell, d) /\ T[d] \in CellRec /\ d \in Cells /\ T[d].kind # "free"
      BY <1>1, <2>2 DEF Live, Sound
    <3>2. T[d].base = NoCell
      BY <2>2, <3>1 DEF Shaped, CellRec, Kinds
    <3> QED BY <3>2, CountAssumption
  <2>3. ASSUME NEW d \in Cells
        PROVE  d \in W <=> d \in P \/ d \in B
    <3>1. Inner(T, NoCell)[d] = HeldBy(T[d]) /\ T[d] \in CellRec /\ c # NoCell
      BY <1>1, CountAssumption DEF Inner
    <3>2. CASE T[d].kind = "free"
      BY <1>1, <3>1, <3>2, HeldByIs DEF Live
    <3>3. CASE T[d].kind = "string"
      <4>1. d \in Live(h)
        BY <3>3 DEF Live
      <4> QED BY <1>1, <2>1, <2>2, <3>1, <3>3, <4>1, HeldByIs
    <3>4. CASE T[d].kind = "object"
      <4>1. d \in Live(h)
        BY <3>4 DEF Live
      <4> QED BY <1>1, <2>2, <3>1, <3>4, <4>1, HeldByIs
    <3>5. CASE T[d].kind = "reference"
      <4>1. d \in Live(h)
        BY <3>5 DEF Live
      <4> QED BY <1>1, <2>1, <3>1, <3>5, <4>1, HeldByIs
    <3> QED BY <3>1, <3>2, <3>3, <3>4, <3>5 DEF CellRec, Kinds
  <2>4. P \cap B = {} /\ W = P \cup B /\ P \subseteq Cells /\ B \subseteq Cells
    <3>1. P \subseteq Cells /\ B \subseteq Cells /\ W \subseteq Cells
      BY DEF Live
    <3>2. P \cap B = {}
      BY <2>1, <2>2
    <3> HIDE DEF P, B, W
    <3> QED BY <2>3, <3>1, <3>2
  <2>5. Number(Inner(T, NoCell), Cells, c) = Cardinality(W)
    BY DEF Number
  <2>6. Holders(h, c) = Number(CellsOf(h.locals), Locals, c) + Number(h.pointers, Pointers, c)
                          + Cardinality(P) + Cardinality(B)
    BY DEF Holders, Number, CellsOf
  <2>7. e[c] = Number(CellsOf(h.locals), Locals, c) + Number(h.pointers, Pointers, c)
    BY DEF Outside
  <2> HIDE DEF P, B, W, e
  <2>8. IsFiniteSet(P) /\ IsFiniteSet(B) /\ Cardinality(P) \in Nat /\ Cardinality(B) \in Nat
    BY <2>4, FS_Subset, FS_CardinalityType, CountAssumption
  <2>9. Cardinality(W) = Cardinality(P) + Cardinality(B)
    BY <2>4, <2>8, FS_Union, FS_EmptySet
  <2>10. /\ T[c].count = Number(Inner(T, NoCell), Cells, c) + e[c]
         /\ Shaped(T, NoCell, c) /\ (T[c].kind # "free" => T[c].count > 0)
    BY <1>1 DEF Sound
  <2>11. /\ Number(CellsOf(h.locals), Locals, c) \in Nat
         /\ Number(h.pointers, Pointers, c) \in Nat
    BY NumberHas, CountAssumption
  <2>12. T[c].count = Holders(h, c)
    BY <2>5, <2>6, <2>7, <2>8, <2>9, <2>10, <2>11
  <2>13. T[c].kind = "free" => T[c].count = 0
    BY <2>10 DEF Shaped, Free
  <2>14. T[c].count \in Nat
    BY <1>1 DEF CellRec
  <2> QED BY <2>10, <2>12, <2>13, <2>14
<1> QED BY <1>1, <1>2 DEF Exact

(* However values and smart pointers of the script engine are constructed, *)
(* copied, assigned, converted, stored in objects and destroyed: the count *)
(* of every string, object and reference is the number of its holders, and *)
(* it is deleted when the last of them releases it, never before, and not  *)
(* used afterwards (ScriptValue, Reference and SmartPtr).                  *)
THEOREM CountsExact == CountSpec => []RefCountsExact
<1> DEFINE Inv == subject.kind = "values" /\ CountInv(result)
<1>1. CountInit => Inv
  BY EmptyIsSound DEF CountInit
<1>2. Inv /\ [CountNext]_<<subject, result>> => Inv'
  <2> SUFFICES ASSUME Inv, [CountNext]_<<subject, result>> PROVE Inv'
    OBVIOUS
  <2>1. CASE Construct
    BY <2>1, ConstructedKeeps DEF Construct
  <2>2. CASE Change
    BY <2>2, ChangedKeeps DEF Change
  <2>3. CASE UNCHANGED <<subject, result>>
    BY <2>3
  <2> QED BY <2>1, <2>2, <2>3 DEF CountNext
<1>3. Inv => RefCountsExact
  BY InvIsExact DEF RefCountsExact
<1> QED BY <1>1, <1>2, <1>3, PTL DEF CountSpec

-------------------------------------------------------------------------------
(*                        Properties of the host                           *)

\* A chain of tables, each with a property of that name or with none.
Properties == [value : PropertyValues \cup {Table!Undefined},
               attributes : SUBSET {"ReadOnly", "DontDelete"}]
Tables == {Table!NoProperties} \cup [{Table!Name} -> Properties]
HasIt(table) == Table!Name \in DOMAIN table
Of(table) == table[Table!Name]

Promises(n) == [1 .. n -> [property : Properties, bare : SUBSET Nat]]

\* What the property of a table was is what the host has put there.
StillThere(table, p) == HasIt(table) /\ Of(table).attributes = p.attributes

\* A promise to one object, and what keeps it: what hides no property now
\* will not hide it, since the nearest one is found before anything is added.
PromiseHeld(chain, promise, k) ==
    LET p == promise.property
    IN  /\ Table!dontDelete(p) => StillThere(chain[k], p)
        /\ Table!isReadOnly(p) /\ StillThere(chain[k], p) => Of(chain[k]).value = p.value
        /\ Table!isReadOnly(p) /\ Table!dontDelete(p) =>
             \A i \in 1 .. k - 1 : i \in promise.bare => ~HasIt(chain[i])

HostInv(o) ==
    /\ o.chain \in Seq(Tables) /\ o.chain # <<>>
    /\ o.promises \in Promises(Len(o.chain))
    /\ o = [chain |-> o.chain, promises |-> o.promises]
    /\ \A k \in 1 .. Len(o.chain) : PromiseHeld(o.chain, o.promises[k], k)

LEMMA TablesAre ==
    /\ Table!NoProperties \in Tables /\ ~HasIt(Table!NoProperties)
    /\ \A t \in Tables : HasIt(t) => Of(t) \in Properties /\ t = [n \in {Table!Name} |-> Of(t)]
    /\ \A t \in Tables : ~HasIt(t) => t = Table!NoProperties
    /\ \A t \in Tables, p \in Properties :
          /\ Table!With(t, Table!Name, p) \in Tables /\ HasIt(Table!With(t, Table!Name, p))
          /\ Of(Table!With(t, Table!Name, p)) = p
    /\ \A t \in Tables :
          Table!Without(t, Table!Name) \in Tables /\ ~HasIt(Table!Without(t, Table!Name))
<1>1. Table!NoProperties \in Tables /\ ~HasIt(Table!NoProperties)
  BY DEF Tables, HasIt, Table!NoProperties
<1>2. \A t \in Tables : HasIt(t) => Of(t) \in Properties /\ t = [n \in {Table!Name} |-> Of(t)]
  BY DEF Tables, HasIt, Of, Table!NoProperties
<1>3. \A t \in Tables : ~HasIt(t) => t = Table!NoProperties
  BY DEF Tables, HasIt
<1>4. ASSUME NEW t \in Tables, NEW p \in Properties
      PROVE  /\ Table!With(t, Table!Name, p) \in Tables /\ HasIt(Table!With(t, Table!Name, p))
             /\ Of(Table!With(t, Table!Name, p)) = p
  <2>1. DOMAIN t \cup {Table!Name} = {Table!Name}
    BY DEF Tables, Table!NoProperties
  <2>2. Table!With(t, Table!Name, p) = [n \in {Table!Name} |-> p]
    BY <2>1 DEF Table!With
  <2> QED BY <2>2 DEF Tables, HasIt, Of
<1>5. ASSUME NEW t \in Tables
      PROVE  Table!Without(t, Table!Name) \in Tables /\ ~HasIt(Table!Without(t, Table!Name))
  <2>1. DOMAIN t \ {Table!Name} = {}
    BY DEF Tables, Table!NoProperties
  <2>2. Table!Without(t, Table!Name) = Table!NoProperties
    BY <2>1 DEF Table!Without, Table!NoProperties
  <2> QED BY <1>1, <2>2
<1> QED BY <1>1, <1>2, <1>3, <1>4, <1>5

\* The nearest table that has the property.
LEMMA NearestIs ==
    ASSUME NEW c \in Seq(Tables), Table!Having(c, Table!Name) # {}
    PROVE  /\ Table!Nearest(c, Table!Name) \in 1 .. Len(c) /\ HasIt(c[Table!Nearest(c, Table!Name)])
           /\ \A i \in 1 .. Len(c) : HasIt(c[i]) => Table!Nearest(c, Table!Name) <= i
<1> DEFINE S == Table!Having(c, Table!Name)
<1>1. S \in SUBSET Nat /\ \A i : i \in S <=> i \in 1 .. Len(c) /\ HasIt(c[i])
  BY DEF Table!Having, HasIt
<1>2. \E k \in S : \A j \in S : k <= j
  <2> HIDE DEF S
  <2> QED BY <1>1, Least DEF S
<1>3. Table!Nearest(c, Table!Name) \in S /\ \A j \in S : Table!Nearest(c, Table!Name) <= j
  BY <1>2 DEF Table!Nearest
<1> QED BY <1>1, <1>3

\* The chain as an object of it sees it.
LEMMA FromIs ==
    ASSUME NEW c \in Seq(Tables), NEW k \in 1 .. Len(c)
    PROVE  /\ Table!From(c, k) \in Seq(Tables) /\ Len(Table!From(c, k)) = Len(c) - k + 1
           /\ \A i \in 1 .. Len(c) - k + 1 : Table!From(c, k)[i] = c[i + k - 1]
           /\ \A i \in k .. Len(c) : Table!From(c, k)[i - k + 1] = c[i]
           /\ \A tail \in Seq(Tables) : Len(tail) = Len(c) - k + 1 =>
                 /\ Table!Replaced(c, k, tail) \in Seq(Tables) /\ Len(Table!Replaced(c, k, tail)) = Len(c)
                 /\ \A i \in 1 .. k - 1 : Table!Replaced(c, k, tail)[i] = c[i]
                 /\ \A i \in k .. Len(c) : Table!Replaced(c, k, tail)[i] = tail[i - k + 1]
<1>1. Table!From(c, k) \in Seq(Tables) /\ Len(Table!From(c, k)) = Len(c) - k + 1
  BY DEF Table!From
<1>2. \A i \in 1 .. Len(c) - k + 1 : Table!From(c, k)[i] = c[i + k - 1]
  BY DEF Table!From
<1>3. \A i \in k .. Len(c) : Table!From(c, k)[i - k + 1] = c[i]
  BY <1>2
<1>4. ASSUME NEW tail \in Seq(Tables), Len(tail) = Len(c) - k + 1
      PROVE  /\ Table!Replaced(c, k, tail) \in Seq(Tables) /\ Len(Table!Replaced(c, k, tail)) = Len(c)
             /\ \A i \in 1 .. k - 1 : Table!Replaced(c, k, tail)[i] = c[i]
             /\ \A i \in k .. Len(c) : Table!Replaced(c, k, tail)[i] = tail[i - k + 1]
  <2> DEFINE before == SubSeq(c, 1, k - 1)
  <2>1. before \in Seq(Tables) /\ Len(before) = k - 1 /\ \A i \in 1 .. k - 1 : before[i] = c[i]
    OBVIOUS
  <2> HIDE DEF before
  <2>2. Table!Replaced(c, k, tail) = before \o tail
    BY DEF Table!Replaced, before
  <2> QED BY <1>4, <2>1, <2>2
<1> QED BY <1>1, <1>2, <1>3, <1>4

\* A chain in which one table is another.
ChangedAt(c, d, m) ==
    /\ d \in Seq(Tables) /\ Len(d) = Len(c) /\ m \in 1 .. Len(c)
    /\ \A i \in 1 .. Len(c) : i # m => d[i] = c[i]

LEMMA ChangeIs ==
    ASSUME NEW c \in Seq(Tables), NEW m \in 1 .. Len(c), NEW t \in Tables
    PROVE  ChangedAt(c, [c EXCEPT ![m] = t], m) /\ [c EXCEPT ![m] = t][m] = t
BY DEF ChangedAt

\* What a script's put does: it updates the nearest property, with its
\* attributes, unless it is read-only, or adds one where there is none.
PutAt(c, d, k, m) ==
    /\ ChangedAt(c, d, m) /\ m \in k .. Len(c) /\ HasIt(d[m])
    /\ \/ /\ HasIt(c[m]) /\ Of(d[m]).attributes = Of(c[m]).attributes
          /\ Table!isReadOnly(Of(c[m])) => d[m] = c[m]
       \/ /\ m = k /\ Of(d[m]).attributes = {}
          /\ \A i \in k .. Len(c) : ~HasIt(c[i])

LEMMA ScriptPutIs ==
    ASSUME NEW c \in Seq(Tables), NEW k \in 1 .. Len(c), NEW v \in PropertyValues
    PROVE  \E m \in 1 .. Len(c) :
              PutAt(c, Table!Replaced(c, k, Table!putProperty(Table!From(c, k), Table!Name, v).state),
                    k, m)
<1> DEFINE f == Table!From(c, k)
          g == Table!putProperty(f, Table!Name, v).state
          d == Table!Replaced(c, k, g)
<1>1. /\ f \in Seq(Tables) /\ Len(f) = Len(c) - k + 1
      /\ \A i \in 1 .. Len(c) - k + 1 : f[i] = c[i + k - 1]
      /\ \A i \in k .. Len(c) : f[i - k + 1] = c[i]
  BY FromIs
<1> HIDE DEF f
<1>2. ASSUME NEW j \in 1 .. Len(f), ChangedAt(f, g, j)
      PROVE  ChangedAt(c, d, j + k - 1) /\ d[j + k - 1] = g[j] /\ j + k - 1 \in k .. Len(c)
  <2> HIDE DEF g
  <2>1. /\ d \in Seq(Tables) /\ Len(d) = Len(c)
        /\ \A i \in 1 .. k - 1 : d[i] = c[i]
        /\ \A i \in k .. Len(c) : d[i] = g[i - k + 1]
    BY <1>1, <1>2, FromIs DEF ChangedAt
  <2> HIDE DEF d
  <2>2. j + k - 1 \in k .. Len(c) /\ d[j + k - 1] = g[j]
    BY <1>1, <2>1
  <2>3. ASSUME NEW i \in 1 .. Len(c), i # j + k - 1 PROVE d[i] = c[i]
    <3>1. CASE i < k
      BY <2>1, <3>1
    <3>2. CASE i >= k
      <4>1. i - k + 1 \in 1 .. Len(f) /\ i - k + 1 # j
        BY <1>1, <2>3, <3>2
      <4>2. g[i - k + 1] = f[i - k + 1]
        BY <1>2, <4>1 DEF ChangedAt
      <4> QED BY <1>1, <2>1, <3>2, <4>2
    <3> QED BY <3>1, <3>2
  <2> QED BY <2>1, <2>2, <2>3 DEF ChangedAt
<1>3. CASE Table!Having(f, Table!Name) # {}
  <2> DEFINE j == Table!Nearest(f, Table!Name)
            p == Of(f[j])
            t == [f[j] EXCEPT ![Table!Name].value = v]
  <2>1. j \in 1 .. Len(f) /\ HasIt(f[j])
    BY <1>1, <1>3, NearestIs
  <2>2. f[j] \in Tables /\ p \in Properties /\ f[j] = [n \in {Table!Name} |-> p]
    BY <1>1, <2>1, TablesAre
  <2> HIDE DEF j
  <2>3. g = IF Table!isReadOnly(p) THEN f ELSE [f EXCEPT ![j][Table!Name].value = v]
    BY <1>3 DEF Table!putProperty, Table!hasProperty, Table!updateProperty, Table!Left, Of, j
  <2>4. t \in Tables /\ HasIt(t) /\ Of(t).attributes = p.attributes
    <3> HIDE DEF p
    <3>1. t = [n \in {Table!Name} |-> [p EXCEPT !.value = v]]
      BY <2>2
    <3>2. [p EXCEPT !.value = v] \in Properties /\ [p EXCEPT !.value = v].attributes = p.attributes
      BY <2>2 DEF Properties
    <3> HIDE DEF t
    <3> QED BY <3>1, <3>2 DEF Tables, HasIt, Of
  <2>5. [f EXCEPT ![j][Table!Name].value = v] = [f EXCEPT ![j] = t]
    OBVIOUS
  <2> HIDE DEF t
  <2>6. /\ ChangedAt(f, g, j) /\ HasIt(g[j]) /\ Of(g[j]).attributes = p.attributes
        /\ Table!isReadOnly(p) => g[j] = f[j]
    <3>1. CASE Table!isReadOnly(p)
      BY <1>1, <2>1, <2>3, <3>1 DEF ChangedAt
    <3>2. CASE ~Table!isReadOnly(p)
      <4>1. g = [f EXCEPT ![j] = t]
        BY <2>3, <2>5, <3>2
      <4> HIDE DEF g
      <4> QED BY <1>1, <2>1, <2>4, <3>2, <4>1, ChangeIs
    <3> QED BY <3>1, <3>2
  <2> HIDE DEF g
  <2>7. ChangedAt(c, d, j + k - 1) /\ d[j + k - 1] = g[j] /\ j + k - 1 \in k .. Len(c)
    BY <1>2, <2>1, <2>6 DEF g
  <2>8. f[j] = c[j + k - 1]
    BY <1>1, <2>1
  <2> HIDE DEF d
  <2>9. PutAt(c, d, k, j + k - 1)
    BY <2>1, <2>6, <2>7, <2>8 DEF PutAt
  <2> QED BY <2>7, <2>9 DEF d, f, g
<1>4. CASE Table!Having(f, Table!Name) = {}
  <2> DEFINE t == Table!With(f[1], Table!Name, Table!Property(v, {}))
  <2>1. 1 \in 1 .. Len(f) /\ f[1] \in Tables /\ Table!Property(v, {}) \in Properties
        /\ Table!Property(v, {}).attributes = {}
    BY <1>1 DEF Table!Property, Properties
  <2>2. t \in Tables /\ HasIt(t) /\ Of(t).attributes = {}
    BY <2>1, TablesAre
  <2>3. g = [f EXCEPT ![1] = t]
    BY <1>4 DEF Table!putProperty, Table!hasProperty, Table!Left
  <2> HIDE DEF t, g
  <2>4. ChangedAt(f, g, 1) /\ HasIt(g[1]) /\ Of(g[1]).attributes = {}
    <3>1. ChangedAt(f, [f EXCEPT ![1] = t], 1) /\ [f EXCEPT ![1] = t][1] = t
      BY <1>1, <2>1, <2>2, ChangeIs
    <3> QED BY <2>2, <2>3, <3>1
  <2>5. ChangedAt(c, d, k) /\ d[k] = g[1] /\ k \in k .. Len(c)
    BY <1>2, <2>1, <2>4 DEF g
  <2>6. ASSUME NEW i \in k .. Len(c) PROVE ~HasIt(c[i])
    <3>1. i - k + 1 \in 1 .. Len(f) /\ f[i - k + 1] = c[i]
      BY <1>1
    <3>2. i - k + 1 \in DOMAIN f
      BY <1>1, <3>1
    <3> QED BY <1>4, <3>1, <3>2 DEF Table!Having, HasIt
  <2> HIDE DEF d
  <2>7. PutAt(c, d, k, k)
    BY <2>4, <2>5, <2>6 DEF PutAt
  <2> QED BY <2>7 DEF d, f, g
<1> QED BY <1>3, <1>4

\* What the host has put is kept by what a script puts into the chain as the
\* k-th of its objects.
LEMMA PutHolds ==
    ASSUME NEW c \in Seq(Tables), NEW d, NEW k \in 1 .. Len(c), NEW m \in 1 .. Len(c),
           PutAt(c, d, k, m),
           NEW j \in 1 .. Len(c), NEW promise \in [property : Properties, bare : SUBSET Nat],
           PromiseHeld(c, promise, j)
    PROVE  PromiseHeld(d, promise, j)
<1> DEFINE p == promise.property
<1>1. \A i \in 1 .. Len(c) : i # m => d[i] = c[i]
  BY DEF PutAt, ChangedAt
<1>2. Table!dontDelete(p) => StillThere(d[j], p)
  <2>1. CASE j # m
    BY <1>1, <2>1 DEF PromiseHeld
  <2>2. CASE j = m /\ HasIt(c[m])
    BY <2>2 DEF PromiseHeld, PutAt, StillThere
  <2>3. CASE j = m /\ ~HasIt(c[m])
    BY <2>3 DEF PromiseHeld, StillThere
  <2> QED BY <2>1, <2>2, <2>3
<1>3. Table!isReadOnly(p) /\ StillThere(d[j], p) => Of(d[j]).value = p.value
  <2>1. CASE j # m
    BY <1>1, <2>1 DEF PromiseHeld
  <2>2. CASE j = m /\ HasIt(c[m])
    BY <2>2 DEF PromiseHeld, PutAt, StillThere, Table!isReadOnly
  <2>3. CASE j = m /\ ~HasIt(c[m])
    BY <2>3 DEF PutAt, StillThere, Table!isReadOnly
  <2> QED BY <2>1, <2>2, <2>3
<1>4. ASSUME Table!isReadOnly(p), Table!dontDelete(p), NEW i \in 1 .. j - 1, i \in promise.bare
      PROVE  ~HasIt(d[i])
  <2>1. ~HasIt(c[i]) /\ HasIt(c[j])
    BY <1>4 DEF PromiseHeld, StillThere
  <2>2. i # m
    BY <2>1 DEF PutAt
  <2> QED BY <1>1, <2>1, <2>2
<1> QED BY <1>2, <1>3, <1>4 DEF PromiseHeld

\* And by what it deletes.
LEMMA DeleteHolds ==
    ASSUME NEW c \in Seq(Tables), NEW m \in 1 .. Len(c),
           NEW j \in 1 .. Len(c), NEW promise \in [property : Properties, bare : SUBSET Nat],
           PromiseHeld(c, promise, j)
    PROVE  /\ Table!deleteProperty(c[m], Table!Name).state \in Tables
           /\ PromiseHeld([c EXCEPT ![m] = Table!deleteProperty(@, Table!Name).state], promise, j)
<1> DEFINE p == promise.property
           t == Table!deleteProperty(c[m], Table!Name).state
           d == [c EXCEPT ![m] = t]
<1>1. c[m] \in Tables
  OBVIOUS
<1>2. /\ t \in Tables
      /\ t = c[m] \/ ~HasIt(t)
      /\ HasIt(c[m]) /\ Table!dontDelete(Of(c[m])) => t = c[m]
  <2>1. CASE HasIt(c[m]) /\ ~Table!dontDelete(Of(c[m]))
    <3>1. t = Table!Without(c[m], Table!Name)
      BY <2>1 DEF Table!deleteProperty, Table!Left, HasIt, Of
    <3> HIDE DEF t
    <3> QED BY <1>1, <2>1, <3>1, TablesAre
  <2>2. CASE ~(HasIt(c[m]) /\ ~Table!dontDelete(Of(c[m])))
    <3>1. t = c[m]
      BY <2>2 DEF Table!deleteProperty, Table!Left, HasIt, Of
    <3> HIDE DEF t
    <3> QED BY <1>1, <3>1
  <2> QED BY <2>1, <2>2
<1> HIDE DEF t
<1>3. d[m] = t /\ \A i \in 1 .. Len(c) : i # m => d[i] = c[i]
  OBVIOUS
<1>4. [c EXCEPT ![m] = Table!deleteProperty(@, Table!Name).state] = d
  BY DEF t
<1> HIDE DEF d
<1>5. Table!dontDelete(p) => StillThere(d[j], p)
  <2> SUFFICES ASSUME Table!dontDelete(p) PROVE StillThere(d[j], p)
    OBVIOUS
  <2>1. StillThere(c[j], p) /\ Table!dontDelete(Of(c[j]))
    BY DEF PromiseHeld, StillThere, Table!dontDelete
  <2> QED BY <1>2, <1>3, <2>1 DEF StillThere
<1>6. Table!isReadOnly(p) /\ StillThere(d[j], p) => Of(d[j]).value = p.value
  BY <1>2, <1>3 DEF PromiseHeld, StillThere
<1>7. ASSUME Table!isReadOnly(p), Table!dontDelete(p), NEW i \in 1 .. j - 1, i \in promise.bare
      PROVE  ~HasIt(d[i])
  <2>1. ~HasIt(c[i])
    BY <1>7 DEF PromiseHeld
  <2> QED BY <1>2, <1>3, <2>1
<1>8. PromiseHeld(d, promise, j)
  BY <1>5, <1>6, <1>7 DEF PromiseHeld
<1> QED BY <1>2, <1>4, <1>8 DEF t

\* The invariant of an object is one of its two parts.
HostParts(chain, promises) ==
    /\ chain \in Seq(Tables) /\ chain # <<>>
    /\ promises \in Promises(Len(chain))
    /\ \A k \in 1 .. Len(chain) : PromiseHeld(chain, promises[k], k)

LEMMA PartsAre ==
    /\ \A chain, promises : HostParts(chain, promises) =>
          HostInv([chain |-> chain, promises |-> promises])
    /\ \A o : HostInv(o) => HostParts(o.chain, o.promises)
BY DEF HostParts, HostInv

LEMMA ScriptKeeps ==
    ASSUME NEW o, HostInv(o), NEW n \in Table!ScriptChanged(o) PROVE HostInv(n)
<1> DEFINE c == o.chain
           q == o.promises
<1>1. HostParts(c, q) /\ o = [chain |-> c, promises |-> q]
  BY PartsAre DEF HostInv
<1>2. c \in Seq(Tables) /\ q \in Promises(Len(c)) /\ DOMAIN c = 1 .. Len(c)
  BY <1>1 DEF HostParts
<1> HIDE DEF c, q
<1>3. \A j \in 1 .. Len(c) : /\ q[j] \in [property : Properties, bare : SUBSET Nat]
                             /\ PromiseHeld(c, q[j], j)
  BY <1>1 DEF HostParts, Promises
<1>4. ASSUME NEW d \in Seq(Tables), Len(d) = Len(c), \A j \in 1 .. Len(c) : PromiseHeld(d, q[j], j)
      PROVE  HostInv([o EXCEPT !.chain = d])
  <2>1. [o EXCEPT !.chain = d] = [chain |-> d, promises |-> q]
    BY <1>1
  <2>2. c # <<>>
    BY <1>1 DEF HostParts
  <2>3. HostParts(d, q)
    BY <1>2, <1>4, <2>2 DEF HostParts
  <2> QED BY <2>1, <2>3, PartsAre
<1>5. ASSUME NEW k \in DOMAIN c, NEW v \in PropertyValues,
             n = [o EXCEPT !.chain =
                     Table!Replaced(@, k, Table!putProperty(Table!From(@, k), Table!Name, v).state)]
      PROVE  HostInv(n)
  <2> DEFINE d == Table!Replaced(c, k, Table!putProperty(Table!From(c, k), Table!Name, v).state)
  <2>1. PICK m \in 1 .. Len(c) : PutAt(c, d, k, m)
    BY <1>2, ScriptPutIs
  <2>2. n = [o EXCEPT !.chain = d]
    BY <1>5 DEF c
  <2> HIDE DEF d
  <2>3. d \in Seq(Tables) /\ Len(d) = Len(c)
    BY <2>1 DEF PutAt, ChangedAt
  <2>4. \A j \in 1 .. Len(c) : PromiseHeld(d, q[j], j)
    BY <1>2, <1>3, <2>1, PutHolds
  <2> QED BY <1>4, <2>2, <2>3, <2>4
<1>6. ASSUME NEW k \in DOMAIN c, n = [o EXCEPT !.chain[k] = Table!deleteProperty(@, Table!Name).state]
      PROVE  HostInv(n)
  <2> DEFINE t == Table!deleteProperty(c[k], Table!Name).state
             d == [c EXCEPT ![k] = Table!deleteProperty(@, Table!Name).state]
  <2>1. n = [o EXCEPT !.chain = d]
    BY <1>1, <1>6 DEF c
  <2>2. \A j \in 1 .. Len(c) : t \in Tables /\ PromiseHeld(d, q[j], j)
    BY <1>2, <1>3, DeleteHolds
  <2>3. d = [c EXCEPT ![k] = t]
    OBVIOUS
  <2> HIDE DEF t
  <2>4. d \in Seq(Tables) /\ Len(d) = Len(c)
    BY <1>2, <2>2, <2>3
  <2> QED BY <1>4, <2>1, <2>2, <2>4
<1> QED BY <1>5, <1>6 DEF Table!ScriptChanged, c

\* What the host puts is a new promise, and breaks no other: an object below,
\* which may have had the old property from here, is promised nothing more.
LEMMA HostPutKeeps ==
    ASSUME NEW o, HostInv(o), NEW k \in 1 .. Len(o.chain), NEW t \in Tables, HasIt(t)
    PROVE  HostInv(Table!HostPut(o, k, t))
<1> DEFINE c == o.chain
           q == o.promises
           d == [c EXCEPT ![k] = t]
           r == Table!Promised(o, k, t[Table!Name])
<1>1. c \in Seq(Tables) /\ c # <<>> /\ q \in Promises(Len(c)) /\ DOMAIN c = 1 .. Len(c)
  BY DEF HostInv
<1>2. \A j \in 1 .. Len(c) : /\ q[j] \in [property : Properties, bare : SUBSET Nat]
                             /\ PromiseHeld(c, q[j], j)
  BY DEF HostInv, Promises
<1>3. r = [j \in 1 .. Len(c) |->
              IF j # k THEN [q[j] EXCEPT !.bare = @ \ {k}]
              ELSE [property |-> t[Table!Name], bare |-> {i \in 1 .. k - 1 : ~HasIt(c[i])}]]
  BY <1>1 DEF Table!Promised, HasIt
<1>4. t[Table!Name] \in Properties /\ Of(t) = t[Table!Name]
  BY TablesAre DEF Of
<1> HIDE DEF c, q
<1>5. d \in Seq(Tables) /\ Len(d) = Len(c) /\ d[k] = t /\ d # <<>>
      /\ \A i \in 1 .. Len(c) : i # k => d[i] = c[i]
  BY <1>1 DEF c
<1> HIDE DEF d, r
<1>6. ASSUME NEW j \in 1 .. Len(c)
      PROVE  r[j] \in [property : Properties, bare : SUBSET Nat] /\ PromiseHeld(d, r[j], j)
  <2>1. CASE j # k
    <3>1. r[j] = [q[j] EXCEPT !.bare = @ \ {k}]
      BY <1>3, <2>1
    <3>2. /\ r[j] \in [property : Properties, bare : SUBSET Nat]
          /\ r[j].property = q[j].property /\ r[j].bare = q[j].bare \ {k}
      BY <1>2, <3>1
    <3>3. PromiseHeld(c, q[j], j) /\ d[j] = c[j]
      BY <1>2, <1>5, <2>1
    <3>4. \A i \in 1 .. j - 1 : i \in r[j].bare => i \in q[j].bare /\ d[i] = c[i]
      BY <1>5, <3>2
    <3> QED BY <3>2, <3>3, <3>4 DEF PromiseHeld
  <2>2. CASE j = k
    <3>1. r[j] = [property |-> t[Table!Name], bare |-> {i \in 1 .. k - 1 : ~HasIt(c[i])}]
      BY <1>3, <2>2
    <3>2. r[j].property = Of(t) /\ r[j].bare = {i \in 1 .. k - 1 : ~HasIt(c[i])}
      BY <1>4, <3>1
    <3>3. r[j] \in [property : Properties, bare : SUBSET Nat]
      BY <1>4, <3>1, k \in 1 .. Len(c) DEF c
    <3>4. StillThere(d[j], r[j].property) /\ Of(d[j]).value = r[j].property.value
      BY <1>5, <2>2, <3>2 DEF StillThere
    <3>5. \A i \in 1 .. j - 1 : i \in r[j].bare => ~HasIt(d[i])
      BY <1>5, <2>2, <3>2
    <3> QED BY <3>3, <3>4, <3>5 DEF PromiseHeld
  <2> QED BY <2>1, <2>2
<1>7. r \in Promises(Len(d))
  <2>1. DOMAIN r = 1 .. Len(c) /\ r = [j \in DOMAIN r |-> r[j]]
    BY <1>3
  <2> QED BY <1>5, <1>6, <2>1 DEF Promises
<1>8. HostParts(d, r)
  BY <1>5, <1>6, <1>7 DEF HostParts
<1>9. Table!HostPut(o, k, t) = [chain |-> d, promises |-> r]
  BY DEF Table!HostPut, d, r, c
<1> QED BY <1>8, <1>9, PartsAre

LEMMA HostDeleteKeeps ==
    ASSUME NEW o, HostInv(o), NEW k \in 1 .. Len(o.chain)
    PROVE  HostInv([chain |-> [o.chain EXCEPT ![k] = Table!deletePropertyNoCheck(@, Table!Name).state],
                    promises |-> [o.promises EXCEPT ![k] = Table!NoPromise]])
<1> DEFINE c == o.chain
           q == o.promises
           t == Table!deletePropertyNoCheck(c[k], Table!Name).state
           d == [c EXCEPT ![k] = t]
           r == [q EXCEPT ![k] = Table!NoPromise]
<1>1. c \in Seq(Tables) /\ c # <<>> /\ q \in Promises(Len(c)) /\ DOMAIN c = 1 .. Len(c)
  BY DEF HostInv
<1>2. \A j \in 1 .. Len(c) : /\ q[j] \in [property : Properties, bare : SUBSET Nat]
                             /\ PromiseHeld(c, q[j], j)
  BY DEF HostInv, Promises
<1>3. /\ Table!NoPromise \in [property : Properties, bare : SUBSET Nat]
      /\ ~Table!dontDelete(Table!NoPromise.property) /\ ~Table!isReadOnly(Table!NoPromise.property)
  BY DEF Table!NoPromise, Table!Property, Properties, Table!dontDelete, Table!isReadOnly
<1>4. t \in Tables /\ ~HasIt(t)
  <2>1. c[k] \in Tables /\ t = Table!Without(c[k], Table!Name)
    BY <1>1 DEF Table!deletePropertyNoCheck, Table!Left
  <2> HIDE DEF t
  <2> QED BY <2>1, TablesAre
<1> HIDE DEF c, q, t
<1>5. d \in Seq(Tables) /\ Len(d) = Len(c) /\ d[k] = t /\ d # <<>>
      /\ \A i \in 1 .. Len(c) : i # k => d[i] = c[i]
  BY <1>1, <1>4 DEF c
<1>6. /\ r \in Promises(Len(c))
      /\ \A j \in 1 .. Len(c) : r[j] = IF j = k THEN Table!NoPromise ELSE q[j]
  BY <1>1, <1>3 DEF Promises
<1> HIDE DEF d, r
<1>7. ASSUME NEW j \in 1 .. Len(c) PROVE PromiseHeld(d, r[j], j)
  <2>1. CASE j = k
    BY <1>3, <1>6, <2>1 DEF PromiseHeld
  <2>2. CASE j # k
    <3>1. r[j] = q[j] /\ d[j] = c[j] /\ PromiseHeld(c, q[j], j)
      BY <1>2, <1>5, <1>6, <2>2
    <3>2. \A i \in 1 .. j - 1 : ~HasIt(c[i]) => ~HasIt(d[i])
      BY <1>4, <1>5
    <3> QED BY <3>1, <3>2 DEF PromiseHeld
  <2> QED BY <2>1, <2>2
<1>8. HostParts(d, r)
  BY <1>5, <1>6, <1>7 DEF HostParts
<1>9. [o.chain EXCEPT ![k] = Table!deletePropertyNoCheck(@, Table!Name).state] = d
  BY DEF d, t, c
<1> QED BY <1>8, <1>9, PartsAre DEF r, q

LEMMA HostKeeps ==
    ASSUME NEW o, HostInv(o), NEW n \in Table!HostChanged(o) PROVE HostInv(n)
<1>1. DOMAIN o.chain = 1 .. Len(o.chain) /\ \A k \in 1 .. Len(o.chain) : o.chain[k] \in Tables
  BY DEF HostInv
<1>2. ASSUME NEW k \in DOMAIN o.chain, NEW v \in PropertyValues,
             NEW a \in SUBSET {"ReadOnly", "DontDelete"},
             n = Table!HostPut(o, k, Table!putPropertyAttributes(o.chain[k], Table!Name, v, a))
      PROVE  HostInv(n)
  <2>1. Table!Property(v, a) \in Properties
    BY DEF Table!Property, Properties
  <2>2. /\ Table!With(o.chain[k], Table!Name, Table!Property(v, a)) \in Tables
        /\ HasIt(Table!With(o.chain[k], Table!Name, Table!Property(v, a)))
    BY <1>1, <2>1, TablesAre
  <2> QED BY <1>1, <1>2, <2>2, HostPutKeeps DEF Table!putPropertyAttributes
<1>3. ASSUME NEW k \in DOMAIN o.chain, NEW v \in PropertyValues,
             n = Table!HostPut(o, k, Table!putPropertyNoCheck(o.chain[k], Table!Name, v))
      PROVE  HostInv(n)
  <2>1. Table!Property(v, {}) \in Properties
    BY DEF Table!Property, Properties
  <2>2. /\ Table!With(o.chain[k], Table!Name, Table!Property(v, {})) \in Tables
        /\ HasIt(Table!With(o.chain[k], Table!Name, Table!Property(v, {})))
    BY <1>1, <2>1, TablesAre
  <2> QED BY <1>1, <1>3, <2>2, HostPutKeeps DEF Table!putPropertyNoCheck
<1>4. ASSUME NEW k \in DOMAIN o.chain,
             n = [chain |-> [o.chain EXCEPT ![k] = Table!deletePropertyNoCheck(@, Table!Name).state],
                  promises |-> [o.promises EXCEPT ![k] = Table!NoPromise]]
      PROVE  HostInv(n)
  BY <1>1, <1>4, HostDeleteKeeps
<1> QED BY <1>2, <1>3, <1>4 DEF Table!HostChanged

LEMMA NothingPromised ==
    ASSUME NEW n \in 1 .. MaxChain
    PROVE  HostInv(Table!Promising([k \in 1 .. n |-> Table!NoProperties]))
<1> DEFINE c == [k \in 1 .. n |-> Table!NoProperties]
           r == [k \in DOMAIN c |-> Table!NoPromise]
<1>1. n \in Nat /\ n > 0
  OBVIOUS
<1>2. c \in Seq(Tables) /\ Len(c) = n /\ DOMAIN c = 1 .. n /\ c # <<>>
  BY <1>1, TablesAre
<1>3. /\ Table!NoPromise \in [property : Properties, bare : SUBSET Nat]
      /\ ~Table!dontDelete(Table!NoPromise.property) /\ ~Table!isReadOnly(Table!NoPromise.property)
  BY DEF Table!NoPromise, Table!Property, Properties, Table!dontDelete, Table!isReadOnly
<1> HIDE DEF c
<1>4. r \in Promises(Len(c)) /\ \A k \in 1 .. Len(c) : r[k] = Table!NoPromise
  BY <1>2, <1>3 DEF Promises
<1>5. \A k \in 1 .. Len(c) : PromiseHeld(c, r[k], k)
  BY <1>3, <1>4 DEF PromiseHeld
<1>6. HostParts(c, r)
  BY <1>2, <1>4, <1>5 DEF HostParts
<1>7. Table!Promising(c) = [chain |-> c, promises |-> r]
  BY DEF Table!Promising
<1> QED BY <1>6, <1>7, PartsAre DEF c

\* The invariant says what the host was promised: an object under which
\* nothing hides the property finds it first.
LEMMA InvKeepsPromise ==
    ASSUME NEW o, HostInv(o), NEW k \in DOMAIN o.chain PROVE Table!PromiseKept(o, k)
<1> DEFINE c == o.chain
           p == o.promises[k].property
<1>1. c \in Seq(Tables) /\ k \in 1 .. Len(c) /\ PromiseHeld(c, o.promises[k], k)
  BY DEF HostInv
<1> HIDE DEF c
<1>2. ASSUME Table!isReadOnly(p), Table!dontDelete(p), NEW j \in 1 .. k,
             j .. k - 1 \subseteq o.promises[k].bare
      PROVE  Table!getProperty(Table!From(c, j), Table!Name) = p.value
  <2> DEFINE f == Table!From(c, j)
             near == Table!Nearest(f, Table!Name)
  <2>1. /\ f \in Seq(Tables) /\ Len(f) = Len(c) - j + 1
        /\ \A i \in 1 .. Len(c) - j + 1 : f[i] = c[i + j - 1]
        /\ f[k - j + 1] = c[k]
    BY <1>1, FromIs
  <2> HIDE DEF f
  <2>2. HasIt(c[k]) /\ Of(c[k]).value = p.value
    BY <1>1, <1>2 DEF PromiseHeld, StillThere
  <2>3. ASSUME NEW i \in 1 .. k - j PROVE ~HasIt(f[i])
    <3>1. i + j - 1 \in j .. k - 1 /\ i + j - 1 \in 1 .. k - 1 /\ i \in 1 .. Len(c) - j + 1
      BY <1>1
    <3>2. ~HasIt(c[i + j - 1])
      BY <1>1, <1>2, <3>1 DEF PromiseHeld
    <3> QED BY <2>1, <3>1, <3>2
  <2>4. k - j + 1 \in 1 .. Len(f) /\ HasIt(f[k - j + 1])
    BY <1>1, <2>1, <2>2
  <2>5. Table!Having(f, Table!Name) # {}
    BY <2>1, <2>4 DEF Table!Having, HasIt
  <2>6. near \in 1 .. Len(f) /\ HasIt(f[near]) /\ near <= k - j + 1
    BY <2>1, <2>4, <2>5, NearestIs
  <2> HIDE DEF near
  <2>7. near = k - j + 1
    BY <1>1, <2>3, <2>6
  <2>8. Table!getProperty(f, Table!Name) = f[near][Table!Name].value
    BY <2>5 DEF Table!getProperty, Table!hasProperty, near
  <2> QED BY <2>1, <2>2, <2>7, <2>8 DEF f, Of
<1>3. StillThere(c[k], p) <=> Table!Name \in DOMAIN c[k] /\ c[k][Table!Name].attributes = p.attributes
  BY DEF StillThere, HasIt, Of
<1>4. Table!dontDelete(p) => StillThere(c[k], p)
  BY <1>1 DEF PromiseHeld
<1>5. Table!isReadOnly(p) /\ StillThere(c[k], p) => c[k][Table!Name].value = p.value
  BY <1>1 DEF PromiseHeld, Of
<1> QED BY <1>2, <1>3, <1>4, <1>5 DEF Table!PromiseKept, c

(* What a script puts and deletes, by an object or any of its prototypes,  *)
(* leaves what the host has put as the attributes say (putProperty,        *)
(* updateProperty and deleteProperty of JsScriptObject.cpp): for any       *)
(* values, any number of prototypes and any sequence of puts and deletes.  *)
THEOREM HostIsObeyed == ObjectSpec => []HostPropertiesHold
<1> DEFINE Inv == subject.kind = "object" => HostInv(result)
<1>1. ObjectInit => Inv
  <2> SUFFICES ASSUME ObjectInit PROVE HostInv(result)
    OBVIOUS
  <2>1. PICK n \in 1 .. MaxChain : result = Table!Promising([k \in 1 .. n |-> Table!NoProperties])
    BY DEF ObjectInit
  <2> QED BY <2>1, NothingPromised
<1>2. Inv /\ [ObjectNext]_<<subject, result>> => Inv'
  <2> SUFFICES ASSUME Inv, [ObjectNext]_<<subject, result>>, subject'.kind = "object"
               PROVE  HostInv(result')
    OBVIOUS
  <2>1. CASE UseByScript
    BY <2>1, ScriptKeeps DEF UseByScript
  <2>2. CASE UseByHost
    BY <2>2, HostKeeps DEF UseByHost
  <2>3. CASE UNCHANGED <<subject, result>>
    BY <2>3
  <2> QED BY <2>1, <2>2, <2>3 DEF ObjectNext
<1>3. Inv => HostPropertiesHold
  BY InvKeepsPromise DEF HostPropertiesHold
<1> QED BY <1>1, <1>2, <1>3, PTL DEF ObjectSpec

-------------------------------------------------------------------------------
(*                               Arrays                                    *)

Elements == PropertyValues \cup {Table!Undefined}
IndexNames == {Table!IndexName(i) : i \in Nat}
AllNames == {PropertyNames[i] : i \in DOMAIN PropertyNames} \cup DOMAIN NameNumbers \cup IndexNames

\* The tables of an array, in which no property has an attribute.
Plain == [value : Elements, attributes : {{}}]
PlainTables == UNION {[names -> Plain] : names \in SUBSET AllNames}
Reads(table, name) == IF name \in DOMAIN table THEN table[name].value ELSE Table!Undefined

LEMMA PlainIs ==
    /\ Table!NoProperties \in PlainTables /\ DOMAIN Table!NoProperties = {}
    /\ \A table \in PlainTables :
          /\ DOMAIN table \subseteq AllNames /\ table = [n \in DOMAIN table |-> table[n]]
          /\ \A n \in DOMAIN table : table[n] \in Plain
    /\ \A table : /\ DOMAIN table \subseteq AllNames /\ table = [n \in DOMAIN table |-> table[n]]
                  /\ \A n \in DOMAIN table : table[n] \in Plain
                  => table \in PlainTables
<1>1. Table!NoProperties \in [{} -> Plain] /\ DOMAIN Table!NoProperties = {}
  BY DEF Table!NoProperties
<1>2. Table!NoProperties \in PlainTables
  BY <1>1 DEF PlainTables
<1>3. ASSUME NEW table \in PlainTables
      PROVE  /\ DOMAIN table \subseteq AllNames /\ table = [n \in DOMAIN table |-> table[n]]
             /\ \A n \in DOMAIN table : table[n] \in Plain
  <2>1. PICK names \in SUBSET AllNames : table \in [names -> Plain]
    BY DEF PlainTables
  <2> QED BY <2>1
<1>4. ASSUME NEW table, DOMAIN table \subseteq AllNames, table = [n \in DOMAIN table |-> table[n]],
             \A n \in DOMAIN table : table[n] \in Plain
      PROVE  table \in PlainTables
  <2>1. table \in [DOMAIN table -> Plain]
    BY <1>4
  <2> QED BY <1>4, <2>1 DEF PlainTables
<1> QED BY <1>1, <1>2, <1>3, <1>4

\* A table with one property more, or another value of it.
PutInto(table, t, name, v) ==
    /\ t \in PlainTables /\ DOMAIN t = DOMAIN table \cup {name}
    /\ \A n : Reads(t, n) = IF n = name THEN v ELSE Reads(table, n)

LEMMA PlainWith ==
    ASSUME NEW table \in PlainTables, NEW name \in AllNames, NEW v \in PropertyValues, NEW t,
           t = Table!With(table, name, Table!Property(v, {}))
    PROVE  PutInto(table, t, name, v)
<1> DEFINE p == Table!Property(v, {})
<1>1. p \in Plain /\ p.value = v
  BY DEF Table!Property, Plain, Elements
<1> HIDE DEF p
<1>2. t = [n \in DOMAIN table \cup {name} |-> IF n = name THEN p ELSE table[n]]
  BY DEF Table!With, p
<1>3. DOMAIN t = DOMAIN table \cup {name}
  BY <1>2
<1>4. \A n \in DOMAIN t : t[n] = IF n = name THEN p ELSE table[n]
  BY <1>2, <1>3
<1>5. t = [n \in DOMAIN t |-> t[n]]
  BY <1>2
<1>6. t \in PlainTables
  <2>1. \A n \in DOMAIN t : t[n] \in Plain
    BY <1>1, <1>3, <1>4, PlainIs
  <2>2. DOMAIN t \subseteq AllNames
    BY <1>3, PlainIs
  <2> QED BY <1>5, <2>1, <2>2, PlainIs
<1> QED BY <1>1, <1>3, <1>4, <1>6 DEF Reads, PutInto

\* A table without some of its properties.
TakenFrom(table, t, names) ==
    /\ t \in PlainTables /\ DOMAIN t = DOMAIN table \ names
    /\ \A n : Reads(t, n) = IF n \in names THEN Table!Undefined ELSE Reads(table, n)

LEMMA PlainWithout ==
    ASSUME NEW table \in PlainTables, NEW names, NEW t,
           t = [n \in DOMAIN table \ names |-> table[n]]
    PROVE  TakenFrom(table, t, names)
<1>1. DOMAIN t = DOMAIN table \ names /\ \A n \in DOMAIN t : t[n] = table[n]
  OBVIOUS
<1>2. t \in PlainTables
  <2>1. /\ DOMAIN t \subseteq AllNames
        /\ \A n \in DOMAIN t : t[n] \in Plain
    BY <1>1, PlainIs
  <2>2. t = [n \in DOMAIN t |-> t[n]]
    OBVIOUS
  <2> QED BY <2>1, <2>2, PlainIs
<1> QED BY <1>1, <1>2 DEF Reads, TakenFrom

\* What the operations on properties do to such a table.
\* A property without attributes, of a table, is put, deleted and read.
OwnProperty(table, name) ==
    /\ table = [n \in DOMAIN table |-> table[n]]
    /\ name \in DOMAIN table => table[name] = Table!Property(table[name].value, {})

LEMMA OwnOps ==
    ASSUME NEW table, NEW name, OwnProperty(table, name)
    PROVE  /\ Table!getProperty(<<table>>, name) = Reads(table, name)
           /\ Table!deleteProperty(table, name).state = Table!Without(table, name)
           /\ name \in DOMAIN table => Table!deleteProperty(table, name).answer = TRUE
           /\ name \notin DOMAIN table => Table!deleteProperty(table, name).answer = FALSE
           /\ \A v : /\ Table!putProperty(<<table>>, name, v).state[1]
                          = Table!With(table, name, Table!Property(v, {}))
                     /\ Table!putProperty(<<table>>, name, v).answer = TRUE
<1> DEFINE chain == <<table>>
           having == Table!Having(chain, name)
<1>1. having = IF name \in DOMAIN table THEN {1} ELSE {}
  BY DEF Table!Having
<1>2. name \in DOMAIN table => Table!Nearest(chain, name) = 1
  <2> SUFFICES ASSUME name \in DOMAIN table PROVE Table!Nearest(chain, name) = 1
    OBVIOUS
  <2>1. having = {1}
    BY <1>1
  <2> HIDE DEF having
  <2>2. (CHOOSE i \in having : \A j \in having : i <= j) = 1
    BY <2>1
  <2> QED BY <2>2 DEF Table!Nearest, having
<1>3. Table!hasProperty(chain, name) <=> name \in DOMAIN table
  BY <1>1 DEF Table!hasProperty
<1>4. Table!getProperty(chain, name) = Reads(table, name)
  BY <1>2, <1>3 DEF Table!getProperty, Reads
<1>5. table = [n \in DOMAIN table |-> table[n]]
  BY DEF OwnProperty
<1>6. name \in DOMAIN table => /\ table[name] = Table!Property(table[name].value, {})
                               /\ table[name].attributes = {}
  BY DEF OwnProperty, Table!Property
<1>7. /\ Table!deleteProperty(table, name).state = Table!Without(table, name)
      /\ name \in DOMAIN table => Table!deleteProperty(table, name).answer = TRUE
      /\ name \notin DOMAIN table => Table!deleteProperty(table, name).answer = FALSE
  <2>1. CASE name \in DOMAIN table
    <3>1. ~Table!dontDelete(table[name])
      BY <1>6, <2>1 DEF Table!dontDelete
    <3>2. Table!deleteProperty(table, name) = Table!Left(Table!Without(table, name), TRUE)
      BY <2>1, <3>1 DEF Table!deleteProperty
    <3> QED BY <2>1, <3>2 DEF Table!Left
  <2>2. CASE name \notin DOMAIN table
    <3>1. DOMAIN table \ {name} = DOMAIN table
      BY <2>2
    <3>2. Table!deleteProperty(table, name) = Table!Left(table, FALSE)
      BY <2>2 DEF Table!deleteProperty
    <3>3. Table!Without(table, name) = table
      BY <1>5, <3>1 DEF Table!Without
    <3> QED BY <2>2, <3>2, <3>3 DEF Table!Left
  <2> QED BY <2>1, <2>2
<1>8. ASSUME NEW v
      PROVE  /\ Table!putProperty(chain, name, v).state[1]
                  = Table!With(table, name, Table!Property(v, {}))
             /\ Table!putProperty(chain, name, v).answer = TRUE
  <2> DEFINE w == Table!With(table, name, Table!Property(v, {}))
  <2>1. CASE name \in DOMAIN table
    <3>1. ~Table!isReadOnly(table[name])
      BY <1>6, <2>1 DEF Table!isReadOnly
    <3>2. /\ Table!putProperty(chain, name, v).state = [chain EXCEPT ![1][name].value = v]
          /\ Table!putProperty(chain, name, v).answer = TRUE
      <4>1. ~Table!isReadOnly(chain[Table!Nearest(chain, name)][name])
        BY <1>2, <2>1, <3>1
      <4>2. Table!Nearest(chain, name) = 1
        BY <1>2, <2>1
      <4> HIDE DEF chain
      <4>3. /\ Table!updateProperty(chain, name, v).state
                 = [chain EXCEPT ![Table!Nearest(chain, name)][name].value = v]
            /\ Table!updateProperty(chain, name, v).answer = TRUE
        BY <4>1 DEF Table!updateProperty, Table!Left
      <4>4. Table!putProperty(chain, name, v) = Table!updateProperty(chain, name, v)
        BY <1>3, <2>1 DEF Table!putProperty
      <4> QED BY <4>2, <4>3, <4>4
    <3>3. [chain EXCEPT ![1][name].value = v][1] = [table EXCEPT ![name].value = v]
      OBVIOUS
    <3>4. [table[name] EXCEPT !.value = v] = Table!Property(v, {})
      BY <1>6, <2>1 DEF Table!Property
    <3>5. [table EXCEPT ![name].value = v] = w
      <4>1. DOMAIN table \cup {name} = DOMAIN table
        BY <2>1
      <4>2. [table EXCEPT ![name].value = v]
              = [n \in DOMAIN table |-> IF n = name THEN [table[name] EXCEPT !.value = v] ELSE table[n]]
        BY <1>5, <2>1
      <4> QED BY <3>4, <4>1, <4>2 DEF Table!With
    <3> QED BY <3>2, <3>3, <3>5
  <2>2. CASE name \notin DOMAIN table
    <3>1. Table!putProperty(chain, name, v)
            = Table!Left([chain EXCEPT ![1] = Table!With(@, name, Table!Property(v, {}))], TRUE)
      BY <1>3, <2>2 DEF Table!putProperty
    <3>2. [chain EXCEPT ![1] = Table!With(@, name, Table!Property(v, {}))][1] = w
      OBVIOUS
    <3> HIDE DEF w, chain
    <3> QED BY <3>1, <3>2 DEF Table!Left, w
  <2> QED BY <2>1, <2>2
<1> QED BY <1>4, <1>7, <1>8

LEMMA PlainOps ==
    ASSUME NEW table \in PlainTables, NEW name \in AllNames
    PROVE  /\ Table!getProperty(<<table>>, name) = Reads(table, name)
           /\ Table!deleteProperty(table, name).state = [n \in DOMAIN table \ {name} |-> table[n]]
           /\ \A v \in PropertyValues :
                 Table!putProperty(<<table>>, name, v).state[1]
                    = Table!With(table, name, Table!Property(v, {}))
<1>1. /\ table = [n \in DOMAIN table |-> table[n]]
      /\ \A n \in DOMAIN table : table[n] \in Plain
  BY PlainIs
<1>2. \A p \in Plain : p = Table!Property(p.value, {})
  BY DEF Plain, Table!Property
<1>3. OwnProperty(table, name)
  BY <1>1, <1>2 DEF OwnProperty
<1>4. Table!Without(table, name) = [n \in DOMAIN table \ {name} |-> table[n]]
  BY DEF Table!Without
<1> QED BY <1>3, <1>4, OwnOps

LEMMA IndexIs ==
    /\ \A i \in 0 .. MaxLength - 1 :
          Table!IndexName(i) \in AllNames /\ Table!IsIndex(Table!IndexName(i))
    /\ \A i, j \in 0 .. MaxLength - 1 : Table!IndexName(i) = Table!IndexName(j) => i = j
    /\ \A name : Table!IsIndex(name) =>
          /\ name \in AllNames /\ NameNumbers[name] \in 0 .. MaxLength - 1
          /\ name = Table!IndexName(NameNumbers[name])
<1>1. ASSUME NEW i \in 0 .. MaxLength - 1
      PROVE  Table!IndexName(i) \in DOMAIN NameNumbers /\ NameNumbers[Table!IndexName(i)] = i
  BY ArrayAssumption
<1>2. \A i \in 0 .. MaxLength - 1 :
          Table!IndexName(i) \in AllNames /\ Table!IsIndex(Table!IndexName(i))
  BY <1>1, ArrayAssumption DEF AllNames, Table!IsIndex
<1>3. \A i, j \in 0 .. MaxLength - 1 : Table!IndexName(i) = Table!IndexName(j) => i = j
  <2> SUFFICES ASSUME NEW i \in 0 .. MaxLength - 1, NEW j \in 0 .. MaxLength - 1,
                      Table!IndexName(i) = Table!IndexName(j)
               PROVE  i = j
    OBVIOUS
  <2>1. NameNumbers[Table!IndexName(i)] = i /\ NameNumbers[Table!IndexName(j)] = j
    BY <1>1
  <2> QED BY <2>1
<1>4. ASSUME NEW name, Table!IsIndex(name)
      PROVE  /\ name \in AllNames /\ NameNumbers[name] \in 0 .. MaxLength - 1
             /\ name = Table!IndexName(NameNumbers[name])
  <2>1. name \in DOMAIN NameNumbers /\ NameNumbers[name] >= 0
    BY <1>4 DEF Table!IsIndex
  <2>2. NameNumbers[name] \in Int /\ NameNumbers[name] < MaxLength
        /\ name = Table!IndexName(NameNumbers[name])
    BY <2>1, ArrayAssumption
  <2> QED BY <2>1, <2>2, ArrayAssumption DEF AllNames
<1> QED BY <1>2, <1>3, <1>4

-------------------------------------------------------------------------------
\* A table has the elements of a sequence, and the properties of another
\* table that are no elements.
AreElements(table, e) ==
    \A i \in 0 .. MaxLength - 1 :
        IF i < Len(e) THEN Reads(table, Table!IndexName(i)) = e[i + 1]
        ELSE Table!IndexName(i) \notin DOMAIN table
AreOthers(table, others) ==
    \A name \in AllNames : Table!IsIndex(name) \/ Reads(table, name) = Reads(others, name)

SlotsFit(table, e, others) ==
    /\ table \in PlainTables /\ others \in PlainTables
    /\ e \in Seq(Elements) /\ Len(e) <= MaxLength
    /\ AreElements(table, e) /\ AreOthers(table, others)

ReplacesIn(s, d, n, x) ==
    /\ d \in Seq(Elements) /\ Len(d) = Len(s)
    /\ \A i \in 1 .. Len(s) : d[i] = IF i = n THEN x ELSE s[i]

LEMMA ReplacedIn ==
    ASSUME NEW s \in Seq(Elements), NEW n \in 1 .. Len(s), NEW x \in Elements, NEW d,
           d = [s EXCEPT ![n] = x]
    PROVE  ReplacesIn(s, d, n, x)
BY DEF ReplacesIn

LEMMA LargerIs ==
    ASSUME NEW e \in Seq(Elements), NEW n \in Nat
    PROVE  /\ Table!LargerBy(e, n) \in Seq(Elements)
           /\ Len(Table!LargerBy(e, n)) = Table!AtLeast(n, Len(e))
           /\ \A i \in 1 .. Table!AtLeast(n, Len(e)) :
                 Table!LargerBy(e, n)[i] = IF i <= Len(e) THEN e[i] ELSE Table!Undefined
<1> DEFINE d == Table!Nothing(n - Len(e))
<1>1. CASE n <= Len(e)
  <2> DEFINE z == [i \in 1 .. 0 |-> Table!Undefined]
  <2>1. z \in Seq(Elements) /\ Len(z) = 0
    BY DEF Elements
  <2>2. d = z
    <3>1. 1 .. n - Len(e) = 1 .. 0
      BY <1>1
    <3> QED BY <3>1 DEF Table!Nothing
  <2> HIDE DEF d, z
  <2>3. Table!LargerBy(e, n) = e \o d
    BY DEF Table!LargerBy, d
  <2>4. Table!AtLeast(n, Len(e)) = Len(e)
    BY <1>1 DEF Table!AtLeast
  <2> QED BY <2>1, <2>2, <2>3, <2>4
<1>2. CASE n > Len(e)
  <2>1. d = [i \in 1 .. n - Len(e) |-> Table!Undefined] /\ n - Len(e) \in Nat
    BY <1>2 DEF Table!Nothing
  <2>2. d \in Seq(Elements) /\ Len(d) = n - Len(e)
        /\ \A i \in 1 .. n - Len(e) : d[i] = Table!Undefined
    <3> DEFINE m == n - Len(e)
    <3>1. m \in Nat /\ d = [i \in 1 .. m |-> Table!Undefined]
      BY <2>1
    <3>2. Table!Undefined \in Elements
      BY DEF Elements
    <3> HIDE DEF m, d
    <3>3. d \in Seq(Elements) /\ Len(d) = m /\ \A i \in 1 .. m : d[i] = Table!Undefined
      BY <3>1, <3>2
    <3> QED BY <3>3 DEF m
  <2> HIDE DEF d
  <2>3. Table!LargerBy(e, n) = e \o d
    BY DEF Table!LargerBy, d
  <2>4. Table!AtLeast(n, Len(e)) = n
    BY <1>2 DEF Table!AtLeast
  <2> QED BY <1>2, <2>2, <2>3, <2>4
<1> QED BY <1>1, <1>2

IsPutAt(e, d, k, v) ==
    /\ d \in Seq(Elements) /\ Len(d) = Table!AtLeast(k + 1, Len(e))
    /\ \A i \in 1 .. Len(d) : d[i] = IF i = k + 1 THEN v
                                   ELSE IF i <= Len(e) THEN e[i] ELSE Table!Undefined

\* An element is put, beyond the end perhaps.
LEMMA IndexPut ==
    ASSUME NEW table, NEW e, NEW others, SlotsFit(table, e, others),
           NEW k \in 0 .. MaxLength - 1, NEW v \in PropertyValues, NEW t, NEW d,
           t = Table!With(table, Table!IndexName(k), Table!Property(v, {})),
           d = [Table!LargerBy(e, k + 1) EXCEPT ![k + 1] = v]
    PROVE  SlotsFit(t, d, others) /\ IsPutAt(e, d, k, v)
<1> DEFINE l == Table!LargerBy(e, k + 1)
<1>1. k \in Nat /\ e \in Seq(Elements) /\ Len(e) <= MaxLength /\ MaxLength \in Nat
      /\ table \in PlainTables /\ others \in PlainTables
  BY ArrayAssumption DEF SlotsFit
<1>2. /\ l \in Seq(Elements) /\ Len(l) = Table!AtLeast(k + 1, Len(e))
      /\ \A i \in 1 .. Len(l) : l[i] = IF i <= Len(e) THEN e[i] ELSE Table!Undefined
  <2> DEFINE n == k + 1
  <2>1. n \in Nat
    BY <1>1
  <2> HIDE DEF n
  <2>2. l = Table!LargerBy(e, n)
    BY DEF n
  <2> HIDE DEF l
  <2>3. /\ l \in Seq(Elements) /\ Len(l) = Table!AtLeast(n, Len(e))
        /\ \A i \in 1 .. Len(l) : l[i] = IF i <= Len(e) THEN e[i] ELSE Table!Undefined
    BY <1>1, <2>1, <2>2, LargerIs
  <2> QED BY <2>3 DEF n
<1> HIDE DEF l
<1>3. k + 1 \in 1 .. Len(l) /\ Len(l) <= MaxLength /\ Len(e) <= Len(l)
  BY <1>1, <1>2 DEF Table!AtLeast
<1>4. /\ d \in Seq(Elements) /\ Len(d) = Len(l)
      /\ \A i \in 1 .. Len(l) : d[i] = IF i = k + 1 THEN v ELSE l[i]
  <2> DEFINE n == k + 1
  <2>1. d = [l EXCEPT ![n] = v] /\ v \in Elements /\ n \in 1 .. Len(l)
    BY <1>3 DEF l, Elements
  <2> HIDE DEF n
  <2>2. ReplacesIn(l, d, n, v)
    BY <1>2, <2>1, ReplacedIn
  <2> QED BY <2>2 DEF n, ReplacesIn
<1>5. /\ t \in PlainTables /\ DOMAIN t = DOMAIN table \cup {Table!IndexName(k)}
      /\ \A n : Reads(t, n) = IF n = Table!IndexName(k) THEN v ELSE Reads(table, n)
  <2>1. Table!IndexName(k) \in AllNames
    BY IndexIs
  <2> DEFINE name == Table!IndexName(k)
  <2>2. t = Table!With(table, name, Table!Property(v, {})) /\ name \in AllNames
    BY <2>1
  <2> HIDE DEF name
  <2>3. PutInto(table, t, name, v)
    BY <1>1, <2>2, PlainWith
  <2> QED BY <2>3 DEF name, PutInto
<1>6. ASSUME NEW i \in 0 .. MaxLength - 1
      PROVE  IF i < Len(d) THEN Reads(t, Table!IndexName(i)) = d[i + 1]
             ELSE Table!IndexName(i) \notin DOMAIN t
  <2>1. Table!IndexName(i) = Table!IndexName(k) <=> i = k
    BY IndexIs
  <2>2. IF i < Len(e) THEN Reads(table, Table!IndexName(i)) = e[i + 1]
        ELSE Table!IndexName(i) \notin DOMAIN table
    BY DEF SlotsFit, AreElements
  <2>3. CASE i < Len(d)
    <3>1. i + 1 \in 1 .. Len(l) /\ d[i + 1] = IF i = k THEN v ELSE l[i + 1]
      BY <1>2, <1>4, <2>3
    <3>2. l[i + 1] = Reads(table, Table!IndexName(i))
      BY <1>1, <1>2, <2>2, <3>1 DEF Reads
    <3> QED BY <1>5, <2>1, <2>3, <3>1, <3>2
  <2>4. CASE ~(i < Len(d))
    <3>1. i # k /\ ~(i < Len(e))
      BY <1>1, <1>2, <1>3, <1>4, <2>4
    <3> QED BY <1>5, <2>1, <2>2, <2>4, <3>1
  <2> QED BY <2>3, <2>4
<1>7. AreOthers(t, others)
  <2>1. Table!IsIndex(Table!IndexName(k))
    BY IndexIs
  <2> QED BY <1>5, <2>1 DEF SlotsFit, AreOthers
<1>8. SlotsFit(t, d, others)
  BY <1>1, <1>2, <1>3, <1>4, <1>5, <1>6, <1>7 DEF SlotsFit, AreElements
<1>9. IsPutAt(e, d, k, v)
  BY <1>1, <1>2, <1>3, <1>4 DEF IsPutAt
<1> QED BY <1>8, <1>9

\* A property is put that is no element.
LEMMA OtherPut ==
    ASSUME NEW table, NEW e, NEW others, SlotsFit(table, e, others),
           NEW name \in AllNames, ~Table!IsIndex(name), NEW v \in PropertyValues, NEW t, NEW o,
           t = Table!With(table, name, Table!Property(v, {})),
           o = Table!With(others, name, Table!Property(v, {}))
    PROVE  SlotsFit(t, e, o)
<1>1. PutInto(table, t, name, v) /\ PutInto(others, o, name, v)
  BY PlainWith DEF SlotsFit
<1>2. AreElements(t, e)
  <2>1. \A i \in 0 .. MaxLength - 1 : Table!IndexName(i) # name
    BY IndexIs
  <2> QED BY <1>1, <2>1 DEF PutInto, SlotsFit, AreElements
<1>3. AreOthers(t, o)
  BY <1>1 DEF PutInto, SlotsFit, AreOthers
<1> QED BY <1>1, <1>2, <1>3 DEF PutInto, SlotsFit

\* ... or deleted.
LEMMA OtherDeleted ==
    ASSUME NEW table, NEW e, NEW others, SlotsFit(table, e, others),
           NEW name \in AllNames, ~Table!IsIndex(name), NEW t, NEW o,
           t = [n \in DOMAIN table \ {name} |-> table[n]],
           o = [n \in DOMAIN others \ {name} |-> others[n]]
    PROVE  SlotsFit(t, e, o)
<1>1. TakenFrom(table, t, {name}) /\ TakenFrom(others, o, {name})
  BY PlainWithout DEF SlotsFit
<1>2. AreElements(t, e)
  <2>1. \A i \in 0 .. MaxLength - 1 : Table!IndexName(i) # name
    BY IndexIs
  <2> QED BY <1>1, <2>1 DEF TakenFrom, SlotsFit, AreElements
<1>3. AreOthers(t, o)
  BY <1>1 DEF TakenFrom, SlotsFit, AreOthers
<1> QED BY <1>1, <1>2, <1>3 DEF TakenFrom, SlotsFit

ClearedIn(s, d, n) ==
    /\ d \in Seq(Elements) /\ Len(d) = Len(s)
    /\ \A i \in 1 .. Len(s) : d[i] = IF i = n THEN Table!Undefined ELSE s[i]

LEMMA ClearsIn ==
    ASSUME NEW s \in Seq(Elements), NEW n, NEW d,
           d = [i \in DOMAIN s |-> IF i = n THEN Table!Undefined ELSE s[i]]
    PROVE  ClearedIn(s, d, n)
<1>1. DOMAIN s = 1 .. Len(s) /\ Len(s) \in Nat /\ Table!Undefined \in Elements
  BY DEF Elements
<1>2. \A i \in 1 .. Len(s) : d[i] = IF i = n THEN Table!Undefined ELSE s[i]
  BY <1>1
<1>3. d = [i \in 1 .. Len(s) |-> d[i]]
  BY <1>1
<1>4. \A i \in 1 .. Len(s) : d[i] \in Elements
  BY <1>1, <1>2
<1> HIDE DEF Elements
<1>5. d \in Seq(Elements) /\ Len(d) = Len(s)
  BY <1>1, <1>3, <1>4
<1> QED BY <1>2, <1>5 DEF ClearedIn

\* An element is deleted.
Clears(table, t, e, d, name) ==
    /\ t = [n \in DOMAIN table \ {name} |-> table[n]]
    /\ d = [i \in DOMAIN e |-> IF i = NameNumbers[name] + 1 THEN Table!Undefined ELSE e[i]]

LEMMA IndexDeleted ==
    ASSUME NEW table, NEW e, NEW others, SlotsFit(table, e, others),
           NEW name, Table!IsIndex(name), NEW t, NEW d, Clears(table, t, e, d, name)
    PROVE  SlotsFit(t, d, others) /\ Len(d) = Len(e)
<1> DEFINE k == NameNumbers[name]
<1>1. k \in 0 .. MaxLength - 1 /\ name = Table!IndexName(k) /\ name \in AllNames
  BY IndexIs
<1>2. TakenFrom(table, t, {name})
  BY PlainWithout DEF SlotsFit, Clears
<1>3. ClearedIn(e, d, k + 1)
  <2> DEFINE n == k + 1
  <2> HIDE DEF n
  <2>1. d = [i \in DOMAIN e |-> IF i = n THEN Table!Undefined ELSE e[i]] /\ e \in Seq(Elements)
    BY DEF n, SlotsFit, Clears
  <2>2. ClearedIn(e, d, n)
    BY <2>1, ClearsIn
  <2> QED BY <2>2 DEF n
<1> HIDE DEF k
<1>4. ASSUME NEW i \in 0 .. MaxLength - 1
      PROVE  IF i < Len(d) THEN Reads(t, Table!IndexName(i)) = d[i + 1]
             ELSE Table!IndexName(i) \notin DOMAIN t
  <2>1. Table!IndexName(i) = name <=> i = k
    BY <1>1, IndexIs
  <2>2. IF i < Len(e) THEN Reads(table, Table!IndexName(i)) = e[i + 1]
        ELSE Table!IndexName(i) \notin DOMAIN table
    BY DEF SlotsFit, AreElements
  <2>3. Len(d) = Len(e) /\ Len(e) \in Nat /\ i \in Nat /\ k \in Nat
    BY <1>1, <1>3, ArrayAssumption DEF ClearedIn, SlotsFit
  <2>4. CASE i < Len(e)
    <3>1. i + 1 \in 1 .. Len(e) /\ (i + 1 = k + 1 <=> i = k)
      BY <2>3, <2>4
    <3>2. d[i + 1] = IF i = k THEN Table!Undefined ELSE e[i + 1]
      BY <1>3, <3>1 DEF ClearedIn
    <3> QED BY <1>2, <2>1, <2>2, <2>3, <2>4, <3>2 DEF TakenFrom
  <2>5. CASE ~(i < Len(e))
    <3>1. Table!IndexName(i) \notin DOMAIN table
      BY <2>2, <2>5
    <3> QED BY <1>2, <2>3, <2>5, <3>1 DEF TakenFrom
  <2> QED BY <2>4, <2>5
<1>5. AreOthers(t, others)
  BY <1>2 DEF TakenFrom, SlotsFit, AreOthers
<1>6. t \in PlainTables /\ d \in Seq(Elements) /\ Len(d) = Len(e)
  BY <1>2, <1>3 DEF TakenFrom, ClearedIn
<1> QED BY <1>4, <1>5, <1>6 DEF SlotsFit, AreElements

CutIn(s, d, n) ==
    /\ d \in Seq(Elements) /\ Len(d) = n
    /\ \A i \in 1 .. n : d[i] = s[i]

LEMMA CutsIn ==
    ASSUME NEW s \in Seq(Elements), NEW n \in 0 .. Len(s)
    PROVE  CutIn(s, SubSeq(s, 1, n), n)
<1> DEFINE d == SubSeq(s, 1, n)
<1>1. n \in Nat /\ Len(s) \in Nat /\ n <= Len(s)
  OBVIOUS
<1>2. \A i \in 1 .. n : s[i] \in Elements
  BY <1>1
<1>3. d \in Seq(Elements) /\ Len(d) = n /\ \A i \in 1 .. n : d[i] = s[i]
  BY <1>1, <1>2
<1> QED BY <1>3 DEF CutIn

\* All elements from n on are taken away.
EndTaken(table, t, e, n, names) ==
    /\ \A name \in names : Table!IsIndex(name) /\ NameNumbers[name] >= n
    /\ \A i \in n .. Len(e) - 1 : Table!IndexName(i) \in names \/ Table!IndexName(i) \notin DOMAIN table
    /\ t = [name \in DOMAIN table \ names |-> table[name]]

LEMMA EndCut ==
    ASSUME NEW table, NEW e, NEW others, SlotsFit(table, e, others),
           NEW n \in 0 .. Len(e), NEW names, NEW t, EndTaken(table, t, e, n, names)
    PROVE  SlotsFit(t, SubSeq(e, 1, n), others) /\ Len(SubSeq(e, 1, n)) = n
<1> DEFINE d == SubSeq(e, 1, n)
<1>1. CutIn(e, d, n)
  BY CutsIn DEF SlotsFit
<1>2. TakenFrom(table, t, names)
  BY PlainWithout DEF SlotsFit, EndTaken
<1> HIDE DEF d
<1>3. n \in Nat /\ Len(e) \in Nat /\ n <= Len(e) /\ MaxLength \in Nat /\ Len(e) <= MaxLength
  BY ArrayAssumption DEF SlotsFit
<1>4. ASSUME NEW i \in 0 .. MaxLength - 1
      PROVE  IF i < n THEN Reads(t, Table!IndexName(i)) = d[i + 1]
             ELSE Table!IndexName(i) \notin DOMAIN t
  <2>1. IF i < Len(e) THEN Reads(table, Table!IndexName(i)) = e[i + 1]
        ELSE Table!IndexName(i) \notin DOMAIN table
    BY DEF SlotsFit, AreElements
  <2>2. Table!IndexName(i) \in names => i >= n
    <3> SUFFICES ASSUME Table!IndexName(i) \in names PROVE i >= n
      OBVIOUS
    <3> DEFINE name == Table!IndexName(i)
    <3>1. Table!IsIndex(name) /\ NameNumbers[name] >= n
      BY DEF EndTaken
    <3>2. NameNumbers[name] \in 0 .. MaxLength - 1 /\ name = Table!IndexName(NameNumbers[name])
      BY <3>1, IndexIs
    <3>3. NameNumbers[name] = i
      BY <3>2, IndexIs
    <3> QED BY <3>1, <3>3
  <2>3. CASE i < n
    <3>1. i + 1 \in 1 .. n /\ i < Len(e) /\ ~(i >= n)
      BY <1>3, <2>3
    <3>2. d[i + 1] = e[i + 1]
      BY <1>1, <3>1 DEF CutIn
    <3> QED BY <1>2, <2>1, <2>2, <2>3, <3>1, <3>2 DEF TakenFrom
  <2>4. CASE ~(i < n)
    <3>1. i \in n .. Len(e) - 1 \/ ~(i < Len(e))
      BY <1>3, <2>4
    <3>2. Table!IndexName(i) \notin DOMAIN table \/ Table!IndexName(i) \in names
      BY <2>1, <3>1 DEF EndTaken
    <3> QED BY <1>2, <2>4, <3>2 DEF TakenFrom
  <2> QED BY <2>3, <2>4
<1>5. AreOthers(t, others)
  BY <1>2 DEF TakenFrom, SlotsFit, AreOthers, EndTaken
<1>6. t \in PlainTables /\ d \in Seq(Elements) /\ Len(d) = n /\ Len(d) <= MaxLength
  BY <1>1, <1>2, <1>3 DEF TakenFrom, CutIn
<1>7. SlotsFit(t, d, others)
  BY <1>4, <1>5, <1>6 DEF SlotsFit, AreElements
<1> QED BY <1>6, <1>7 DEF d

\* An array is made longer.
LEMMA EndAdded ==
    ASSUME NEW table, NEW e, NEW others, SlotsFit(table, e, others), NEW n \in Len(e) .. MaxLength
    PROVE  SlotsFit(table, Table!LargerBy(e, n), others) /\ Len(Table!LargerBy(e, n)) = n
<1> DEFINE d == Table!LargerBy(e, n)
<1>1. n \in Nat /\ Len(e) \in Nat /\ Len(e) <= n /\ n <= MaxLength /\ MaxLength \in Nat
      /\ e \in Seq(Elements)
  BY ArrayAssumption DEF SlotsFit
<1>2. Table!AtLeast(n, Len(e)) = n
  BY <1>1 DEF Table!AtLeast
<1>3. /\ d \in Seq(Elements) /\ Len(d) = n
      /\ \A i \in 1 .. n : d[i] = IF i <= Len(e) THEN e[i] ELSE Table!Undefined
  BY <1>1, <1>2, LargerIs
<1> HIDE DEF d
<1>4. ASSUME NEW i \in 0 .. MaxLength - 1
      PROVE  IF i < n THEN Reads(table, Table!IndexName(i)) = d[i + 1]
             ELSE Table!IndexName(i) \notin DOMAIN table
  <2>1. IF i < Len(e) THEN Reads(table, Table!IndexName(i)) = e[i + 1]
        ELSE Table!IndexName(i) \notin DOMAIN table
    BY DEF SlotsFit, AreElements
  <2>2. CASE i < n
    <3>1. i + 1 \in 1 .. n /\ (i + 1 <= Len(e) <=> i < Len(e))
      BY <1>1, <2>2
    <3>2. d[i + 1] = IF i < Len(e) THEN e[i + 1] ELSE Table!Undefined
      BY <1>3, <3>1
    <3> QED BY <2>1, <2>2, <3>2 DEF Reads
  <2>3. CASE ~(i < n)
    <3>1. ~(i < Len(e))
      BY <1>1, <2>3
    <3> QED BY <2>1, <2>3, <3>1
  <2> QED BY <2>2, <2>3
<1>5. SlotsFit(table, d, others)
  BY <1>1, <1>3, <1>4 DEF SlotsFit, AreElements
<1> QED BY <1>3, <1>5 DEF d

LEMMA SameElements ==
    ASSUME NEW table, NEW e, NEW others, SlotsFit(table, e, others),
           NEW d \in Seq(Elements), Len(d) = Len(e), \A i \in 1 .. Len(e) : d[i] = e[i]
    PROVE  SlotsFit(table, d, others)
<1>1. Len(e) \in Nat
  BY DEF SlotsFit
<1>2. \A i \in 0 .. MaxLength - 1 : i < Len(e) => d[i + 1] = e[i + 1]
  BY <1>1, ArrayAssumption
<1> QED BY <1>2 DEF SlotsFit, AreElements

-------------------------------------------------------------------------------
(*                    What is done to an array in a loop                   *)

Arrays == [properties : PlainTables, lengthM : Nat]

\* f is what becomes of a by so many steps, all of them in A.
IsRun(f, A, a, N, step) ==
    /\ f = [k \in 0 .. N |-> f[k]] /\ f[0] = a
    /\ \A k \in 1 .. N : f[k - 1] \in A /\ f[k] = step[k][f[k - 1]]

LEMMA RunExists ==
    ASSUME NEW A, NEW a \in A, NEW N \in Nat, NEW step \in [1 .. N -> [A -> A]]
    PROVE  \E f : IsRun(f, A, a, N, step)
<1> DEFINE Run(f, m) == /\ f = [k \in 0 .. m |-> f[k]] /\ f[0] = a /\ f[m] \in A
                        /\ \A k \in 1 .. m : f[k - 1] \in A /\ f[k] = step[k][f[k - 1]]
           S == {m \in Nat : m <= N => \E f : Run(f, m)}
<1>1. 0 \in S
  <2> DEFINE f == [k \in 0 .. 0 |-> a]
  <2>1. f = [k \in 0 .. 0 |-> f[k]] /\ f[0] = a
    OBVIOUS
  <2>2. \A k \in 1 .. 0 : FALSE
    OBVIOUS
  <2> HIDE DEF f
  <2>3. Run(f, 0)
    BY <2>1, <2>2
  <2> QED BY <2>3
<1>2. ASSUME NEW m \in Nat, m \in S PROVE m + 1 \in S
  <2> SUFFICES ASSUME m + 1 <= N PROVE \E f : Run(f, m + 1)
    OBVIOUS
  <2>1. PICK f : Run(f, m)
    BY <1>2
  <2> DEFINE t == step[m + 1][f[m]]
             g == [k \in 0 .. m + 1 |-> IF k = m + 1 THEN t ELSE f[k]]
  <2>2. t \in A
    <3>1. f[m] \in A /\ m + 1 \in 1 .. N
      BY <2>1
    <3> QED BY <3>1
  <2> HIDE DEF t
  <2>3. g = [k \in 0 .. m + 1 |-> g[k]] /\ g[m + 1] = t /\ \A k \in 0 .. m : g[k] = f[k]
    OBVIOUS
  <2> HIDE DEF g
  <2>4. g[0] = a
    BY <2>1, <2>3
  <2>5. ASSUME NEW k \in 1 .. m + 1 PROVE g[k - 1] \in A /\ g[k] = step[k][g[k - 1]]
    <3>1. CASE k = m + 1
      <4>1. k - 1 = m /\ g[m] = f[m]
        <5>1. m \in 0 .. m /\ k - 1 = m
          BY <3>1
        <5>2. \A i \in 0 .. m : g[i] = f[i]
          BY <2>3
        <5> QED BY <5>1, <5>2
      <4>2. f[m] \in A
        BY <2>1
      <4>3. t = step[k][f[m]]
        BY <3>1 DEF t
      <4> QED BY <2>3, <3>1, <4>1, <4>2, <4>3
    <3>2. CASE k # m + 1
      <4>1. k \in 1 .. m /\ k \in 0 .. m /\ k - 1 \in 0 .. m
        BY <3>2
      <4>2. g[k] = f[k] /\ g[k - 1] = f[k - 1]
        BY <2>3, <4>1
      <4> QED BY <2>1, <4>1, <4>2
    <3> QED BY <3>1, <3>2
  <2>6. Run(g, m + 1)
    BY <2>2, <2>3, <2>4, <2>5
  <2> HIDE DEF Run
  <2> QED BY <2>6
<1>3. Nat \subseteq S
  <2> HIDE DEF S
  <2> QED BY <1>1, <1>2, Steps
<1>4. \E f : Run(f, N)
  BY <1>3
<1> QED BY <1>4 DEF IsRun

\* One element is put behind the last, as putPropertyNoCheck does it.
PushedOne(a, v) ==
    Table!Array(Table!putPropertyNoCheck(a.properties, Table!IndexName(a.lengthM), v), a.lengthM + 1)

LEMMA PushedOneIs ==
    ASSUME NEW a \in Arrays, NEW v \in PropertyValues
    PROVE  /\ PushedOne(a, v) \in Arrays /\ PushedOne(a, v).lengthM = a.lengthM + 1
           /\ PushedOne(a, v).properties
                = Table!With(a.properties, Table!IndexName(a.lengthM), Table!Property(v, {}))
<1> DEFINE t == Table!With(a.properties, Table!IndexName(a.lengthM), Table!Property(v, {}))
<1>1. a.properties \in PlainTables /\ a.lengthM \in Nat
  BY DEF Arrays
<1>2. t \in PlainTables
  <2>1. Table!IndexName(a.lengthM) \in AllNames
    BY <1>1 DEF AllNames, IndexNames
  <2> DEFINE name == Table!IndexName(a.lengthM)
  <2> HIDE DEF name
  <2>2. name \in AllNames /\ t = Table!With(a.properties, name, Table!Property(v, {}))
    BY <2>1 DEF name
  <2> HIDE DEF t
  <2> QED BY <1>1, <2>2, PlainWith DEF PutInto
<1>3. PushedOne(a, v) = [properties |-> t, lengthM |-> a.lengthM + 1]
  BY DEF PushedOne, Table!Array, Table!putPropertyNoCheck
<1> HIDE DEF t
<1>4. PushedOne(a, v) \in Arrays /\ PushedOne(a, v).lengthM = a.lengthM + 1
      /\ PushedOne(a, v).properties = t
  BY <1>1, <1>2, <1>3 DEF Arrays
<1> QED BY <1>4 DEF t

\* The elements after the first k values have been pushed.
Longer(e, values, k) ==
    [i \in 1 .. Len(e) + k |-> IF i <= Len(e) THEN e[i] ELSE values[i - Len(e)]]

LEMMA LongerIs ==
    ASSUME NEW e \in Seq(Elements), NEW values \in Seq(PropertyValues), NEW k \in 0 .. Len(values)
    PROVE  /\ Longer(e, values, k) \in Seq(Elements) /\ Len(Longer(e, values, k)) = Len(e) + k
           /\ \A i \in 1 .. Len(e) + k :
                 Longer(e, values, k)[i] = IF i <= Len(e) THEN e[i] ELSE values[i - Len(e)]
<1> DEFINE n == Len(e) + k
           d == Longer(e, values, k)
<1>1. n \in Nat /\ Len(e) \in Nat /\ Len(values) \in Nat /\ k \in Nat /\ k <= Len(values)
  OBVIOUS
<1>2. d = [i \in 1 .. n |-> d[i]]
      /\ \A i \in 1 .. n : d[i] = IF i <= Len(e) THEN e[i] ELSE values[i - Len(e)]
  BY DEF Longer
<1> HIDE DEF d
<1>3. \A i \in 1 .. n : d[i] \in Elements
  <2> SUFFICES ASSUME NEW i \in 1 .. n PROVE d[i] \in Elements
    OBVIOUS
  <2>1. CASE i <= Len(e)
    BY <1>1, <1>2, <2>1
  <2>2. CASE ~(i <= Len(e))
    <3>1. i - Len(e) \in 1 .. Len(values)
      BY <1>1, <2>2
    <3> QED BY <1>2, <2>2, <3>1 DEF Elements
  <2> QED BY <2>1, <2>2
<1>4. d \in Seq(Elements) /\ Len(d) = n
  <2> HIDE DEF n, Elements
  <2> QED BY <1>1, <1>2, <1>3
<1> QED BY <1>2, <1>4 DEF d

\* One value more.
LEMMA PushesOne ==
    ASSUME NEW a \in Arrays, NEW e \in Seq(Elements), NEW values \in Seq(PropertyValues), NEW others,
           NEW k \in 0 .. Len(values) - 1, Len(e) + k < MaxLength,
           SlotsFit(a.properties, Longer(e, values, k), others), a.lengthM = Len(e) + k
    PROVE  SlotsFit(PushedOne(a, values[k + 1]).properties, Longer(e, values, k + 1), others)
<1> DEFINE n == Len(e) + k
           c == Longer(e, values, k)
           v == values[k + 1]
           t == PushedOne(a, v).properties
           d == [Table!LargerBy(c, n + 1) EXCEPT ![n + 1] = v]
           b == Longer(e, values, k + 1)
<1>1. Len(e) \in Nat /\ Len(values) \in Nat /\ k \in Nat /\ k < Len(values) /\ v \in PropertyValues
      /\ k + 1 \in 0 .. Len(values) /\ k \in 0 .. Len(values) /\ n \in 0 .. MaxLength - 1
  BY ArrayAssumption
<1>2. /\ c \in Seq(Elements) /\ Len(c) = n
      /\ \A i \in 1 .. n : c[i] = IF i <= Len(e) THEN e[i] ELSE values[i - Len(e)]
  BY <1>1, LongerIs
<1>3. /\ b \in Seq(Elements) /\ Len(b) = n + 1
      /\ \A i \in 1 .. n + 1 : b[i] = IF i <= Len(e) THEN e[i] ELSE values[i - Len(e)]
  <2> DEFINE k1 == k + 1
  <2>1. k1 \in 0 .. Len(values)
    BY <1>1
  <2>2. Len(e) + k1 = n + 1
    BY <1>1
  <2> HIDE DEF k1, n
  <2>3. b = Longer(e, values, k1)
    BY DEF k1
  <2> HIDE DEF b
  <2> QED BY <2>1, <2>2, <2>3, LongerIs
<1>4. t = Table!With(a.properties, Table!IndexName(n), Table!Property(v, {}))
  BY <1>1, PushedOneIs
<1>5. SlotsFit(t, d, others) /\ IsPutAt(c, d, n, v)
  <2> HIDE DEF n, c, v, t
  <2>1. SlotsFit(a.properties, c, others)
    BY DEF c
  <2>2. d = [Table!LargerBy(c, n + 1) EXCEPT ![n + 1] = v]
    OBVIOUS
  <2> HIDE DEF d
  <2> QED BY <1>1, <1>4, <2>1, <2>2, IndexPut
<1> HIDE DEF c, t, d, b
<1>6. Len(d) = n + 1 /\ \A i \in 1 .. n + 1 : b[i] = d[i]
  <2>1. Table!AtLeast(n + 1, n) = n + 1
    BY <1>1 DEF Table!AtLeast
  <2>2. Len(d) = n + 1
    BY <1>2, <1>5, <2>1 DEF IsPutAt
  <2>3. ASSUME NEW i \in 1 .. n + 1 PROVE b[i] = d[i]
    <3>1. d[i] = IF i = n + 1 THEN v ELSE c[i]
      <4>1. d[i] = IF i = n + 1 THEN v ELSE IF i <= Len(c) THEN c[i] ELSE Table!Undefined
        BY <1>5, <2>2 DEF IsPutAt
      <4>2. i = n + 1 \/ i <= n
        BY <1>1
      <4> QED BY <1>2, <4>1, <4>2
    <3>2. CASE i = n + 1
      <4>1. ~(i <= Len(e)) /\ i - Len(e) = k + 1
        BY <1>1, <3>2
      <4> QED BY <1>3, <3>1, <3>2, <4>1
    <3>3. CASE i # n + 1
      <4>1. i \in 1 .. n
        BY <1>1, <3>3
      <4> QED BY <1>2, <1>3, <3>1, <3>3, <4>1
    <3> QED BY <3>2, <3>3
  <2> QED BY <2>2, <2>3
<1>7. SlotsFit(t, b, others)
  <2> HIDE DEF n
  <2> QED BY <1>3, <1>5, <1>6, SameElements
<1> QED BY <1>7 DEF t, b

\* b is what push computes, value by value.
IsPushes(b, a, values) ==
    b[0] = a /\ \A k \in 1 .. Len(values) : b[k] = PushedOne(b[k - 1], values[k])

LEMMA PushIs ==
    ASSUME NEW a \in Arrays, NEW values \in Seq(PropertyValues)
    PROVE  \E b : IsPushes(b, a, values) /\ Table!push(a, values) = b[Len(values)]
<1> DEFINE N == Len(values)
           F(m) == [n \in 0 .. N |-> IF n = 0 THEN a ELSE PushedOne(m[n - 1], values[n])]
           b == CHOOSE m : m = F(m)
           step == [k \in 1 .. N |-> [x \in Arrays |-> PushedOne(x, values[k])]]
<1>1. N \in Nat /\ \A k \in 1 .. N : values[k] \in PropertyValues
  OBVIOUS
<1>2. step \in [1 .. N -> [Arrays -> Arrays]]
  <2>1. \A k \in 1 .. N : \A x \in Arrays : PushedOne(x, values[k]) \in Arrays
    BY <1>1, PushedOneIs
  <2> HIDE DEF N
  <2> QED BY <2>1
<1>3. \A k \in 1 .. N : \A x \in Arrays : step[k][x] = PushedOne(x, values[k])
  OBVIOUS
<1>4. Table!push(a, values) = b[N]
  BY DEF Table!push, PushedOne
<1> HIDE DEF step, b, N
<1>5. PICK f : IsRun(f, Arrays, a, N, step)
  BY <1>1, <1>2, RunExists
<1>6. f = F(f)
  <2>1. \A k \in 0 .. N : f[k] = IF k = 0 THEN a ELSE PushedOne(f[k - 1], values[k])
    <3>1. \A k \in 0 .. N : k = 0 \/ k \in 1 .. N
      BY <1>1
    <3> QED BY <1>3, <1>5, <3>1 DEF IsRun
  <2>2. [k \in 0 .. N |-> f[k]] = F(f)
    BY <2>1
  <2> QED BY <1>5, <2>2 DEF IsRun
<1>7. b = F(b)
  <2> HIDE DEF F
  <2> QED BY <1>6 DEF b
<1>8. b[0] = a /\ \A k \in 1 .. N : b[k] = PushedOne(b[k - 1], values[k])
  BY <1>1, <1>7
<1> HIDE DEF F
<1>9. IsPushes(b, a, values) /\ Table!push(a, values) = b[Len(values)]
  BY <1>4, <1>8 DEF IsPushes, N
<1> QED BY <1>9

LEMMA PushKeeps ==
    ASSUME NEW a \in Arrays, NEW e, NEW others, SlotsFit(a.properties, e, others), a.lengthM = Len(e),
           NEW values \in Seq(PropertyValues), Len(e) + Len(values) <= MaxLength
    PROVE  /\ Table!push(a, values) \in Arrays
           /\ Table!push(a, values).lengthM = Len(e \o values)
           /\ SlotsFit(Table!push(a, values).properties, e \o values, others)
<1> DEFINE N == Len(values)
<1>1. PICK b : IsPushes(b, a, values) /\ Table!push(a, values) = b[Len(values)]
  BY PushIs
<1>2. e \in Seq(Elements) /\ Len(e) \in Nat /\ N \in Nat /\ Len(e) + N <= MaxLength
  BY DEF SlotsFit
<1> DEFINE Good(k) == /\ b[k] \in Arrays /\ b[k].lengthM = Len(e) + k
                      /\ SlotsFit(b[k].properties, Longer(e, values, k), others)
           S == {k \in Nat : k <= N => Good(k)}
<1>3. 0 \in S
  <2>1. b[0] = a
    BY <1>1 DEF IsPushes
  <2> DEFINE d == Longer(e, values, 0)
  <2>2. d \in Seq(Elements) /\ Len(d) = Len(e) /\ \A i \in 1 .. Len(e) : d[i] = e[i]
    <3>1. 0 \in 0 .. Len(values) /\ Len(e) + 0 = Len(e)
      BY <1>2
    <3> HIDE DEF d
    <3>2. /\ d \in Seq(Elements) /\ Len(d) = Len(e) + 0
          /\ \A i \in 1 .. Len(e) + 0 : d[i] = IF i <= Len(e) THEN e[i] ELSE values[i - Len(e)]
      BY <1>2, <3>1, LongerIs DEF d
    <3> QED BY <1>2, <3>1, <3>2
  <2> HIDE DEF d
  <2>3. SlotsFit(a.properties, d, others)
    BY <2>2, SameElements
  <2>4. Good(0)
    BY <1>2, <2>1, <2>3 DEF d
  <2> HIDE DEF Good
  <2> QED BY <2>4
<1>4. ASSUME NEW k \in Nat, k \in S PROVE k + 1 \in S
  <2> SUFFICES ASSUME k + 1 <= N PROVE Good(k + 1)
    OBVIOUS
  <2>1. Good(k)
    BY <1>2, <1>4
  <2>2. k + 1 \in 1 .. N /\ (k + 1) - 1 = k /\ k \in 0 .. Len(values) - 1 /\ Len(e) + k < MaxLength
    BY <1>2, ArrayAssumption
  <2>3. b[k + 1] = PushedOne(b[k], values[k + 1]) /\ values[k + 1] \in PropertyValues
    BY <1>1, <2>2 DEF IsPushes
  <2>4. b[k + 1] \in Arrays /\ b[k + 1].lengthM = Len(e) + k + 1
    BY <2>1, <2>3, PushedOneIs
  <2>5. SlotsFit(b[k + 1].properties, Longer(e, values, k + 1), others)
    BY <1>2, <2>1, <2>2, <2>3, PushesOne
  <2> QED BY <1>2, <2>4, <2>5
<1>5. Nat \subseteq S
  <2> HIDE DEF S
  <2> QED BY <1>3, <1>4, Steps
<1>6. Good(N)
  BY <1>2, <1>5
<1> DEFINE d == Longer(e, values, N)
           c == e \o values
<1>7. /\ d \in Seq(Elements) /\ Len(d) = Len(e) + N
      /\ \A i \in 1 .. Len(e) + N : d[i] = IF i <= Len(e) THEN e[i] ELSE values[i - Len(e)]
  <2>1. N \in 0 .. Len(values)
    BY <1>2
  <2> QED BY <1>2, <2>1, LongerIs
<1>8. c \in Seq(Elements) /\ Len(c) = Len(e) + N
      /\ \A i \in 1 .. Len(e) + N : c[i] = IF i <= Len(e) THEN e[i] ELSE values[i - Len(e)]
  <2>1. values \in Seq(Elements)
    BY DEF Elements
  <2> HIDE DEF Elements
  <2> QED BY <1>2, <2>1
<1> HIDE DEF d, c
<1>9. SlotsFit(b[N].properties, d, others)
  BY <1>6 DEF d
<1>10. SlotsFit(b[N].properties, c, others)
  <2>1. c \in Seq(Elements) /\ Len(c) = Len(d) /\ \A i \in 1 .. Len(d) : c[i] = d[i]
    BY <1>7, <1>8
  <2> QED BY <1>9, <2>1, SameElements
<1> QED BY <1>1, <1>6, <1>8, <1>10 DEF c

-------------------------------------------------------------------------------
(*                            Array literals                               *)

IsLiteral(elements) ==
    /\ DOMAIN elements \subseteq 0 .. MaxLength - 1
    /\ \A i \in DOMAIN elements : elements[i] \in PropertyValues

\* The nth step of ArrayInitialiser.
FilledOne(a, elements, n) ==
    IF n - 1 \in DOMAIN elements THEN Table!putElementNoCheck(a, n - 1, elements[n - 1]) ELSE a

\* One element is put at a place.
ElementPutIs(a, k, v, t) ==
    /\ t \in Arrays /\ t.lengthM = Table!AtLeast(k + 1, a.lengthM)
    /\ t.properties = Table!With(a.properties, Table!IndexName(k), Table!Property(v, {}))

LEMMA PutsElement ==
    ASSUME NEW a \in Arrays, NEW k \in Nat, NEW v \in PropertyValues
    PROVE  ElementPutIs(a, k, v, Table!putElementNoCheck(a, k, v))
<1> DEFINE t == Table!With(a.properties, Table!IndexName(k), Table!Property(v, {}))
           m == Table!AtLeast(k + 1, a.lengthM)
<1>1. a.properties \in PlainTables /\ a.lengthM \in Nat
  BY DEF Arrays
<1>2. t \in PlainTables
  <2>1. Table!IndexName(k) \in AllNames
    BY DEF AllNames, IndexNames
  <2> DEFINE name == Table!IndexName(k)
  <2> HIDE DEF name
  <2>2. name \in AllNames /\ t = Table!With(a.properties, name, Table!Property(v, {}))
    BY <2>1 DEF name
  <2> HIDE DEF t
  <2> QED BY <1>1, <2>2, PlainWith DEF PutInto
<1>3. m \in Nat
  BY <1>1 DEF Table!AtLeast
<1>4. Table!putElementNoCheck(a, k, v) = [properties |-> t, lengthM |-> m]
  BY DEF Table!putElementNoCheck, Table!Array, Table!putPropertyNoCheck
<1> DEFINE p == Table!putElementNoCheck(a, k, v)
<1> HIDE DEF t, m, p
<1>5. p \in Arrays /\ p.lengthM = m /\ p.properties = t
  BY <1>2, <1>3, <1>4 DEF Arrays, p
<1> QED BY <1>5 DEF ElementPutIs, t, m, p

\* b is what ArrayInitialiser computes, element by element.
IsFill(b, elements) ==
    /\ b[0] = Table!NewArray
    /\ \A k \in 1 .. MaxLength : b[k] = FilledOne(b[k - 1], elements, k)

LEMMA NewArrayIs ==
    /\ Table!NewArray \in Arrays
    /\ Table!NewArray.lengthM = 0 /\ Table!NewArray.properties = Table!NoProperties
<1> DEFINE t == Table!NoProperties
<1>1. Table!NewArray = [properties |-> t, lengthM |-> 0] /\ t \in PlainTables
  BY PlainIs DEF Table!NewArray, Table!Array
<1> HIDE DEF t
<1>2. Table!NewArray \in Arrays /\ Table!NewArray.lengthM = 0 /\ Table!NewArray.properties = t
  BY <1>1 DEF Arrays
<1> QED BY <1>2 DEF t

LEMMA FillIs ==
    ASSUME NEW elements, IsLiteral(elements)
    PROVE  \E b : IsFill(b, elements) /\ Table!ArrayInitialiser(elements) = b[MaxLength]
<1> DEFINE N == MaxLength
           a == Table!NewArray
           F(m) == [n \in 0 .. N |-> IF n = 0 THEN a ELSE FilledOne(m[n - 1], elements, n)]
           b == CHOOSE m : m = F(m)
           step == [k \in 1 .. N |-> [x \in Arrays |-> FilledOne(x, elements, k)]]
<1>1. N \in Nat /\ a \in Arrays
  BY ArrayAssumption, NewArrayIs
<1>2. step \in [1 .. N -> [Arrays -> Arrays]]
  <2>1. ASSUME NEW k \in 1 .. N, NEW x \in Arrays PROVE FilledOne(x, elements, k) \in Arrays
    <3>1. CASE k - 1 \in DOMAIN elements
      <4>1. k - 1 \in Nat /\ elements[k - 1] \in PropertyValues
        BY <3>1 DEF IsLiteral
      <4> DEFINE k0 == k - 1
      <4> HIDE DEF k0
      <4>2. Table!putElementNoCheck(x, k0, elements[k0]) \in Arrays
        BY <4>1, PutsElement DEF ElementPutIs, k0
      <4> QED BY <3>1, <4>2 DEF FilledOne, k0
    <3>2. CASE k - 1 \notin DOMAIN elements
      BY <3>2 DEF FilledOne
    <3> QED BY <3>1, <3>2
  <2> HIDE DEF N
  <2> QED BY <2>1
<1>3. \A k \in 1 .. N : \A x \in Arrays : step[k][x] = FilledOne(x, elements, k)
  OBVIOUS
<1>4. Table!ArrayInitialiser(elements) = b[N]
  BY DEF Table!ArrayInitialiser, FilledOne
<1> HIDE DEF step, b, N, a
<1>5. PICK f : IsRun(f, Arrays, a, N, step)
  BY <1>1, <1>2, RunExists
<1>6. f = F(f)
  <2>1. \A k \in 0 .. N : f[k] = IF k = 0 THEN a ELSE FilledOne(f[k - 1], elements, k)
    <3>1. \A k \in 0 .. N : k = 0 \/ k \in 1 .. N
      BY <1>1
    <3> QED BY <1>3, <1>5, <3>1 DEF IsRun
  <2>2. [k \in 0 .. N |-> f[k]] = F(f)
    BY <2>1
  <2> QED BY <1>5, <2>2 DEF IsRun
<1>7. b = F(b)
  <2> HIDE DEF F
  <2> QED BY <1>6 DEF b
<1>8. b[0] = a /\ \A k \in 1 .. N : b[k] = FilledOne(b[k - 1], elements, k)
  BY <1>1, <1>7
<1> HIDE DEF F
<1>9. IsFill(b, elements) /\ Table!ArrayInitialiser(elements) = b[MaxLength]
  BY <1>4, <1>8 DEF IsFill, N, a
<1> QED BY <1>9

\* After n steps: e has the elements that are given below n, and ends with
\* the last of them.
IsFilled(e, elements, n) ==
    /\ Len(e) <= n
    /\ \A i \in 1 .. Len(e) :
          e[i] = IF i - 1 \in DOMAIN elements THEN elements[i - 1] ELSE Table!Undefined
    /\ \A j \in DOMAIN elements : j < n => j < Len(e)
    /\ Len(e) = 0 \/ Len(e) - 1 \in DOMAIN elements

FilledTo(a, e, elements, n) ==
    /\ a \in Arrays /\ SlotsFit(a.properties, e, Table!NoProperties) /\ a.lengthM = Len(e)
    /\ IsFilled(e, elements, n)

LEMMA EmptyFits ==
    /\ <<>> \in Seq(Elements) /\ Len(<<>>) = 0
    /\ SlotsFit(Table!NoProperties, <<>>, Table!NoProperties)
<1> DEFINE e == <<>>
           t == Table!NoProperties
<1>1. e \in Seq(Elements) /\ Len(e) = 0
  OBVIOUS
<1>2. t \in PlainTables /\ DOMAIN t = {}
  BY PlainIs
<1> HIDE DEF e, t
<1>3. SlotsFit(t, e, t)
  BY <1>1, <1>2, ArrayAssumption DEF SlotsFit, AreElements, AreOthers
<1> QED BY <1>1, <1>3 DEF e, t

LEMMA FillsOne ==
    ASSUME NEW a, NEW e, NEW elements, NEW n \in 0 .. MaxLength - 1,
           IsLiteral(elements), FilledTo(a, e, elements, n)
    PROVE  \E d : FilledTo(FilledOne(a, elements, n + 1), d, elements, n + 1)
<1>1. /\ n \in Nat /\ (n + 1) - 1 = n /\ e \in Seq(Elements) /\ Len(e) \in Nat /\ Len(e) <= n
      /\ a \in Arrays /\ SlotsFit(a.properties, e, Table!NoProperties) /\ a.lengthM = Len(e)
      /\ IsFilled(e, elements, n)
  BY ArrayAssumption DEF FilledTo, IsFilled, SlotsFit
<1>2. \A j \in DOMAIN elements : j \in Nat
  BY ArrayAssumption DEF IsLiteral
<1>3. CASE n \notin DOMAIN elements
  <2>1. FilledOne(a, elements, n + 1) = a
    BY <1>1, <1>3 DEF FilledOne
  <2>2. IsFilled(e, elements, n + 1)
    <3>1. \A j \in DOMAIN elements : j < n + 1 => j < n
      BY <1>1, <1>2, <1>3
    <3> QED BY <1>1, <3>1 DEF IsFilled
  <2> QED BY <1>1, <2>1, <2>2 DEF FilledTo
<1>4. CASE n \in DOMAIN elements
  <2> DEFINE v == elements[n]
             d == [Table!LargerBy(e, n + 1) EXCEPT ![n + 1] = v]
             b == FilledOne(a, elements, n + 1)
  <2>1. v \in PropertyValues
    BY <1>4 DEF IsLiteral
  <2>2. ElementPutIs(a, n, v, b)
    <3>1. b = Table!putElementNoCheck(a, n, v)
      BY <1>1, <1>4 DEF FilledOne
    <3> HIDE DEF b, v
    <3> QED BY <1>1, <2>1, <3>1, PutsElement
  <2> HIDE DEF v, b
  <2>3. SlotsFit(b.properties, d, Table!NoProperties) /\ IsPutAt(e, d, n, v)
    <3> DEFINE t == b.properties
               s == a.properties
    <3>1. t = Table!With(s, Table!IndexName(n), Table!Property(v, {}))
      BY <2>2 DEF ElementPutIs
    <3>2. SlotsFit(s, e, Table!NoProperties)
      BY <1>1
    <3>3. d = [Table!LargerBy(e, n + 1) EXCEPT ![n + 1] = v]
      OBVIOUS
    <3> HIDE DEF t, s, d
    <3>4. SlotsFit(t, d, Table!NoProperties) /\ IsPutAt(e, d, n, v)
      BY <2>1, <3>1, <3>2, <3>3, IndexPut
    <3> QED BY <3>4 DEF t
  <2> HIDE DEF d
  <2>4. Table!AtLeast(n + 1, Len(e)) = n + 1
    BY <1>1 DEF Table!AtLeast
  <2>5. Len(d) = n + 1 /\ b.lengthM = Len(d) /\ b \in Arrays
    BY <1>1, <2>2, <2>3, <2>4 DEF IsPutAt, ElementPutIs
  <2>6. ASSUME NEW i \in 1 .. n + 1
        PROVE  d[i] = IF i - 1 \in DOMAIN elements THEN elements[i - 1] ELSE Table!Undefined
    <3>1. d[i] = IF i = n + 1 THEN v ELSE IF i <= Len(e) THEN e[i] ELSE Table!Undefined
      BY <2>3, <2>5 DEF IsPutAt
    <3>2. CASE i = n + 1
      BY <1>1, <1>4, <3>1, <3>2 DEF v
    <3>3. CASE i # n + 1 /\ i <= Len(e)
      <4>1. i \in 1 .. Len(e)
        BY <1>1, <3>3
      <4> QED BY <1>1, <3>1, <3>3, <4>1 DEF IsFilled
    <3>4. CASE i # n + 1 /\ ~(i <= Len(e))
      <4>1. i - 1 < n /\ ~(i - 1 < Len(e))
        BY <1>1, <3>4
      <4>2. i - 1 \notin DOMAIN elements
        BY <1>1, <4>1 DEF IsFilled
      <4> QED BY <3>1, <3>4, <4>2
    <3> QED BY <3>2, <3>3, <3>4
  <2>7. IsFilled(d, elements, n + 1)
    BY <1>1, <1>4, <2>5, <2>6 DEF IsFilled
  <2>8. FilledTo(b, d, elements, n + 1)
    BY <2>3, <2>5, <2>7 DEF FilledTo
  <2> QED BY <2>8 DEF b
<1> QED BY <1>3, <1>4

LEMMA LiteralIs ==
    ASSUME NEW elements, IsLiteral(elements)
    PROVE  \E e : FilledTo(Table!ArrayInitialiser(elements), e, elements, MaxLength)
<1>1. PICK b : IsFill(b, elements) /\ Table!ArrayInitialiser(elements) = b[MaxLength]
  BY FillIs
<1> DEFINE S == {k \in Nat : k <= MaxLength => \E e : FilledTo(b[k], e, elements, k)}
<1>2. 0 \in S
  <2> DEFINE e == <<>>
             a == Table!NewArray
  <2>1. a \in Arrays /\ a.lengthM = 0 /\ a.properties = Table!NoProperties
    BY NewArrayIs
  <2>2. Len(e) = 0 /\ SlotsFit(Table!NoProperties, e, Table!NoProperties)
    BY EmptyFits
  <2>3. \A j \in DOMAIN elements : ~(j < 0)
    BY ArrayAssumption DEF IsLiteral
  <2> HIDE DEF e, a
  <2>4. IsFilled(e, elements, 0)
    BY <2>2, <2>3 DEF IsFilled
  <2>5. FilledTo(a, e, elements, 0)
    BY <2>1, <2>2, <2>4 DEF FilledTo
  <2>6. b[0] = a
    BY <1>1 DEF IsFill, a
  <2> QED BY <2>5, <2>6
<1>3. ASSUME NEW k \in Nat, k \in S PROVE k + 1 \in S
  <2> SUFFICES ASSUME k + 1 <= MaxLength PROVE \E e : FilledTo(b[k + 1], e, elements, k + 1)
    OBVIOUS
  <2>1. k <= MaxLength /\ k \in 0 .. MaxLength - 1 /\ k + 1 \in 1 .. MaxLength /\ (k + 1) - 1 = k
    BY ArrayAssumption
  <2>2. PICK e : FilledTo(b[k], e, elements, k)
    BY <1>3, <2>1
  <2>3. b[k + 1] = FilledOne(b[k], elements, k + 1)
    BY <1>1, <2>1 DEF IsFill
  <2> DEFINE a == b[k]
  <2> HIDE DEF a
  <2>4. \E d : FilledTo(FilledOne(a, elements, k + 1), d, elements, k + 1)
    BY <2>1, <2>2, FillsOne DEF a
  <2> QED BY <2>3, <2>4 DEF a
<1>4. Nat \subseteq S
  <2> HIDE DEF S
  <2> QED BY <1>2, <1>3, Steps
<1>5. \E e : FilledTo(b[MaxLength], e, elements, MaxLength)
  BY <1>4, ArrayAssumption
<1> QED BY <1>1, <1>5

-------------------------------------------------------------------------------
(*                       An array and its sequence                         *)

\* The table has the elements and nothing else that an index names, as many
\* as the length says.
Agrees(a, e, others) ==
    a \in Arrays /\ a.lengthM = Len(e) /\ SlotsFit(a.properties, e, others)

ArrInv(s) == Agrees(s.array, s.elements, s.others) /\ s.answer = s.expected

LEMMA SlotsAgree ==
    ASSUME NEW a, NEW e, NEW others, Agrees(a, e, others)
    PROVE  ArrInv(Table!Slots(a, e, others))
BY DEF ArrInv, Table!Slots

LEMMA AgreesIs ==
    ASSUME NEW a, NEW e, NEW others, Agrees(a, e, others)
    PROVE  /\ a = Table!Array(a.properties, a.lengthM) /\ a.lengthM \in Nat /\ a.lengthM = Len(e)
           /\ a.lengthM <= MaxLength /\ a.properties \in PlainTables /\ others \in PlainTables
           /\ e \in Seq(Elements)
BY DEF Agrees, Arrays, SlotsFit, Table!Array

LEMMA MadeAgree ==
    ASSUME NEW table, NEW e, NEW others, SlotsFit(table, e, others), NEW n, n = Len(e)
    PROVE  Agrees(Table!Array(table, n), e, others)
<1>1. table \in PlainTables /\ n \in Nat
  BY DEF SlotsFit
<1>2. Table!Array(table, n) \in Arrays
      /\ Table!Array(table, n).lengthM = n /\ Table!Array(table, n).properties = table
  BY <1>1 DEF Table!Array, Arrays
<1> QED BY <1>2 DEF Agrees

LEMMA LiteralAgrees ==
    ASSUME NEW elements, IsLiteral(elements), NEW e \in Seq(Elements), Len(e) # 0,
           DOMAIN elements \subseteq 0 .. Len(e) - 1, Len(e) - 1 \in DOMAIN elements,
           \A i \in 1 .. Len(e) :
              e[i] = IF i - 1 \in DOMAIN elements THEN elements[i - 1] ELSE Table!Undefined
    PROVE  Agrees(Table!ArrayInitialiser(elements), e, Table!NoProperties)
<1> DEFINE a == Table!ArrayInitialiser(elements)
<1>1. PICK c : FilledTo(a, c, elements, MaxLength)
  BY LiteralIs
<1> HIDE DEF a
<1>2. Len(c) \in Nat /\ Len(e) \in Nat /\ MaxLength \in Nat
  BY <1>1, ArrayAssumption DEF FilledTo, SlotsFit
<1>3. Len(c) = Len(e)
  <2>1. Len(e) - 1 < MaxLength
    BY <1>2 DEF IsLiteral
  <2>2. Len(e) - 1 < Len(c)
    BY <1>1, <2>1 DEF FilledTo, IsFilled
  <2>3. Len(c) - 1 <= Len(e) - 1
    BY <1>1, <1>2, <2>2 DEF FilledTo, IsFilled
  <2> QED BY <1>2, <2>2, <2>3
<1>4. \A i \in 1 .. Len(e) : e[i] = c[i]
  BY <1>1, <1>3 DEF FilledTo, IsFilled
<1>5. SlotsFit(a.properties, c, Table!NoProperties)
  BY <1>1 DEF FilledTo
<1>6. SlotsFit(a.properties, e, Table!NoProperties)
  <2> DEFINE t == a.properties
             o == Table!NoProperties
  <2> HIDE DEF t, o
  <2>1. SlotsFit(t, c, o)
    BY <1>5 DEF t, o
  <2>2. SlotsFit(t, e, o)
    BY <1>3, <1>4, <2>1, SameElements
  <2> QED BY <2>2 DEF t, o
<1>7. Agrees(a, e, Table!NoProperties)
  BY <1>1, <1>3, <1>6 DEF Agrees, FilledTo
<1> QED BY <1>7 DEF a

LEMMA NothingIs ==
    ASSUME NEW n \in Nat
    PROVE  /\ Table!Nothing(n) \in Seq(Elements) /\ Len(Table!Nothing(n)) = n
           /\ \A i \in 1 .. n : Table!Nothing(n)[i] = Table!Undefined
<1>1. Table!Nothing(n) = [i \in 1 .. n |-> Table!Undefined] /\ Table!Undefined \in Elements
  BY DEF Table!Nothing, Elements
<1> HIDE DEF Elements
<1> QED BY <1>1

\* An array of a length, without elements.
LEMMA LengthAgrees ==
    ASSUME NEW n \in 0 .. MaxLength
    PROVE  Agrees(Table!createLength(n), Table!Nothing(n), Table!NoProperties)
<1> DEFINE e == <<>>
           d == Table!LargerBy(e, n)
           t == Table!NoProperties
<1>1. e \in Seq(Elements) /\ Len(e) = 0 /\ SlotsFit(t, e, t)
  BY EmptyFits
<1>2. n \in Nat /\ n \in Len(e) .. MaxLength
  BY <1>1, ArrayAssumption
<1> HIDE DEF e, t
<1>3. SlotsFit(t, d, t) /\ Len(d) = n
  BY <1>1, <1>2, EndAdded
<1>4. \A i \in 1 .. n : d[i] = Table!Undefined
  <2>1. Table!AtLeast(n, Len(e)) = n
    BY <1>1, <1>2 DEF Table!AtLeast
  <2>2. \A i \in 1 .. n : d[i] = IF i <= Len(e) THEN e[i] ELSE Table!Undefined
    BY <1>1, <1>2, <2>1, LargerIs
  <2> QED BY <1>1, <1>2, <2>2
<1> DEFINE s == Table!Nothing(n)
<1>5. s \in Seq(Elements) /\ Len(s) = n /\ \A i \in 1 .. n : s[i] = Table!Undefined
  BY <1>2, NothingIs
<1> HIDE DEF d, s
<1>6. SlotsFit(t, s, t)
  BY <1>3, <1>4, <1>5, SameElements
<1>7. Agrees(Table!Array(t, n), s, t)
  BY <1>5, <1>6, MadeAgree
<1> QED BY <1>7 DEF Table!createLength, t, s

\* Array(values...).
LEMMA ElementsAgree ==
    ASSUME NEW values \in Seq(PropertyValues), Len(values) \in 1 .. MaxLength
    PROVE  Agrees(Table!createElements(values), values, Table!NoProperties)
<1> DEFINE elements == [i \in 0 .. Len(values) - 1 |-> values[i + 1]]
<1>1. Len(values) \in Nat /\ Len(values) # 0 /\ Len(values) <= MaxLength /\ MaxLength \in Nat
      /\ values \in Seq(Elements)
  <2>1. PropertyValues \subseteq Elements
    BY DEF Elements
  <2> QED BY <2>1, ArrayAssumption
<1>2. DOMAIN elements = 0 .. Len(values) - 1
      /\ \A i \in 0 .. Len(values) - 1 : elements[i] = values[i + 1]
  OBVIOUS
<1>3. Table!createElements(values) = Table!ArrayInitialiser(elements)
  BY DEF Table!createElements
<1> HIDE DEF elements
<1>4. IsLiteral(elements)
  <2>1. DOMAIN elements \subseteq 0 .. MaxLength - 1
    BY <1>1, <1>2
  <2>2. ASSUME NEW i \in DOMAIN elements PROVE elements[i] \in PropertyValues
    <3>1. i + 1 \in 1 .. Len(values) /\ elements[i] = values[i + 1]
      BY <1>1, <1>2
    <3> QED BY <3>1
  <2> QED BY <2>1, <2>2 DEF IsLiteral
<1>5. Len(values) - 1 \in DOMAIN elements
  BY <1>1, <1>2
<1>6. \A i \in 1 .. Len(values) :
        values[i] = IF i - 1 \in DOMAIN elements THEN elements[i - 1] ELSE Table!Undefined
  BY <1>1, <1>2
<1> QED BY <1>1, <1>2, <1>3, <1>4, <1>5, <1>6, LiteralAgrees

\* The literal [, v].
LEMMA GapAgrees ==
    ASSUME NEW v \in PropertyValues
    PROVE  Agrees(Table!ArrayInitialiser([i \in {1} |-> v]), <<Table!Undefined, v>>, Table!NoProperties)
<1> DEFINE elements == [i \in {1} |-> v]
           e == <<Table!Undefined, v>>
<1>1. DOMAIN elements = {1} /\ elements[1] = v
  OBVIOUS
<1>2. e \in Seq(Elements) /\ Len(e) = 2 /\ e[1] = Table!Undefined /\ e[2] = v
  BY DEF Elements
<1> HIDE DEF elements, e
<1>3. IsLiteral(elements)
  BY <1>1, ArrayAssumption DEF IsLiteral
<1>4. /\ Len(e) # 0 /\ DOMAIN elements \subseteq 0 .. Len(e) - 1 /\ Len(e) - 1 \in DOMAIN elements
  BY <1>1, <1>2
<1>5. ASSUME NEW i \in 1 .. Len(e)
      PROVE  e[i] = IF i - 1 \in DOMAIN elements THEN elements[i - 1] ELSE Table!Undefined
  <2>1. i = 1 \/ i = 2
    BY <1>2
  <2>2. CASE i = 1
    BY <1>1, <1>2, <2>2
  <2>3. CASE i = 2
    BY <1>1, <1>2, <2>3
  <2> QED BY <2>1, <2>2, <2>3
<1>6. Agrees(Table!ArrayInitialiser(elements), e, Table!NoProperties)
  BY <1>2, <1>3, <1>4, <1>5, LiteralAgrees
<1> QED BY <1>6 DEF elements, e

LEMMA ValuesAreSequences ==
    ASSUME NEW n \in Nat, NEW s \in [1 .. n -> PropertyValues]
    PROVE  s \in Seq(PropertyValues) /\ Len(s) = n
OBVIOUS

LEMMA ArraysMadeAgree ==
    ASSUME NEW s \in Table!ArraysMade
    PROVE  ArrInv(s)
<1>1. CASE \E n \in 0 .. MaxLength :
             s = Table!Slots(Table!createLength(n), Table!Nothing(n), Table!NoProperties)
  BY <1>1, LengthAgrees, SlotsAgree
<1>2. CASE \E n \in 1 .. MaxLength : \E v \in [1 .. n -> PropertyValues] :
             s = Table!Slots(Table!createElements(v), v, Table!NoProperties)
  <2>1. PICK n \in 1 .. MaxLength : \E v \in [1 .. n -> PropertyValues] :
          s = Table!Slots(Table!createElements(v), v, Table!NoProperties)
    BY <1>2
  <2>2. PICK v \in [1 .. n -> PropertyValues] :
          s = Table!Slots(Table!createElements(v), v, Table!NoProperties)
    BY <2>1
  <2>3. v \in Seq(PropertyValues) /\ Len(v) = n
    <3>1. n \in Nat
      BY ArrayAssumption
    <3> QED BY <3>1, ValuesAreSequences
  <2> QED BY <2>2, <2>3, ElementsAgree, SlotsAgree
<1>3. CASE \E v \in PropertyValues :
             s = Table!Slots(Table!ArrayInitialiser([i \in {1} |-> v]), <<Table!Undefined, v>>,
                             Table!NoProperties)
  BY <1>3, GapAgrees, SlotsAgree
<1> QED BY <1>1, <1>2, <1>3 DEF Table!ArraysMade

\* Values are pushed.
LEMMA PushAgrees ==
    ASSUME NEW a, NEW e, NEW others, Agrees(a, e, others),
           NEW n \in Nat, NEW v \in [1 .. n -> PropertyValues], Len(e) + Len(v) <= MaxLength
    PROVE  Agrees(Table!push(a, v), e \o v, others)
<1>1. a \in Arrays /\ a.lengthM = Len(e) /\ SlotsFit(a.properties, e, others)
  BY DEF Agrees
<1>2. v \in Seq(PropertyValues)
  BY ValuesAreSequences
<1> QED BY <1>1, <1>2, PushKeeps DEF Agrees

\* The last one is popped.
LEMMA PopAgrees ==
    ASSUME NEW a, NEW e, NEW others, Agrees(a, e, others), Len(e) # 0
    PROVE  /\ Agrees(Table!pop(a).state, SubSeq(e, 1, Len(e) - 1), others)
           /\ Table!pop(a).answer = e[Len(e)]
<1> DEFINE n == Len(e) - 1
           name == Table!IndexName(n)
           table == a.properties
           t == Table!deleteProperty(table, name).state
<1>1. /\ a.lengthM = Len(e) /\ Len(e) \in Nat /\ Len(e) <= MaxLength /\ MaxLength \in Nat
      /\ table \in PlainTables /\ SlotsFit(table, e, others)
  BY AgreesIs, ArrayAssumption DEF Agrees
<1>2. n \in 0 .. MaxLength - 1 /\ n \in 0 .. Len(e) /\ n < Len(e) /\ n + 1 = Len(e)
  BY <1>1
<1>3. name \in AllNames /\ Table!IsIndex(name) /\ NameNumbers[name] = n
  <2>1. name \in AllNames /\ Table!IsIndex(name)
    BY <1>2, IndexIs
  <2> QED BY <1>2, <2>1, ArrayAssumption
<1>4. Table!pop(a) = Table!Left(Table!Array(t, n), Table!getProperty(<<table>>, name))
  BY <1>1 DEF Table!pop
<1> HIDE DEF table
<1>5. Table!getProperty(<<table>>, name) = e[n + 1]
  <2>1. Table!getProperty(<<table>>, name) = Reads(table, name)
    <3> HIDE DEF name
    <3> QED BY <1>1, <1>3, PlainOps
  <2>2. Reads(table, Table!IndexName(n)) = e[n + 1]
    <3> HIDE DEF n
    <3> QED BY <1>1, <1>2 DEF SlotsFit, AreElements
  <2> QED BY <2>1, <2>2
<1>6. t = [x \in DOMAIN table \ {name} |-> table[x]]
  <2> HIDE DEF name
  <2> QED BY <1>1, <1>3, PlainOps
<1> HIDE DEF name, t
<1>7. SlotsFit(t, SubSeq(e, 1, n), others) /\ Len(SubSeq(e, 1, n)) = n
  <2>1. \A x \in {name} : Table!IsIndex(x) /\ NameNumbers[x] >= n
    BY <1>2, <1>3
  <2>2. \A i \in n .. Len(e) - 1 : Table!IndexName(i) \in {name} \/ Table!IndexName(i) \notin DOMAIN table
    BY <1>2 DEF name
  <2> HIDE DEF n
  <2>3. EndTaken(table, t, e, n, {name})
    BY <1>6, <2>1, <2>2 DEF EndTaken
  <2> DEFINE d == SubSeq(e, 1, n)
  <2> HIDE DEF d
  <2>4. SlotsFit(t, d, others) /\ Len(d) = n
    BY <1>1, <1>2, <2>3, EndCut DEF d
  <2> QED BY <2>4 DEF d
<1>8. Agrees(Table!Array(t, n), SubSeq(e, 1, n), others)
  <2> DEFINE d == SubSeq(e, 1, n)
  <2> HIDE DEF d, n
  <2>1. SlotsFit(t, d, others) /\ n = Len(d)
    BY <1>7 DEF d
  <2>2. Agrees(Table!Array(t, n), d, others)
    BY <2>1, MadeAgree
  <2> QED BY <2>2 DEF d
<1>9. Table!pop(a).state = Table!Array(t, n) /\ Table!pop(a).answer = e[n + 1]
  BY <1>4, <1>5 DEF Table!Left
<1> QED BY <1>2, <1>8, <1>9

LEMMA PoppedFits ==
    ASSUME NEW s, ArrInv(s)
    PROVE  ArrInv(Table!Popped(s))
<1> DEFINE a == s.array
           e == s.elements
           o == s.others
           p == Table!Popped(s)
<1>1. Agrees(a, e, o)
  BY DEF ArrInv
<1>2. /\ p.array = Table!pop(a).state /\ p.elements = SubSeq(e, 1, Len(e) - 1) /\ p.others = o
      /\ p.answer = Table!pop(a).answer
      /\ p.expected = IF Len(e) = 0 THEN Table!Undefined ELSE e[Len(e)]
  BY DEF Table!Popped
<1> HIDE DEF a, e, o, p
<1>3. CASE Len(e) = 0
  <2>1. a.lengthM = 0 /\ e \in Seq(Elements)
    BY <1>1, <1>3, AgreesIs
  <2>2. Table!pop(a).state = a /\ Table!pop(a).answer = Table!Undefined
    BY <2>1 DEF Table!pop, Table!Left
  <2>3. SubSeq(e, 1, Len(e) - 1) = e
    <3>1. e = <<>>
      BY <1>3, <2>1
    <3>2. SubSeq(<<>>, 1, 0 - 1) = <<>>
      OBVIOUS
    <3> QED BY <1>3, <3>1, <3>2
  <2> QED BY <1>1, <1>2, <1>3, <2>2, <2>3 DEF ArrInv, p
<1>4. CASE Len(e) # 0
  <2>1. Agrees(Table!pop(a).state, SubSeq(e, 1, Len(e) - 1), o) /\ Table!pop(a).answer = e[Len(e)]
    BY <1>1, <1>4, PopAgrees
  <2> QED BY <1>2, <1>4, <2>1 DEF ArrInv, p
<1> QED BY <1>3, <1>4

\* Its length is put.
LEMMA LengthPutAgrees ==
    ASSUME NEW a, NEW e, NEW others, Agrees(a, e, others), NEW n \in 0 .. MaxLength
    PROVE  Agrees(Table!putLength(a, n),
                  IF n < Len(e) THEN SubSeq(e, 1, n) ELSE Table!LargerBy(e, n), others)
<1> DEFINE table == a.properties
           dropped == {x \in DOMAIN table \cap DOMAIN NameNumbers : NameNumbers[x] >= n}
           t == [x \in DOMAIN table \ dropped |-> table[x]]
<1>1. /\ a.lengthM = Len(e) /\ Len(e) \in Nat /\ Len(e) <= MaxLength /\ MaxLength \in Nat /\ n \in Nat
      /\ SlotsFit(table, e, others)
  <2>1. SlotsFit(table, e, others)
    BY DEF Agrees
  <2>2. a.lengthM = Len(e) /\ a.lengthM \in Nat /\ a.lengthM <= MaxLength
    BY AgreesIs
  <2>3. MaxLength \in Nat /\ n \in Nat
    BY ArrayAssumption
  <2> QED BY <2>1, <2>2, <2>3
<1>2. Table!putLength(a, n) = Table!Array(IF n < Len(e) THEN t ELSE table, n)
  BY <1>1 DEF Table!putLength
<1> HIDE DEF table
<1>3. CASE n < Len(e)
  <2> DEFINE d == SubSeq(e, 1, n)
  <2>1. ASSUME NEW x \in dropped PROVE Table!IsIndex(x) /\ NameNumbers[x] >= n
    <3>1. x \in DOMAIN NameNumbers /\ NameNumbers[x] \in Int /\ NameNumbers[x] >= n
      BY ArrayAssumption
    <3> QED BY <1>1, <3>1 DEF Table!IsIndex
  <2>2. ASSUME NEW i \in n .. Len(e) - 1
        PROVE  Table!IndexName(i) \in dropped \/ Table!IndexName(i) \notin DOMAIN table
    <3>1. i \in 0 .. MaxLength - 1 /\ i >= n
      BY <1>1
    <3>2. Table!IndexName(i) \in DOMAIN NameNumbers /\ NameNumbers[Table!IndexName(i)] = i
      BY <3>1, ArrayAssumption
    <3> QED BY <3>1, <3>2
  <2>3. n \in 0 .. Len(e) /\ t = [x \in DOMAIN table \ dropped |-> table[x]]
    BY <1>1, <1>3
  <2> HIDE DEF dropped, t, d
  <2>4. EndTaken(table, t, e, n, dropped)
    BY <2>1, <2>2, <2>3 DEF EndTaken
  <2>5. SlotsFit(t, d, others) /\ Len(d) = n
    BY <1>1, <2>3, <2>4, EndCut DEF d
  <2>6. Agrees(Table!Array(t, n), d, others)
    BY <2>5, MadeAgree
  <2> QED BY <1>2, <1>3, <2>6 DEF d
<1>4. CASE ~(n < Len(e))
  <2> DEFINE d == Table!LargerBy(e, n)
  <2>1. n \in Len(e) .. MaxLength
    BY <1>1, <1>4
  <2> HIDE DEF d
  <2>2. SlotsFit(table, d, others) /\ Len(d) = n
    BY <1>1, <2>1, EndAdded DEF d
  <2>3. Agrees(Table!Array(table, n), d, others)
    BY <2>2, MadeAgree
  <2> QED BY <1>2, <1>4, <2>3 DEF d
<1> QED BY <1>3, <1>4

\* A property is put: an element, or another.
LEMMA PutFits ==
    ASSUME NEW s, ArrInv(s), NEW name \in AllNames, NEW v \in PropertyValues
    PROVE  ArrInv(Table!ElementPut(s, name, v))
<1> DEFINE a == s.array
           e == s.elements
           o == s.others
           table == a.properties
           k == NameNumbers[name]
           t == Table!With(table, name, Table!Property(v, {}))
           with == Table!putPropertyArray(a, name, v)
<1>1. Agrees(a, e, o)
  BY DEF ArrInv
<1>2. /\ SlotsFit(table, e, o) /\ table \in PlainTables /\ a.lengthM = Len(e) /\ Len(e) \in Nat
  <2>1. SlotsFit(table, e, o) /\ a.lengthM = Len(e)
    BY <1>1 DEF Agrees
  <2> QED BY <1>1, <2>1, AgreesIs
<1>3. Table!putProperty(<<table>>, name, v).state[1] = t
  <2> HIDE DEF table
  <2> QED BY <1>2, PlainOps
<1>4. with = Table!Array(t, IF Table!IsIndex(name) THEN Table!AtLeast(k + 1, Len(e)) ELSE Len(e))
  BY <1>2, <1>3 DEF Table!putPropertyArray, Table!IsIndex
<1>5. CASE Table!IsIndex(name)
  <2> DEFINE d == [Table!LargerBy(e, k + 1) EXCEPT ![k + 1] = v]
  <2>1. Table!ElementPut(s, name, v) = Table!Slots(with, d, o)
    BY <1>5 DEF Table!ElementPut
  <2>2. k \in 0 .. MaxLength - 1 /\ name = Table!IndexName(k)
    BY <1>5, IndexIs
  <2>3. t = Table!With(table, Table!IndexName(k), Table!Property(v, {}))
    BY <2>2
  <2> HIDE DEF a, e, o, table, k, t, with
  <2>4. d = [Table!LargerBy(e, k + 1) EXCEPT ![k + 1] = v]
    OBVIOUS
  <2> HIDE DEF d
  <2>5. SlotsFit(t, d, o) /\ IsPutAt(e, d, k, v)
    BY <1>2, <2>2, <2>3, <2>4, IndexPut
  <2>6. Len(d) = Table!AtLeast(k + 1, Len(e))
    BY <2>5 DEF IsPutAt
  <2>7. Agrees(with, d, o)
    BY <1>4, <1>5, <2>5, <2>6, MadeAgree
  <2> QED BY <2>1, <2>7, SlotsAgree
<1>6. CASE ~Table!IsIndex(name)
  <2> DEFINE p == Table!With(o, name, Table!Property(v, {}))
  <2>1. Table!ElementPut(s, name, v) = Table!Slots(with, e, p)
    BY <1>6 DEF Table!ElementPut
  <2> HIDE DEF a, e, o, table, k, with
  <2>2. t = Table!With(table, name, Table!Property(v, {})) /\ p = Table!With(o, name, Table!Property(v, {}))
    OBVIOUS
  <2> HIDE DEF t, p
  <2>3. SlotsFit(t, e, p)
    BY <1>2, <1>6, <2>2, OtherPut
  <2>4. Agrees(with, e, p)
    BY <1>4, <1>6, <2>3, MadeAgree
  <2> QED BY <2>1, <2>4, SlotsAgree
<1> QED BY <1>5, <1>6

\* ... or deleted.
LEMMA DeletedFits ==
    ASSUME NEW s, ArrInv(s), NEW name \in AllNames
    PROVE  ArrInv(Table!ElementDeleted(s, name))
<1> DEFINE a == s.array
           e == s.elements
           o == s.others
           table == a.properties
           t == [n \in DOMAIN table \ {name} |-> table[n]]
           without == [a EXCEPT !.properties = Table!deleteProperty(@, name).state]
<1>1. Agrees(a, e, o)
  BY DEF ArrInv
<1>2. /\ SlotsFit(table, e, o) /\ table \in PlainTables /\ a.lengthM = Len(e) /\ Len(e) \in Nat
      /\ a = Table!Array(table, a.lengthM)
  <2>1. SlotsFit(table, e, o) /\ a.lengthM = Len(e)
    BY <1>1 DEF Agrees
  <2> QED BY <1>1, <2>1, AgreesIs
<1>3. Table!deleteProperty(table, name).state = t
  <2> HIDE DEF table
  <2> QED BY <1>2, PlainOps
<1>4. without = Table!Array(t, Len(e))
  <2> DEFINE d == Table!deleteProperty(table, name).state
  <2>1. a = [properties |-> table, lengthM |-> Len(e)]
    BY <1>2 DEF Table!Array
  <2>2. without = [a EXCEPT !.properties = d]
    OBVIOUS
  <2> HIDE DEF d, a, table, without
  <2>3. without = [properties |-> d, lengthM |-> Len(e)]
    BY <2>1, <2>2
  <2> QED BY <1>3, <2>3 DEF Table!Array, d
<1>5. CASE Table!IsIndex(name)
  <2> DEFINE d == [i \in DOMAIN e |-> IF i = NameNumbers[name] + 1 THEN Table!Undefined ELSE e[i]]
  <2>1. Table!ElementDeleted(s, name) = Table!Slots(without, d, o)
    BY <1>5 DEF Table!ElementDeleted
  <2> HIDE DEF a, e, o, table, without
  <2>2. Clears(table, t, e, d, name)
    BY DEF Clears
  <2> HIDE DEF t, d
  <2>3. SlotsFit(t, d, o) /\ Len(d) = Len(e)
    BY <1>2, <1>5, <2>2, IndexDeleted
  <2>4. Agrees(without, d, o)
    BY <1>4, <2>3, MadeAgree
  <2> QED BY <2>1, <2>4, SlotsAgree
<1>6. CASE ~Table!IsIndex(name)
  <2> DEFINE p == [n \in DOMAIN o \ {name} |-> o[n]]
  <2>1. Table!ElementDeleted(s, name) = Table!Slots(without, e, p)
    BY <1>6 DEF Table!ElementDeleted, Table!Without
  <2> HIDE DEF a, e, o, table, without
  <2>2. t = [n \in DOMAIN table \ {name} |-> table[n]] /\ p = [n \in DOMAIN o \ {name} |-> o[n]]
    OBVIOUS
  <2> HIDE DEF t, p
  <2>3. SlotsFit(t, e, p)
    BY <1>2, <1>6, <2>2, OtherDeleted
  <2>4. Agrees(without, e, p)
    BY <1>4, <2>3, MadeAgree
  <2> QED BY <2>1, <2>4, SlotsAgree
<1> QED BY <1>5, <1>6

LEMMA ArrayChangedFits ==
    ASSUME NEW s, ArrInv(s), NEW n \in Table!ArrayChanged(s)
    PROVE  ArrInv(n)
<1> DEFINE a == s.array
           e == s.elements
           o == s.others
           Some == UNION {[1 .. k -> PropertyValues] : k \in 1 .. 2}
           Names == {PropertyNames[i] : i \in DOMAIN PropertyNames}
<1>1. Agrees(a, e, o)
  BY DEF ArrInv
<1>2. CASE \E v \in Some : Len(e) + Len(v) <= MaxLength /\ n = Table!Slots(Table!push(a, v), e \o v, o)
  <2>1. PICK v \in Some : Len(e) + Len(v) <= MaxLength /\ n = Table!Slots(Table!push(a, v), e \o v, o)
    BY <1>2
  <2>2. PICK k \in 1 .. 2 : v \in [1 .. k -> PropertyValues]
    BY <2>1
  <2> HIDE DEF a, e, o
  <2>3. Agrees(Table!push(a, v), e \o v, o)
    <3>1. k \in Nat
      BY <2>2
    <3> QED BY <1>1, <2>1, <2>2, <3>1, PushAgrees
  <2> QED BY <2>1, <2>3, SlotsAgree
<1>3. CASE n = Table!Popped(s)
  BY <1>3, PoppedFits
<1>4. CASE \E k \in 0 .. MaxLength :
             n = Table!Slots(Table!putLength(a, k),
                             IF k < Len(e) THEN SubSeq(e, 1, k) ELSE Table!LargerBy(e, k), o)
  <2> HIDE DEF a, e, o
  <2> QED BY <1>1, <1>4, LengthPutAgrees, SlotsAgree
<1>5. CASE \E name \in Names : \/ \E v \in PropertyValues : n = Table!ElementPut(s, name, v)
                               \/ n = Table!ElementDeleted(s, name)
  <2>1. Names \subseteq AllNames
    BY DEF AllNames
  <2> HIDE DEF Names
  <2> QED BY <1>5, <2>1, PutFits, DeletedFits
<1>6. n \in {Table!Slots(Table!push(a, v), e \o v, o) : v \in {v \in Some : Len(e) + Len(v) <= MaxLength}}
            \cup {Table!Popped(s)}
            \cup {Table!Slots(Table!putLength(a, k),
                    IF k < Len(e) THEN SubSeq(e, 1, k) ELSE Table!LargerBy(e, k), o) : k \in 0 .. MaxLength}
            \cup UNION {{Table!ElementPut(s, name, v) : v \in PropertyValues}
                         \cup {Table!ElementDeleted(s, name)} : name \in Names}
  BY DEF Table!ArrayChanged
<1> HIDE DEF a, e, o, Some, Names
<1> QED BY <1>2, <1>3, <1>4, <1>5, <1>6

\* What a script reads.
LEMMA AgreeingIsSequence ==
    ASSUME NEW s, ArrInv(s)
    PROVE  Table!IsSequence(s)
<1> DEFINE table == s.array.properties
           e == s.elements
           o == s.others
<1>1. /\ table \in PlainTables /\ o \in PlainTables /\ s.array.lengthM = Len(e)
      /\ AreElements(table, e) /\ AreOthers(table, o) /\ s.answer = s.expected
  BY DEF ArrInv, Agrees, SlotsFit
<1> HIDE DEF table, e, o
<1>2. ASSUME NEW i \in 0 .. MaxLength - 1
      PROVE  Table!getProperty(<<table>>, Table!IndexName(i)) =
                IF i < Len(e) THEN e[i + 1] ELSE Table!Undefined
  <2>1. Table!getProperty(<<table>>, Table!IndexName(i)) = Reads(table, Table!IndexName(i))
    <3> DEFINE name == Table!IndexName(i)
    <3>1. name \in AllNames
      BY IndexIs
    <3> HIDE DEF name
    <3>2. Table!getProperty(<<table>>, name) = Reads(table, name)
      BY <1>1, <3>1, PlainOps
    <3> QED BY <3>2 DEF name
  <2>2. Reads(table, Table!IndexName(i)) = IF i < Len(e) THEN e[i + 1] ELSE Table!Undefined
    BY <1>1 DEF AreElements, Reads
  <2> QED BY <2>1, <2>2
<1>3. ASSUME NEW name \in {PropertyNames[i] : i \in DOMAIN PropertyNames}
      PROVE  Table!IsIndex(name) \/ Table!getProperty(<<table>>, name) = Table!getProperty(<<o>>, name)
  <2>1. name \in AllNames
    BY DEF AllNames
  <2>2. Table!getProperty(<<table>>, name) = Reads(table, name) /\ Table!getProperty(<<o>>, name) = Reads(o, name)
    BY <1>1, <2>1, PlainOps
  <2> QED BY <1>1, <2>1, <2>2 DEF AreOthers
<1> QED BY <1>1, <1>2, <1>3 DEF Table!IsSequence, table, e, o

\* The inductive invariant of ArraySpec.
ArrayInv == subject.kind = "array" /\ ArrInv(result)

LEMMA ArrayInvInit == ArrayInit => ArrayInv
<1> SUFFICES ASSUME ArrayInit PROVE ArrayInv
  OBVIOUS
<1>1. subject.kind = "array" /\ result \in Table!ArraysMade
  BY DEF ArrayInit
<1> QED BY <1>1, ArraysMadeAgree DEF ArrayInv

LEMMA ArrayInvStep == ArrayInv /\ [UseArray]_<<subject, result>> => ArrayInv'
<1> SUFFICES ASSUME ArrayInv, [UseArray]_<<subject, result>> PROVE ArrayInv'
  OBVIOUS
<1>1. CASE UseArray
  <2>1. result' \in Table!ArrayChanged(result) /\ subject' = subject /\ ArrInv(result)
    BY <1>1 DEF UseArray, ArrayInv
  <2> DEFINE n == result'
  <2>2. ArrInv(n)
    <3> HIDE DEF n
    <3> QED BY <2>1, ArrayChangedFits DEF n
  <2> QED BY <2>1, <2>2 DEF ArrayInv, ArrInv
<1>2. CASE UNCHANGED <<subject, result>>
  BY <1>2 DEF ArrayInv, ArrInv
<1> QED BY <1>1, <1>2

LEMMA ArrayInvSafe == ArrayInv => ArraysAreSequences
BY AgreeingIsSequence DEF ArrayInv, ArraysAreSequences

\* What a script does to an array by push, pop, an index, another name,
\* delete or its length (JsScriptObjectArray.cpp) keeps it a sequence: the
\* length counts the elements, each index reads its own, none is left behind
\* the end, pop gives the last one, and the properties that are no elements
\* stay.
THEOREM ArraysStaySequences == ArraySpec => []ArraysAreSequences
<1>1. ArraySpec => []ArrayInv
  BY ArrayInvInit, ArrayInvStep, PTL DEF ArraySpec
<1> QED BY <1>1, ArrayInvSafe, PTL

-------------------------------------------------------------------------------
(*                External objects: names and sorted tables                *)

NameSet == {PropertyNames[i] : i \in DOMAIN PropertyNames}

\* How many names there are.
LastRank == Len(PropertyNames)

LEMMA NamesAre ==
    /\ LastRank \in Nat /\ LastRank >= 4 /\ DOMAIN PropertyNames = 1 .. LastRank
    /\ \A i \in 1 .. LastRank : PropertyNames[i] \in NameSet /\ PropertyNames[i] # ""
    /\ \A i, j \in 1 .. LastRank : PropertyNames[i] = PropertyNames[j] => i = j
    /\ \A name \in NameSet : \E i \in 1 .. LastRank : name = PropertyNames[i]
<1>1. LastRank \in Nat /\ DOMAIN PropertyNames = 1 .. LastRank
  <2>1. PropertyNames \in Seq({PropertyNames[i] : i \in DOMAIN PropertyNames})
    BY NameAssumption
  <2> QED BY <2>1 DEF LastRank
<1>2. LastRank >= 4
  BY NameAssumption DEF LastRank
<1>3. \A i \in DOMAIN PropertyNames : PropertyNames[i] # ""
  BY NameAssumption
<1>4. \A i, j \in DOMAIN PropertyNames : PropertyNames[i] = PropertyNames[j] => i = j
  BY NameAssumption
<1> QED BY <1>1, <1>2, <1>3, <1>4 DEF NameSet

\* The rank of a name is its place.
LEMMA RankOf ==
    ASSUME NEW i \in 1 .. LastRank
    PROVE  Table!Rank(PropertyNames[i]) = i
<1> DEFINE ranks == {j \in 1 .. LastRank : PropertyNames[j] = PropertyNames[i]}
<1>1. ranks = {i}
  BY NamesAre
<1>2. Table!Rank(PropertyNames[i]) = CHOOSE j \in 1 .. LastRank : PropertyNames[j] = PropertyNames[i]
  BY NamesAre DEF Table!Rank
<1> QED BY <1>1, <1>2

LEMMA LastRankIs == LastRank \in Nat /\ LastRank >= 4
BY NamesAre

LEMMA RankIs ==
    /\ LastRank \in Nat /\ LastRank >= 4
    /\ \A i \in 1 .. LastRank : PropertyNames[i] \in NameSet /\ Table!Rank(PropertyNames[i]) = i
                               /\ PropertyNames[i] # ""
    /\ \A name \in NameSet :
          /\ Table!Rank(name) \in 1 .. LastRank /\ PropertyNames[Table!Rank(name)] = name
          /\ name # ""
<1>1. ASSUME NEW name \in NameSet
      PROVE  /\ Table!Rank(name) \in 1 .. LastRank /\ PropertyNames[Table!Rank(name)] = name
             /\ name # ""
  <2>1. PICK i \in 1 .. LastRank : name = PropertyNames[i]
    BY NamesAre
  <2>2. Table!Rank(name) = i /\ name # ""
    BY <2>1, NamesAre, RankOf
  <2> QED BY <2>1, <2>2
<1>2. \A i \in 1 .. LastRank : Table!Rank(PropertyNames[i]) = i
  BY RankOf
<1> QED BY NamesAre, <1>1, <1>2

\* t has the members of S among the first n names, in their order.
Sorted(t, S, n) ==
    /\ t \in Seq(NameSet)
    /\ \A p \in 1 .. Len(t) : t[p] \in S /\ Table!Rank(t[p]) <= n
    /\ \A p, q \in 1 .. Len(t) : p < q => Table!Rank(t[p]) < Table!Rank(t[q])
    /\ \A i \in 1 .. n : PropertyNames[i] \in S => \E p \in 1 .. Len(t) : t[p] = PropertyNames[i]

SortedOne(t, S, k) == IF PropertyNames[k] \in S THEN Append(t, PropertyNames[k]) ELSE t

LEMMA SortsOne ==
    ASSUME NEW t, NEW S, NEW n \in 0 .. LastRank - 1, Sorted(t, S, n)
    PROVE  Sorted(SortedOne(t, S, n + 1), S, n + 1)
<1>1. n \in Nat /\ n + 1 \in 1 .. LastRank /\ t \in Seq(NameSet) /\ Len(t) \in Nat
  <2>1. t \in Seq(NameSet)
    BY DEF Sorted
  <2> QED BY <2>1, LastRankIs
<1>2. ASSUME NEW p \in 1 .. Len(t)
      PROVE  Table!Rank(t[p]) \in 1 .. LastRank /\ Table!Rank(t[p]) <= n /\ t[p] \in S
  <2>1. t[p] \in NameSet
    BY <1>1
  <2> QED BY <2>1, RankIs DEF Sorted
<1>3. CASE PropertyNames[n + 1] \notin S
  <2>1. SortedOne(t, S, n + 1) = t
    BY <1>3 DEF SortedOne
  <2>2. \A p \in 1 .. Len(t) : t[p] \in S /\ Table!Rank(t[p]) <= n + 1
    BY <1>1, <1>2, LastRankIs
  <2>3. ASSUME NEW i \in 1 .. n + 1, PropertyNames[i] \in S
        PROVE  \E p \in 1 .. Len(t) : t[p] = PropertyNames[i]
    <3>1. i \in 1 .. n
      BY <1>1, <1>3, <2>3
    <3> QED BY <2>3, <3>1 DEF Sorted
  <2>4. \A p, q \in 1 .. Len(t) : p < q => Table!Rank(t[p]) < Table!Rank(t[q])
    BY DEF Sorted
  <2> QED BY <1>1, <2>1, <2>2, <2>3, <2>4 DEF Sorted
<1>4. CASE PropertyNames[n + 1] \in S
  <2> DEFINE name == PropertyNames[n + 1]
             d == Append(t, name)
  <2>1. SortedOne(t, S, n + 1) = d
    BY <1>4 DEF SortedOne
  <2>2. name \in NameSet /\ Table!Rank(name) = n + 1 /\ name \in S
    BY <1>1, <1>4, RankIs
  <2> HIDE DEF name
  <2>3. d \in Seq(NameSet) /\ Len(d) = Len(t) + 1 /\ d[Len(t) + 1] = name
        /\ \A p \in 1 .. Len(t) : d[p] = t[p]
    BY <1>1, <2>2
  <2> HIDE DEF d
  <2>4. ASSUME NEW p \in 1 .. Len(d) PROVE d[p] \in S /\ Table!Rank(d[p]) <= n + 1
    <3>1. CASE p = Len(t) + 1
      BY <1>1, <2>2, <2>3, <3>1
    <3>2. CASE p # Len(t) + 1
      <4>1. p \in 1 .. Len(t)
        BY <1>1, <2>3, <3>2
      <4>2. t[p] \in S /\ Table!Rank(t[p]) <= n /\ Table!Rank(t[p]) \in Nat
        BY <1>2, <4>1 DEF Sorted
      <4> QED BY <1>1, <2>3, <4>1, <4>2
    <3> QED BY <3>1, <3>2
  <2>5. ASSUME NEW p \in 1 .. Len(d), NEW q \in 1 .. Len(d), p < q
        PROVE  Table!Rank(d[p]) < Table!Rank(d[q])
    <3>1. p \in 1 .. Len(t)
      BY <1>1, <2>3, <2>5
    <3>2. d[p] = t[p] /\ Table!Rank(t[p]) <= n /\ Table!Rank(t[p]) \in Nat
      BY <1>2, <2>3, <3>1 DEF Sorted
    <3>3. CASE q = Len(t) + 1
      BY <1>1, <2>2, <2>3, <3>2, <3>3
    <3>4. CASE q # Len(t) + 1
      <4>1. q \in 1 .. Len(t)
        BY <1>1, <2>3, <3>4
      <4> QED BY <2>3, <2>5, <3>1, <3>2, <4>1 DEF Sorted
    <3> QED BY <3>3, <3>4
  <2>6. ASSUME NEW i \in 1 .. n + 1, PropertyNames[i] \in S
        PROVE  \E p \in 1 .. Len(d) : d[p] = PropertyNames[i]
    <3>1. CASE i = n + 1
      <4>1. Len(t) + 1 \in 1 .. Len(d)
        BY <1>1, <2>3
      <4> QED BY <2>3, <3>1, <4>1 DEF name
    <3>2. CASE i # n + 1
      <4>1. i \in 1 .. n
        BY <1>1, <3>2
      <4>2. PICK p \in 1 .. Len(t) : t[p] = PropertyNames[i]
        BY <2>6, <4>1 DEF Sorted
      <4>3. p \in 1 .. Len(d) /\ d[p] = t[p]
        BY <1>1, <2>3
      <4> QED BY <4>2, <4>3
    <3> QED BY <3>1, <3>2
  <2> QED BY <2>1, <2>3, <2>4, <2>5, <2>6 DEF Sorted
<1> QED BY <1>3, <1>4

\* The table of descriptors is sorted.
LEMMA DescriptorsSorted ==
    ASSUME NEW o
    PROVE  Sorted(Table!PropertyDescriptorsC(o), DOMAIN o.methods, LastRank)
<1> DEFINE N == LastRank
           S == DOMAIN o.methods
           A == Seq(NameSet)
           a == <<>>
           F(m) == [n \in 0 .. N |-> IF n = 0 THEN a ELSE SortedOne(m[n - 1], S, n)]
           b == CHOOSE m : m = F(m)
           step == [k \in 1 .. N |-> [x \in A |-> SortedOne(x, S, k)]]
<1>1. N \in Nat /\ a \in A
  BY LastRankIs
<1>2. step \in [1 .. N -> [A -> A]]
  <2>1. ASSUME NEW k \in 1 .. N, NEW x \in A PROVE SortedOne(x, S, k) \in A
    <3>1. PropertyNames[k] \in NameSet
      BY RankIs
    <3> QED BY <3>1 DEF SortedOne
  <2> HIDE DEF N, A
  <2> QED BY <2>1
<1>3. \A k \in 1 .. N : \A x \in A : step[k][x] = SortedOne(x, S, k)
  OBVIOUS
<1>4. Table!PropertyDescriptorsC(o) = b[N]
  BY DEF Table!PropertyDescriptorsC, SortedOne, LastRank
<1> HIDE DEF step, b, N, A, a, S
<1>5. PICK f : IsRun(f, A, a, N, step)
  BY <1>1, <1>2, RunExists
<1>6. f = F(f)
  <2>1. \A k \in 0 .. N : f[k] = IF k = 0 THEN a ELSE SortedOne(f[k - 1], S, k)
    <3>1. \A k \in 0 .. N : k = 0 \/ k \in 1 .. N
      BY <1>1
    <3> QED BY <1>3, <1>5, <3>1 DEF IsRun
  <2>2. [k \in 0 .. N |-> f[k]] = F(f)
    BY <2>1
  <2> QED BY <1>5, <2>2 DEF IsRun
<1>7. b = F(b)
  <2> HIDE DEF F
  <2> QED BY <1>6 DEF b
<1>8. b[0] = a /\ \A k \in 1 .. N : b[k] = SortedOne(b[k - 1], S, k)
  BY <1>1, <1>7
<1> HIDE DEF F
<1> DEFINE T == {k \in Nat : k <= N => Sorted(b[k], S, k)}
<1>9. 0 \in T
  <2>1. b[0] \in Seq(NameSet) /\ Len(b[0]) = 0
    BY <1>8 DEF a
  <2> QED BY <2>1 DEF Sorted
<1>10. ASSUME NEW k \in Nat, k \in T PROVE k + 1 \in T
  <2> SUFFICES ASSUME k + 1 <= N PROVE Sorted(b[k + 1], S, k + 1)
    OBVIOUS
  <2>1. k \in 0 .. LastRank - 1 /\ k + 1 \in 1 .. N /\ (k + 1) - 1 = k /\ Sorted(b[k], S, k)
    BY <1>1, <1>10 DEF N
  <2>2. b[k + 1] = SortedOne(b[k], S, k + 1)
    BY <1>8, <2>1
  <2> DEFINE t == b[k]
  <2> HIDE DEF t
  <2>3. Sorted(SortedOne(t, S, k + 1), S, k + 1)
    BY <2>1, SortsOne DEF t
  <2> QED BY <2>2, <2>3 DEF t
<1>11. Nat \subseteq T
  <2> HIDE DEF T
  <2> QED BY <1>9, <1>10, Steps
<1>12. Sorted(b[N], S, N)
  BY <1>1, <1>11
<1> QED BY <1>4, <1>12 DEF N, S

-------------------------------------------------------------------------------
(*                               The searches                              *)

\* The place of a name in a table, or 0.
IsPlace(t, name, w) ==
    IF \E p \in 1 .. Len(t) : t[p] = name THEN w \in 1 .. Len(t) /\ t[w] = name ELSE w = 0

\* What a search among the places from base to last finds, if w is the one.
PlaceIn(w, base, last) == IF base <= w /\ w <= last THEN w ELSE 0

Middle(base, last) == base + (last - base) \div 2

LEMMA MiddleIs ==
    ASSUME NEW base \in Nat, NEW last \in Nat, base <= last
    PROVE  Middle(base, last) \in base .. last
<1> DEFINE d == last - base
<1>1. d \in Nat /\ last = base + d
  OBVIOUS
<1> HIDE DEF d
<1>2. d \div 2 \in 0 .. d
  BY <1>1
<1> DEFINE h == d \div 2
<1>3. Middle(base, last) = base + h
  BY DEF Middle, d
<1>4. h \in 0 .. d
  BY <1>2
<1> HIDE DEF h
<1> QED BY <1>1, <1>3, <1>4

\* One step of bsearch, with what it finds below and above.
PlaceStep(t, name, base, last, below, above) ==
    LET p == Middle(base, last)
    IN  IF last < base THEN 0
        ELSE IF t[p] = name THEN p
        ELSE IF Table!Rank(name) < Table!Rank(t[p]) THEN below ELSE above

\* The ranks in a table grow with the places.
RanksGrow(t) ==
    /\ t \in Seq(NameSet)
    /\ \A p \in 1 .. Len(t) : Table!Rank(t[p]) \in 1 .. LastRank
    /\ \A p, q \in 1 .. Len(t) : p < q => Table!Rank(t[p]) < Table!Rank(t[q])

LEMMA SortedRanksGrow ==
    ASSUME NEW t, NEW S, Sorted(t, S, LastRank)
    PROVE  RanksGrow(t)
<1>1. t \in Seq(NameSet)
  BY DEF Sorted
<1>2. ASSUME NEW p \in 1 .. Len(t) PROVE Table!Rank(t[p]) \in 1 .. LastRank
  <2>1. t[p] \in NameSet
    BY <1>1
  <2> QED BY <2>1, RankIs
<1> QED BY <1>1, <1>2 DEF RanksGrow, Sorted

LEMMA PlaceStepIs ==
    ASSUME NEW t, RanksGrow(t), NEW name \in NameSet, NEW w, IsPlace(t, name, w),
           NEW base \in 1 .. Len(t) + 1, NEW last \in 0 .. Len(t)
    PROVE  LET p == Middle(base, last)
           IN  PlaceStep(t, name, base, last, PlaceIn(w, base, p - 1), PlaceIn(w, p + 1, last))
                 = PlaceIn(w, base, last)
<1> DEFINE p == Middle(base, last)
           rank == Table!Rank(name)
<1>1. t \in Seq(NameSet) /\ Len(t) \in Nat /\ rank \in Nat
  <2>1. rank \in 1 .. LastRank
    BY RankIs
  <2>2. t \in Seq(NameSet)
    BY DEF RanksGrow
  <2> QED BY <2>1, <2>2, LastRankIs
<1>2. w \in Nat /\ w <= Len(t)
  BY <1>1 DEF IsPlace
<1>3. CASE last < base
  BY <1>1, <1>2, <1>3 DEF PlaceStep, PlaceIn
<1>4. CASE base <= last
  <2>1. p \in base .. last /\ p \in 1 .. Len(t)
    <3>1. p \in base .. last
      BY <1>1, <1>4, MiddleIs
    <3> HIDE DEF p
    <3> QED BY <1>1, <3>1
  <2>2. PlaceStep(t, name, base, last, PlaceIn(w, base, p - 1), PlaceIn(w, p + 1, last))
          = IF t[p] = name THEN p
            ELSE IF rank < Table!Rank(t[p]) THEN PlaceIn(w, base, p - 1) ELSE PlaceIn(w, p + 1, last)
    BY <1>1, <1>4 DEF PlaceStep
  <2>3. w # 0 => w \in 1 .. Len(t) /\ t[w] = name /\ Table!Rank(t[w]) = rank
    BY <1>1, <1>2 DEF IsPlace
  <2>4. t[p] = name => w # 0
    BY <2>1 DEF IsPlace
  <2>5. t[p] # name => w # p \/ w = 0
    BY <2>3
  <2>6. \A q, r \in 1 .. Len(t) : q < r => Table!Rank(t[q]) < Table!Rank(t[r])
    BY DEF RanksGrow
  <2>7. Table!Rank(t[p]) \in Nat
    BY <2>1, LastRankIs DEF RanksGrow
  <2> HIDE DEF p, rank
  <2>8. CASE t[p] = name
    <3>1. w # 0 /\ w \in 1 .. Len(t) /\ t[w] = t[p]
      BY <2>3, <2>4, <2>8
    <3>2. ~(w < p) /\ ~(p < w)
      <4>1. w < p => Table!Rank(t[w]) < Table!Rank(t[p])
        BY <2>1, <2>6, <3>1
      <4>2. p < w => Table!Rank(t[p]) < Table!Rank(t[w])
        BY <2>1, <2>6, <3>1
      <4> QED BY <2>7, <3>1, <4>1, <4>2
    <3>3. w = p
      BY <1>1, <2>1, <3>1, <3>2
    <3> QED BY <2>1, <2>2, <2>8, <3>3 DEF PlaceIn, p
  <2>9. CASE t[p] # name /\ w = 0
    BY <1>1, <2>1, <2>2, <2>9 DEF PlaceIn, p
  <2>10. CASE t[p] # name /\ w # 0
    <3>1. w \in 1 .. Len(t) /\ Table!Rank(t[w]) = rank /\ w # p
      BY <2>3, <2>5, <2>10
    <3>2. w < p => rank < Table!Rank(t[p])
      BY <2>1, <2>6, <3>1
    <3>3. p < w => Table!Rank(t[p]) < rank
      BY <2>1, <2>6, <3>1
    <3>4. CASE w < p
      <4>1. PlaceIn(w, base, p - 1) = PlaceIn(w, base, last)
        BY <1>1, <2>1, <3>1, <3>4 DEF PlaceIn
      <4> QED BY <2>2, <2>10, <3>2, <3>4, <4>1 DEF p
    <3>5. CASE p < w
      <4>1. PlaceIn(w, p + 1, last) = PlaceIn(w, base, last)
        BY <1>1, <2>1, <3>1, <3>5 DEF PlaceIn
      <4>2. ~(rank < Table!Rank(t[p]))
        BY <1>1, <2>7, <3>3, <3>5
      <4> QED BY <2>2, <2>10, <4>1, <4>2 DEF p
    <3>6. w < p \/ p < w
      BY <1>1, <2>1, <3>1
    <3> QED BY <3>4, <3>5, <3>6
  <2> QED BY <2>8, <2>9, <2>10
<1>5. last < base \/ base <= last
  BY <1>1
<1> QED BY <1>3, <1>4, <1>5

LEMMA PlaceStepBy ==
    ASSUME NEW t, RanksGrow(t), NEW name \in NameSet, NEW w, IsPlace(t, name, w),
           NEW base \in 1 .. Len(t) + 1, NEW last \in 0 .. Len(t), NEW below, NEW above,
           base <= last => /\ below = PlaceIn(w, base, Middle(base, last) - 1)
                           /\ above = PlaceIn(w, Middle(base, last) + 1, last)
    PROVE  PlaceStep(t, name, base, last, below, above) = PlaceIn(w, base, last)
<1> DEFINE p == Middle(base, last)
<1>1. PlaceStep(t, name, base, last, PlaceIn(w, base, p - 1), PlaceIn(w, p + 1, last))
        = PlaceIn(w, base, last)
  BY PlaceStepIs
<1> HIDE DEF p
<1>2. CASE base <= last
  <2>1. below = PlaceIn(w, base, p - 1) /\ above = PlaceIn(w, p + 1, last)
    BY <1>2 DEF p
  <2> QED BY <1>1, <2>1
<1>3. CASE ~(base <= last)
  <2>1. Len(t) \in Nat
    BY DEF RanksGrow
  <2>2. last < base
    BY <1>3, <2>1
  <2>3. PlaceStep(t, name, base, last, below, above) = 0
    BY <2>2 DEF PlaceStep
  <2>4. PlaceIn(w, base, last) = 0
    <3>1. w \in Nat
      BY <2>1 DEF IsPlace
    <3> QED BY <2>1, <2>2, <3>1 DEF PlaceIn
  <2> QED BY <2>3, <2>4
<1> QED BY <1>2, <1>3

\* What is left below and above the middle are fewer places.
Spans(t) == (1 .. Len(t) + 1) \X (0 .. Len(t))
Width(s) == s[2] - s[1] + 1

LEMMA Halves ==
    ASSUME NEW t, RanksGrow(t), NEW s \in Spans(t), s[1] <= s[2]
    PROVE  LET p == Middle(s[1], s[2])
           IN  /\ p \in 1 .. Len(t)
               /\ <<s[1], p - 1>> \in Spans(t) /\ Width(<<s[1], p - 1>>) < Width(s)
               /\ <<p + 1, s[2]>> \in Spans(t) /\ Width(<<p + 1, s[2]>>) < Width(s)
<1> DEFINE p == Middle(s[1], s[2])
<1>1. Len(t) \in Nat
  BY DEF RanksGrow
<1>2. s[1] \in 1 .. Len(t) + 1 /\ s[2] \in 0 .. Len(t)
  BY DEF Spans
<1>3. p \in s[1] .. s[2]
  <2>1. s[1] \in Nat /\ s[2] \in Nat
    BY <1>1, <1>2
  <2> QED BY <2>1, MiddleIs
<1> HIDE DEF p
<1>4. p \in 1 .. Len(t) /\ p - 1 \in 0 .. Len(t) /\ p + 1 \in 1 .. Len(t) + 1
  BY <1>1, <1>2, <1>3
<1>5. <<s[1], p - 1>> \in Spans(t) /\ <<p + 1, s[2]>> \in Spans(t)
  BY <1>2, <1>4 DEF Spans
<1>6. Width(<<s[1], p - 1>>) < Width(s) /\ Width(<<p + 1, s[2]>>) < Width(s)
  BY <1>1, <1>2, <1>3, <1>4 DEF Width
<1> QED BY <1>4, <1>5, <1>6 DEF p

\* A search by halves finds the name.
LEMMA SearchFinds ==
    ASSUME NEW o, RanksGrow(Table!PropertyDescriptorsC(o)), NEW name \in NameSet,
           NEW w, IsPlace(Table!PropertyDescriptorsC(o), name, w)
    PROVE  Table!bsearch(o, name) = w
<1> DEFINE t == Table!PropertyDescriptorsC(o)
           D == Spans(t)
           Mid(s) == Middle(s[1], s[2])
           One(f, s) == PlaceStep(t, name, s[1], s[2], f[<<s[1], Mid(s) - 1>>], f[<<Mid(s) + 1, s[2]>>])
           F(f) == [s \in D |-> One(f, s)]
           b == CHOOSE f : f = F(f)
           g == [s \in D |-> PlaceIn(w, s[1], s[2])]
<1>1. Table!bsearch(o, name) = b[<<1, Len(t)>>]
  BY DEF Table!bsearch, PlaceStep, Middle, Spans
<1>2. RanksGrow(t) /\ IsPlace(t, name, w) /\ Len(t) \in Nat
  BY DEF RanksGrow
<1>3. \A s \in D : g[s] = PlaceIn(w, s[1], s[2])
  OBVIOUS
<1>4. \A f : F(f) = [s \in D |-> One(f, s)]
  OBVIOUS
<1>5. ASSUME NEW f, NEW s \in D,
             s[1] <= s[2] => /\ f[<<s[1], Mid(s) - 1>>] = PlaceIn(w, s[1], Mid(s) - 1)
                             /\ f[<<Mid(s) + 1, s[2]>>] = PlaceIn(w, Mid(s) + 1, s[2])
      PROVE  One(f, s) = PlaceIn(w, s[1], s[2])
  <2>1. s[1] \in 1 .. Len(t) + 1 /\ s[2] \in 0 .. Len(t)
    BY DEF Spans
  <2> DEFINE x == f[<<s[1], Mid(s) - 1>>]
             y == f[<<Mid(s) + 1, s[2]>>]
  <2>2. s[1] <= s[2] => /\ x = PlaceIn(w, s[1], Middle(s[1], s[2]) - 1)
                        /\ y = PlaceIn(w, Middle(s[1], s[2]) + 1, s[2])
    BY <1>5
  <2> HIDE DEF t, x, y
  <2>3. PlaceStep(t, name, s[1], s[2], x, y) = PlaceIn(w, s[1], s[2])
    BY <1>2, <2>1, <2>2, PlaceStepBy
  <2> QED BY <2>3 DEF x, y
<1>6. ASSUME NEW s \in D, s[1] <= s[2]
      PROVE  /\ <<s[1], Mid(s) - 1>> \in D /\ Width(<<s[1], Mid(s) - 1>>) < Width(s)
             /\ <<Mid(s) + 1, s[2]>> \in D /\ Width(<<Mid(s) + 1, s[2]>>) < Width(s)
  <2> HIDE DEF t
  <2> QED BY <1>2, <1>6, Halves
<1> HIDE DEF t, b, g, Mid, One
<1>7. g = F(g)
  <2>1. ASSUME NEW s \in D PROVE One(g, s) = PlaceIn(w, s[1], s[2])
    <3>1. s[1] <= s[2] => /\ g[<<s[1], Mid(s) - 1>>] = PlaceIn(w, s[1], Mid(s) - 1)
                          /\ g[<<Mid(s) + 1, s[2]>>] = PlaceIn(w, Mid(s) + 1, s[2])
      <4> SUFFICES ASSUME s[1] <= s[2]
                   PROVE  /\ g[<<s[1], Mid(s) - 1>>] = PlaceIn(w, s[1], Mid(s) - 1)
                          /\ g[<<Mid(s) + 1, s[2]>>] = PlaceIn(w, Mid(s) + 1, s[2])
        OBVIOUS
      <4> DEFINE lower == <<s[1], Mid(s) - 1>>
                 upper == <<Mid(s) + 1, s[2]>>
      <4>1. lower \in D /\ upper \in D
        BY <1>6
      <4>2. g[lower] = PlaceIn(w, lower[1], lower[2]) /\ g[upper] = PlaceIn(w, upper[1], upper[2])
        BY <1>3, <4>1
      <4> QED BY <4>2
    <3> QED BY <1>5, <3>1
  <2> QED BY <2>1 DEF g
<1>8. b = F(b)
  <2> HIDE DEF F
  <2> QED BY <1>7 DEF b
<1>9. \A s \in D : b[s] = One(b, s)
  BY <1>8
<1> DEFINE T == {n \in Nat : \A s \in D : Width(s) <= n => b[s] = PlaceIn(w, s[1], s[2])}
<1>10. 0 \in T
  <2>1. ASSUME NEW s \in D, Width(s) <= 0 PROVE b[s] = PlaceIn(w, s[1], s[2])
    <3>1. s[1] \in Nat /\ s[2] \in Nat
      BY <1>2 DEF Spans
    <3>2. ~(s[1] <= s[2])
      BY <2>1, <3>1 DEF Width
    <3>3. One(b, s) = PlaceIn(w, s[1], s[2])
      BY <1>5, <3>2
    <3> QED BY <1>9, <3>3
  <2> QED BY <2>1
<1>11. ASSUME NEW n \in Nat, n \in T PROVE n + 1 \in T
  <2>1. ASSUME NEW s \in D, Width(s) <= n + 1 PROVE b[s] = PlaceIn(w, s[1], s[2])
    <3>1. s[1] <= s[2] => /\ b[<<s[1], Mid(s) - 1>>] = PlaceIn(w, s[1], Mid(s) - 1)
                          /\ b[<<Mid(s) + 1, s[2]>>] = PlaceIn(w, Mid(s) + 1, s[2])
      <4> SUFFICES ASSUME s[1] <= s[2]
                   PROVE  /\ b[<<s[1], Mid(s) - 1>>] = PlaceIn(w, s[1], Mid(s) - 1)
                          /\ b[<<Mid(s) + 1, s[2]>>] = PlaceIn(w, Mid(s) + 1, s[2])
        OBVIOUS
      <4> DEFINE lower == <<s[1], Mid(s) - 1>>
                 upper == <<Mid(s) + 1, s[2]>>
      <4>1. /\ lower \in D /\ Width(lower) < Width(s)
            /\ upper \in D /\ Width(upper) < Width(s)
        BY <1>6
      <4>2. \A r \in D : Width(r) \in Int
        BY <1>2 DEF Spans, Width
      <4> HIDE DEF lower, upper
      <4>3. Width(lower) <= n /\ Width(upper) <= n
        BY <2>1, <4>1, <4>2
      <4>4. b[lower] = PlaceIn(w, lower[1], lower[2]) /\ b[upper] = PlaceIn(w, upper[1], upper[2])
        BY <1>11, <4>1, <4>3
      <4> QED BY <4>4 DEF lower, upper
    <3>2. One(b, s) = PlaceIn(w, s[1], s[2])
      BY <1>5, <3>1
    <3> QED BY <1>9, <3>2
  <2> QED BY <2>1
<1>12. Nat \subseteq T
  <2> HIDE DEF T
  <2> QED BY <1>10, <1>11, Steps
<1>13. b[<<1, Len(t)>>] = PlaceIn(w, 1, Len(t))
  <2> DEFINE s == <<1, Len(t)>>
  <2>1. s \in D /\ Width(s) = Len(t) /\ s[1] = 1 /\ s[2] = Len(t)
    BY <1>2 DEF Spans, Width
  <2>2. Len(t) \in T
    BY <1>2, <1>12
  <2> HIDE DEF s
  <2>3. b[s] = PlaceIn(w, 1, Len(t))
    BY <1>2, <2>1, <2>2
  <2> QED BY <2>3 DEF s
<1>14. PlaceIn(w, 1, Len(t)) = w
  BY <1>2 DEF PlaceIn, IsPlace
<1> QED BY <1>1, <1>13, <1>14

\* The first place in a table after a name, which is perhaps the end.
IsAfter(t, name, w) ==
    /\ w \in 1 .. Len(t) + 1
    /\ \A p \in 1 .. Len(t) : Table!Rank(name) < Table!Rank(t[p]) <=> w <= p

\* What a search among the places from base to last finds, if next is the
\* next one found.
NextIn(w, base, last, next) ==
    IF base <= last /\ w <= last THEN IF base <= w THEN w ELSE base ELSE next

NextStep(t, name, base, last, next, below, above) ==
    LET p == Middle(base, last)
    IN  IF last < base THEN next
        ELSE IF Table!Rank(name) < Table!Rank(t[p]) THEN below ELSE above

LEMMA NextStepBy ==
    ASSUME NEW t, RanksGrow(t), NEW name \in NameSet, NEW w, IsAfter(t, name, w),
           NEW base \in 1 .. Len(t) + 1, NEW last \in 0 .. Len(t), NEW next \in 0 .. Len(t),
           NEW below, NEW above,
           base <= last => LET p == Middle(base, last)
                           IN  /\ below = NextIn(w, base, p - 1, p)
                               /\ above = NextIn(w, p + 1, last, next)
    PROVE  NextStep(t, name, base, last, next, below, above) = NextIn(w, base, last, next)
<1> DEFINE p == Middle(base, last)
<1>1. Len(t) \in Nat /\ w \in 1 .. Len(t) + 1
  BY DEF RanksGrow, IsAfter
<1>2. CASE last < base
  BY <1>1, <1>2 DEF NextStep, NextIn
<1>3. CASE base <= last
  <2>1. p \in base .. last /\ p \in 1 .. Len(t)
    <3>1. p \in base .. last
      <4>1. base \in Nat /\ last \in Nat
        BY <1>1
      <4> QED BY <1>3, <4>1, MiddleIs
    <3> HIDE DEF p
    <3> QED BY <1>1, <3>1
  <2>2. NextStep(t, name, base, last, next, below, above)
          = IF Table!Rank(name) < Table!Rank(t[p]) THEN below ELSE above
    BY <1>1, <1>3 DEF NextStep
  <2>3. below = NextIn(w, base, p - 1, p) /\ above = NextIn(w, p + 1, last, next)
    BY <1>3
  <2> HIDE DEF p
  <2>4. Table!Rank(name) < Table!Rank(t[p]) <=> w <= p
    BY <2>1 DEF IsAfter
  <2>5. CASE w <= p
    <3>1. NextIn(w, base, p - 1, p) = NextIn(w, base, last, next)
      BY <1>1, <1>3, <2>1, <2>5 DEF NextIn
    <3> QED BY <2>2, <2>3, <2>4, <2>5, <3>1
  <2>6. CASE ~(w <= p)
    <3>1. NextIn(w, p + 1, last, next) = NextIn(w, base, last, next)
      BY <1>1, <1>3, <2>1, <2>6 DEF NextIn
    <3> QED BY <2>2, <2>3, <2>4, <2>6, <3>1
  <2> QED BY <2>5, <2>6
<1>4. last < base \/ base <= last
  BY <1>1
<1> QED BY <1>2, <1>3, <1>4

Triples(t) == (1 .. Len(t) + 1) \X (0 .. Len(t)) \X (0 .. Len(t))

LEMMA TripleHalves ==
    ASSUME NEW t, RanksGrow(t), NEW s \in Triples(t), s[1] <= s[2]
    PROVE  LET p == Middle(s[1], s[2])
           IN  /\ <<s[1], p - 1, p>> \in Triples(t) /\ Width(<<s[1], p - 1, p>>) < Width(s)
               /\ <<p + 1, s[2], s[3]>> \in Triples(t) /\ Width(<<p + 1, s[2], s[3]>>) < Width(s)
<1> DEFINE p == Middle(s[1], s[2])
           r == <<s[1], s[2]>>
<1>1. s[1] \in 1 .. Len(t) + 1 /\ s[2] \in 0 .. Len(t) /\ s[3] \in 0 .. Len(t)
  BY DEF Triples
<1>2. r \in Spans(t) /\ r[1] <= r[2] /\ r[1] = s[1] /\ r[2] = s[2] /\ Width(r) = Width(s)
  BY <1>1 DEF Spans, Width
<1> HIDE DEF r
<1>3. /\ p \in 1 .. Len(t)
      /\ <<s[1], p - 1>> \in Spans(t) /\ Width(<<s[1], p - 1>>) < Width(s)
      /\ <<p + 1, s[2]>> \in Spans(t) /\ Width(<<p + 1, s[2]>>) < Width(s)
  BY <1>2, Halves
<1> HIDE DEF p
<1>4. Len(t) \in Nat /\ p \in 0 .. Len(t) /\ p - 1 \in 0 .. Len(t) /\ p + 1 \in 1 .. Len(t) + 1
  <2>1. Len(t) \in Nat
    BY DEF RanksGrow
  <2> QED BY <1>3, <2>1 DEF Spans
<1>5. <<s[1], p - 1, p>> \in Triples(t) /\ <<p + 1, s[2], s[3]>> \in Triples(t)
  BY <1>1, <1>4 DEF Triples
<1>6. Width(<<s[1], p - 1, p>>) < Width(s) /\ Width(<<p + 1, s[2], s[3]>>) < Width(s)
  BY <1>3 DEF Width
<1> QED BY <1>5, <1>6 DEF p

\* What bfindnext finds: the first place after the name, or 0.
FoundAfter(t, w) == IF w <= Len(t) THEN w ELSE 0

LEMMA NextSearchFinds ==
    ASSUME NEW o, RanksGrow(Table!PropertyDescriptorsC(o)), NEW name \in NameSet,
           NEW w, IsAfter(Table!PropertyDescriptorsC(o), name, w)
    PROVE  LET t == Table!PropertyDescriptorsC(o)
               found == FoundAfter(t, w)
           IN  Table!bfindnext(o, name) = IF found = 0 THEN "" ELSE t[found]
<1> DEFINE t == Table!PropertyDescriptorsC(o)
           D == Triples(t)
           Mid(s) == Middle(s[1], s[2])
           One(f, s) == NextStep(t, name, s[1], s[2], s[3],
                                 f[<<s[1], Mid(s) - 1, Mid(s)>>], f[<<Mid(s) + 1, s[2], s[3]>>])
           F(f) == [s \in D |-> One(f, s)]
           b == CHOOSE f : f = F(f)
           g == [s \in D |-> NextIn(w, s[1], s[2], s[3])]
           FitsNext(f, s) == s[1] <= s[2] =>
               /\ f[<<s[1], Mid(s) - 1, Mid(s)>>] = NextIn(w, s[1], Mid(s) - 1, Mid(s))
               /\ f[<<Mid(s) + 1, s[2], s[3]>>] = NextIn(w, Mid(s) + 1, s[2], s[3])
           all == <<1, Len(t), 0>>
<1>1. Table!bfindnext(o, name) = IF b[all] = 0 THEN "" ELSE t[b[all]]
  BY DEF Table!bfindnext, NextStep, Middle, Triples
<1>2. RanksGrow(t) /\ IsAfter(t, name, w) /\ Len(t) \in Nat
  BY DEF RanksGrow
<1>3. \A s \in D : g[s] = NextIn(w, s[1], s[2], s[3])
  OBVIOUS
<1>4. \A s \in D : s[1] \in 1 .. Len(t) + 1 /\ s[2] \in 0 .. Len(t) /\ s[3] \in 0 .. Len(t)
  BY DEF Triples
<1>5. ASSUME NEW f, NEW s \in D, FitsNext(f, s) PROVE One(f, s) = NextIn(w, s[1], s[2], s[3])
  <2> DEFINE x == f[<<s[1], Mid(s) - 1, Mid(s)>>]
             y == f[<<Mid(s) + 1, s[2], s[3]>>]
             p == Middle(s[1], s[2])
  <2>1. s[1] <= s[2] => x = NextIn(w, s[1], p - 1, p) /\ y = NextIn(w, p + 1, s[2], s[3])
    BY <1>5
  <2> HIDE DEF t, x, y
  <2>2. NextStep(t, name, s[1], s[2], s[3], x, y) = NextIn(w, s[1], s[2], s[3])
    <3>1. s[1] \in 1 .. Len(t) + 1 /\ s[2] \in 0 .. Len(t) /\ s[3] \in 0 .. Len(t)
      BY <1>4
    <3> QED BY <1>2, <2>1, <3>1, NextStepBy
  <2> QED BY <2>2 DEF x, y
<1>6. ASSUME NEW s \in D, s[1] <= s[2]
      PROVE  /\ <<s[1], Mid(s) - 1, Mid(s)>> \in D /\ Width(<<s[1], Mid(s) - 1, Mid(s)>>) < Width(s)
             /\ <<Mid(s) + 1, s[2], s[3]>> \in D /\ Width(<<Mid(s) + 1, s[2], s[3]>>) < Width(s)
  <2> HIDE DEF t
  <2> QED BY <1>2, <1>6, TripleHalves
<1>7. \A s \in D : Width(s) \in Int
  BY <1>2, <1>4 DEF Width
<1>8. ASSUME NEW f, NEW s \in D,
             \A r \in D : Width(r) < Width(s) => f[r] = NextIn(w, r[1], r[2], r[3])
      PROVE  FitsNext(f, s)
  <2> SUFFICES ASSUME s[1] <= s[2]
               PROVE  /\ f[<<s[1], Mid(s) - 1, Mid(s)>>] = NextIn(w, s[1], Mid(s) - 1, Mid(s))
                      /\ f[<<Mid(s) + 1, s[2], s[3]>>] = NextIn(w, Mid(s) + 1, s[2], s[3])
    OBVIOUS
  <2> DEFINE lower == <<s[1], Mid(s) - 1, Mid(s)>>
             upper == <<Mid(s) + 1, s[2], s[3]>>
  <2>1. /\ lower \in D /\ Width(lower) < Width(s)
        /\ upper \in D /\ Width(upper) < Width(s)
    BY <1>6
  <2> HIDE DEF lower, upper
  <2>2. f[lower] = NextIn(w, lower[1], lower[2], lower[3]) /\ f[upper] = NextIn(w, upper[1], upper[2], upper[3])
    BY <1>8, <2>1
  <2> QED BY <2>2 DEF lower, upper
<1> HIDE DEF t, b, g, Mid, One, FitsNext
<1>9. g = F(g)
  <2>1. ASSUME NEW s \in D PROVE One(g, s) = NextIn(w, s[1], s[2], s[3])
    <3>1. FitsNext(g, s)
      BY <1>3, <1>8
    <3> QED BY <1>5, <3>1
  <2> QED BY <2>1 DEF g
<1>10. b = F(b)
  <2> HIDE DEF F
  <2> QED BY <1>9 DEF b
<1>11. \A s \in D : b[s] = One(b, s)
  BY <1>10
<1> DEFINE T == {n \in Nat : \A s \in D : Width(s) <= n => b[s] = NextIn(w, s[1], s[2], s[3])}
<1>12. 0 \in T
  <2>1. ASSUME NEW s \in D, Width(s) <= 0 PROVE b[s] = NextIn(w, s[1], s[2], s[3])
    <3>1. s[1] \in Nat /\ s[2] \in Nat
      BY <1>2, <1>4
    <3>2. ~(s[1] <= s[2])
      BY <2>1, <3>1 DEF Width
    <3>3. FitsNext(b, s)
      BY <3>2 DEF FitsNext
    <3> QED BY <1>5, <1>11, <3>3
  <2> QED BY <2>1
<1>13. ASSUME NEW n \in Nat, n \in T PROVE n + 1 \in T
  <2>1. ASSUME NEW s \in D, Width(s) <= n + 1 PROVE b[s] = NextIn(w, s[1], s[2], s[3])
    <3>1. \A r \in D : Width(r) < Width(s) => Width(r) <= n
      BY <1>7, <2>1
    <3>2. \A r \in D : Width(r) < Width(s) => b[r] = NextIn(w, r[1], r[2], r[3])
      BY <1>13, <3>1
    <3>3. FitsNext(b, s)
      BY <1>8, <3>2
    <3> QED BY <1>5, <1>11, <3>3
  <2> QED BY <2>1
<1>14. Nat \subseteq T
  <2> HIDE DEF T
  <2> QED BY <1>12, <1>13, Steps
<1>15. b[all] = FoundAfter(t, w)
  <2>1. all \in D /\ Width(all) = Len(t) /\ all[1] = 1 /\ all[2] = Len(t) /\ all[3] = 0
    BY <1>2 DEF Triples, Width
  <2>2. Len(t) \in T
    BY <1>2, <1>14
  <2> HIDE DEF all
  <2>3. b[all] = NextIn(w, 1, Len(t), 0)
    BY <1>2, <2>1, <2>2
  <2>4. NextIn(w, 1, Len(t), 0) = FoundAfter(t, w)
    BY <1>2 DEF NextIn, FoundAfter, IsAfter
  <2> QED BY <2>3, <2>4
<1> QED BY <1>1, <1>15 DEF t

-------------------------------------------------------------------------------
(*                          The names that are found                       *)

IsFirst(k, ranks) == k \in ranks /\ \A j \in ranks : k <= j

LEMMA FirstIs ==
    ASSUME NEW ranks \in SUBSET (1 .. LastRank)
    PROVE  /\ ranks = {} => Table!FirstOf(ranks) = ""
           /\ \A k : IsFirst(k, ranks) => Table!FirstOf(ranks) = PropertyNames[k]
           /\ ranks = {} \/ \E k : IsFirst(k, ranks)
<1>1. ranks = {} => Table!FirstOf(ranks) = ""
  BY DEF Table!FirstOf
<1>2. ASSUME NEW k, IsFirst(k, ranks) PROVE Table!FirstOf(ranks) = PropertyNames[k]
  <2> DEFINE least == {i \in ranks : \A j \in ranks : i <= j}
  <2>1. least = {k}
    <3>1. \A j \in ranks : j \in Nat
      BY LastRankIs
    <3>2. k \in ranks /\ \A j \in ranks : k <= j
      BY <1>2 DEF IsFirst
    <3>3. \A i \in least : i = k
      BY <3>1, <3>2
    <3>4. k \in least
      BY <3>2
    <3> QED BY <3>3, <3>4
  <2>2. (CHOOSE i \in ranks : \A j \in ranks : i <= j) = k
    BY <2>1
  <2> HIDE DEF least
  <2>3. ranks # {}
    BY <1>2 DEF IsFirst
  <2> QED BY <2>2, <2>3 DEF Table!FirstOf
<1>3. ranks = {} \/ \E k : IsFirst(k, ranks)
  <2>1. ranks \in SUBSET Nat
    BY LastRankIs
  <2> QED BY <2>1, Least DEF IsFirst
<1> QED BY <1>1, <1>2, <1>3

\* An object's descriptors have just the names of its methods.
LEMMA FindsForeign ==
    ASSUME NEW o, NEW name \in NameSet
    PROVE  Table!hasExternalProperty(o, name) <=> name \in DOMAIN o.methods
<1> DEFINE t == Table!PropertyDescriptorsC(o)
           S == DOMAIN o.methods
<1>1. Sorted(t, S, LastRank) /\ RanksGrow(t)
  BY DescriptorsSorted, SortedRanksGrow
<1>2. \A w : IsPlace(t, name, w) => Table!bsearch(o, name) = w
  BY <1>1, SearchFinds
<1> HIDE DEF t, S
<1>3. CASE \E p \in 1 .. Len(t) : t[p] = name
  <2>1. PICK p \in 1 .. Len(t) : t[p] = name
    BY <1>3
  <2>2. Table!bsearch(o, name) = p
    BY <1>2, <2>1 DEF IsPlace
  <2>3. p # 0
    BY <1>1 DEF RanksGrow
  <2>4. name \in S
    BY <1>1, <2>1 DEF Sorted
  <2> QED BY <2>2, <2>3, <2>4 DEF Table!hasExternalProperty, S
<1>4. CASE ~(\E p \in 1 .. Len(t) : t[p] = name)
  <2>1. Table!bsearch(o, name) = 0
    BY <1>2, <1>4 DEF IsPlace
  <2>2. name \notin S
    <3>1. PICK i \in 1 .. LastRank : name = PropertyNames[i]
      BY NamesAre
    <3> QED BY <1>1, <1>4, <3>1 DEF Sorted
  <2> QED BY <2>1, <2>2 DEF Table!hasExternalProperty, S
<1> QED BY <1>3, <1>4

ForeignAfter(o, rank) == {j \in 1 .. LastRank : j > rank /\ PropertyNames[j] \in DOMAIN o.methods}

LEMMA SomeAfter ==
    ASSUME NEW t, RanksGrow(t), NEW name \in NameSet
    PROVE  \E w : IsAfter(t, name, w)
<1> DEFINE after == {p \in 1 .. Len(t) : Table!Rank(name) < Table!Rank(t[p])}
<1>1. Len(t) \in Nat
  BY DEF RanksGrow
<1>2. Table!Rank(name) \in Nat /\ \A p \in 1 .. Len(t) : Table!Rank(t[p]) \in Nat
  <2>1. Table!Rank(name) \in 1 .. LastRank
    BY RankIs
  <2>2. \A p \in 1 .. Len(t) : Table!Rank(t[p]) \in 1 .. LastRank
    BY DEF RanksGrow
  <2> QED BY <2>1, <2>2, LastRankIs
<1>3. CASE after = {}
  <2>1. Len(t) + 1 \in 1 .. Len(t) + 1
    BY <1>1
  <2>2. \A p \in 1 .. Len(t) : ~(Table!Rank(name) < Table!Rank(t[p]))
    BY <1>3
  <2>3. \A p \in 1 .. Len(t) : ~(Len(t) + 1 <= p)
    BY <1>1
  <2>4. IsAfter(t, name, Len(t) + 1)
    BY <2>1, <2>2, <2>3 DEF IsAfter
  <2> QED BY <2>4
<1>4. CASE after # {}
  <2>1. after \in SUBSET Nat
    BY <1>1
  <2>2. PICK w \in after : \A p \in after : w <= p
    <3> HIDE DEF after
    <3> QED BY <1>4, <2>1, Least
  <2>3. w \in 1 .. Len(t) /\ Table!Rank(name) < Table!Rank(t[w])
    BY <2>2
  <2>4. ASSUME NEW p \in 1 .. Len(t) PROVE Table!Rank(name) < Table!Rank(t[p]) <=> w <= p
    <3>1. Table!Rank(name) < Table!Rank(t[p]) => w <= p
      BY <2>2
    <3>2. w < p => Table!Rank(t[w]) < Table!Rank(t[p])
      BY <2>3 DEF RanksGrow
    <3>3. w < p => Table!Rank(name) < Table!Rank(t[p])
      BY <1>2, <2>3, <3>2
    <3>4. w <= p => w < p \/ w = p
      BY <1>1, <2>3
    <3> QED BY <2>3, <3>1, <3>3, <3>4
  <2>5. w \in 1 .. Len(t) + 1
    BY <1>1, <2>3
  <2>6. IsAfter(t, name, w)
    BY <2>4, <2>5 DEF IsAfter
  <2> QED BY <2>6
<1> QED BY <1>3, <1>4

\* bfindnext gives the next name in order.
LEMMA NextForeign ==
    ASSUME NEW o, NEW name \in NameSet
    PROVE  Table!bfindnext(o, name) = Table!FirstOf(ForeignAfter(o, Table!Rank(name)))
<1> DEFINE t == Table!PropertyDescriptorsC(o)
           S == DOMAIN o.methods
           after == ForeignAfter(o, Table!Rank(name))
<1>1. Sorted(t, S, LastRank) /\ RanksGrow(t)
  BY DescriptorsSorted, SortedRanksGrow
<1>2. PICK w : IsAfter(t, name, w)
  BY <1>1, SomeAfter
<1>3. Table!bfindnext(o, name) = IF FoundAfter(t, w) = 0 THEN "" ELSE t[FoundAfter(t, w)]
  BY <1>1, <1>2, NextSearchFinds
<1>4. after \in SUBSET (1 .. LastRank)
  BY DEF ForeignAfter
<1>5. \A j : j \in after <=> j \in 1 .. LastRank /\ j > Table!Rank(name) /\ PropertyNames[j] \in S
  BY DEF ForeignAfter
<1> HIDE DEF t, S, after
<1>6. Len(t) \in Nat /\ w \in 1 .. Len(t) + 1
  BY <1>1, <1>2 DEF RanksGrow, IsAfter
<1>7. \A p \in 1 .. Len(t) : Table!Rank(t[p]) \in 1 .. LastRank /\ PropertyNames[Table!Rank(t[p])] = t[p]
  <2>1. \A p \in 1 .. Len(t) : t[p] \in NameSet
    BY <1>1 DEF RanksGrow
  <2> QED BY <2>1, RankIs
<1>8. Table!Rank(name) \in 1 .. LastRank
  BY RankIs
<1>9. ASSUME NEW j \in after
      PROVE  \E p \in 1 .. Len(t) : w <= p /\ Table!Rank(t[p]) = j
  <2>1. j \in 1 .. LastRank /\ j > Table!Rank(name) /\ PropertyNames[j] \in S
    BY <1>5
  <2>2. PICK p \in 1 .. Len(t) : t[p] = PropertyNames[j]
    BY <1>1, <2>1 DEF Sorted
  <2>3. Table!Rank(t[p]) = j
    BY <2>1, <2>2, RankOf
  <2>4. Table!Rank(name) < Table!Rank(t[p])
    BY <1>8, <2>1, <2>3, LastRankIs
  <2> QED BY <1>2, <2>3, <2>4 DEF IsAfter
<1>10. CASE w <= Len(t)
  <2>1. w \in 1 .. Len(t)
    BY <1>6, <1>10
  <2>2. Table!bfindnext(o, name) = t[w]
    <3>1. FoundAfter(t, w) = w /\ w # 0
      BY <1>6, <1>10 DEF FoundAfter
    <3> QED BY <1>3, <3>1
  <2> DEFINE k == Table!Rank(t[w])
  <2>3. k \in 1 .. LastRank /\ PropertyNames[k] = t[w]
    BY <1>7, <2>1
  <2>4. Table!Rank(name) < k
    BY <1>2, <1>6, <2>1 DEF IsAfter
  <2>5. t[w] \in S
    BY <1>1, <2>1 DEF Sorted
  <2>6. k \in after
    <3>1. k > Table!Rank(name)
      BY <1>8, <2>3, <2>4, LastRankIs
    <3> QED BY <1>5, <2>3, <2>5, <3>1
  <2>7. ASSUME NEW j \in after PROVE k <= j
    <3>1. PICK p \in 1 .. Len(t) : w <= p /\ Table!Rank(t[p]) = j
      BY <1>9
    <3>2. w < p => k < Table!Rank(t[p])
      BY <1>1, <2>1 DEF RanksGrow
    <3>3. w < p \/ w = p
      BY <1>6, <2>1, <3>1
    <3>4. k \in Nat
      BY <2>3, LastRankIs
    <3>5. j \in Nat
      BY <1>4, LastRankIs
    <3> HIDE DEF k
    <3>6. w = p => k = j
      BY <3>1 DEF k
    <3> QED BY <3>1, <3>2, <3>3, <3>4, <3>5, <3>6
  <2> HIDE DEF k
  <2>8. IsFirst(k, after)
    BY <2>6, <2>7 DEF IsFirst
  <2> QED BY <1>4, <2>2, <2>3, <2>8, FirstIs DEF after
<1>11. CASE ~(w <= Len(t))
  <2>1. Table!bfindnext(o, name) = ""
    BY <1>3, <1>11 DEF FoundAfter
  <2>2. after = {}
    <3> SUFFICES ASSUME NEW j \in after PROVE FALSE
      OBVIOUS
    <3>1. PICK p \in 1 .. Len(t) : w <= p
      BY <1>9
    <3> QED BY <1>6, <1>11, <3>1
  <2> QED BY <1>4, <2>1, <2>2, FirstIs DEF after
<1> QED BY <1>10, <1>11

\* The host's names that a script may read, after a rank.
Reading(o, name) == name \in DOMAIN o.methods /\ "get" \in o.methods[name]
ReadingAfter(o, rank) == {j \in 1 .. LastRank : j > rank /\ Reading(o, PropertyNames[j])}

\* What may be set may be read.
Gets(o) == \A name \in DOMAIN o.methods : "set" \in o.methods[name] => "get" \in o.methods[name]

LEMMA ShownIs ==
    ASSUME NEW o, Gets(o), NEW name \in NameSet
    PROVE  Table!Shown(o, name) <=> Reading(o, name)
<1>1. Table!hasExternalProperty(o, name) <=> name \in DOMAIN o.methods
  BY FindsForeign
<1>2. name \in DOMAIN o.methods => ("set" \in o.methods[name] => "get" \in o.methods[name])
  BY DEF Gets
<1> QED BY <1>1, <1>2 DEF Table!Shown, Table!HasMethod, Reading

\* One step of getNameOfNextExternalProperty, with what follows a rank.
StepShown(o, rank, f) ==
    LET next == Table!bfindnext(o, PropertyNames[rank])
    IN  IF next = "" \/ Table!Shown(o, next) THEN next ELSE f[Table!Rank(next)]

LEMMA StepShownIs ==
    ASSUME NEW o, Gets(o), NEW f, NEW rank \in 1 .. LastRank,
           \A k \in 1 .. LastRank : k > rank => f[k] = Table!FirstOf(ReadingAfter(o, k))
    PROVE  StepShown(o, rank, f) = Table!FirstOf(ReadingAfter(o, rank))
<1> DEFINE next == Table!bfindnext(o, PropertyNames[rank])
           after == ForeignAfter(o, rank)
           shown == ReadingAfter(o, rank)
<1>1. next = Table!FirstOf(after)
  <2>1. PropertyNames[rank] \in NameSet /\ Table!Rank(PropertyNames[rank]) = rank
    BY NamesAre, RankOf
  <2> QED BY <2>1, NextForeign
<1>2. after \in SUBSET (1 .. LastRank) /\ shown \in SUBSET (1 .. LastRank)
  BY DEF ForeignAfter, ReadingAfter
<1>3. \A j : j \in after <=> j \in 1 .. LastRank /\ j > rank /\ PropertyNames[j] \in DOMAIN o.methods
  BY DEF ForeignAfter
<1>4. \A j : j \in shown <=> j \in after /\ Reading(o, PropertyNames[j])
  BY DEF ForeignAfter, ReadingAfter, Reading
<1>5. StepShown(o, rank, f) = IF next = "" \/ Table!Shown(o, next) THEN next ELSE f[Table!Rank(next)]
  BY DEF StepShown
<1> HIDE DEF next, after, shown
<1>6. CASE after = {}
  <2>1. shown = {}
    BY <1>4, <1>6
  <2>2. next = "" /\ Table!FirstOf(shown) = ""
    BY <1>1, <1>2, <1>6, <2>1, FirstIs
  <2> QED BY <1>5, <2>2 DEF shown
<1>7. CASE after # {}
  <2>1. PICK k : IsFirst(k, after)
    BY <1>2, <1>7, FirstIs
  <2>2. k \in after /\ \A j \in after : k <= j
    BY <2>1 DEF IsFirst
  <2>3. k \in 1 .. LastRank /\ k > rank
    BY <1>3, <2>2
  <2>4. next = PropertyNames[k]
    BY <1>1, <1>2, <2>1, FirstIs
  <2>5. next # "" /\ next \in NameSet
    BY <2>3, <2>4, NamesAre
  <2>6. Table!Rank(next) = k
    BY <2>3, <2>4, RankOf
  <2>7. Table!Shown(o, next) <=> Reading(o, PropertyNames[k])
    BY <2>4, <2>5, ShownIs
  <2>8. CASE Reading(o, PropertyNames[k])
    <3>1. k \in shown
      BY <1>4, <2>2, <2>8
    <3>2. \A j \in shown : k <= j
      BY <1>4, <2>2
    <3>3. IsFirst(k, shown)
      BY <3>1, <3>2 DEF IsFirst
    <3>4. Table!FirstOf(shown) = PropertyNames[k]
      BY <1>2, <3>3, FirstIs
    <3> QED BY <1>5, <2>4, <2>7, <2>8, <3>4 DEF shown
  <2>9. CASE ~Reading(o, PropertyNames[k])
    <3>1. StepShown(o, rank, f) = f[k]
      BY <1>5, <2>5, <2>6, <2>7, <2>9
    <3>2. f[k] = Table!FirstOf(ReadingAfter(o, k))
      BY <2>3
    <3>3. ReadingAfter(o, k) = shown
      <4>1. \A j \in shown : j > k
        <5> SUFFICES ASSUME NEW j \in shown PROVE j > k
          OBVIOUS
        <5>1. j \in after /\ Reading(o, PropertyNames[j])
          BY <1>4
        <5>2. k <= j /\ k # j
          BY <2>2, <2>9, <5>1
        <5>3. j \in Nat /\ k \in Nat
          BY <1>2, <2>3, LastRankIs
        <5> QED BY <5>2, <5>3
      <4>2. \A j \in 1 .. LastRank : j > k => j > rank
        BY <2>3, LastRankIs
      <4> QED BY <1>2, <4>1, <4>2 DEF ReadingAfter, shown
    <3> QED BY <3>1, <3>2, <3>3 DEF shown
  <2> QED BY <2>8, <2>9
<1> QED BY <1>6, <1>7

\* getNameOfNextProperty of the host's names gives the next one to read.
LEMMA NextShown ==
    ASSUME NEW o, Gets(o), NEW rank \in 1 .. LastRank
    PROVE  Table!getNameOfNextExternalProperty(o, PropertyNames[rank])
             = Table!FirstOf(ReadingAfter(o, rank))
<1> DEFINE D == 1 .. LastRank
           F(f) == [r \in D |-> StepShown(o, r, f)]
           b == CHOOSE f : f = F(f)
           g == [r \in D |-> Table!FirstOf(ReadingAfter(o, r))]
           From == LET from[r \in DOMAIN PropertyNames] ==
                         LET next == Table!bfindnext(o, PropertyNames[r])
                         IN  IF next = "" \/ Table!Shown(o, next) THEN next ELSE from[Table!Rank(next)]
                   IN  from
<1>1. Table!getNameOfNextExternalProperty(o, PropertyNames[rank]) = b[rank]
  <2>1. Table!getNameOfNextExternalProperty(o, PropertyNames[rank]) = From[Table!Rank(PropertyNames[rank])]
    BY DEF Table!getNameOfNextExternalProperty
  <2>2. Table!Rank(PropertyNames[rank]) = rank
    BY RankOf
  <2>3. From = b
    <3>1. DOMAIN PropertyNames = D
      BY NamesAre
    <3> QED BY <3>1 DEF StepShown
  <2> QED BY <2>1, <2>2, <2>3
<1>2. \A r \in D : g[r] = Table!FirstOf(ReadingAfter(o, r))
  OBVIOUS
<1>3. D \in SUBSET Nat /\ \A r \in D : LastRank - r \in Nat
  BY LastRankIs
<1>4. ASSUME NEW f, NEW r \in D,
             \A k \in D : k > r => f[k] = Table!FirstOf(ReadingAfter(o, k))
      PROVE  StepShown(o, r, f) = Table!FirstOf(ReadingAfter(o, r))
  BY <1>4, StepShownIs
<1> HIDE DEF b, g, D, From
<1>5. g = F(g)
  <2>1. ASSUME NEW r \in D PROVE StepShown(o, r, g) = Table!FirstOf(ReadingAfter(o, r))
    BY <1>2, <1>4
  <2> QED BY <2>1 DEF g
<1>6. b = F(b)
  <2> HIDE DEF F
  <2> QED BY <1>5 DEF b
<1>7. \A r \in D : b[r] = StepShown(o, r, b)
  BY <1>6
<1> HIDE DEF F
<1> DEFINE T == {n \in Nat : \A r \in D : LastRank - r <= n => b[r] = Table!FirstOf(ReadingAfter(o, r))}
<1>8. 0 \in T
  <2>1. ASSUME NEW r \in D, LastRank - r <= 0 PROVE b[r] = Table!FirstOf(ReadingAfter(o, r))
    <3>1. \A k \in D : ~(k > r)
      BY <2>1, LastRankIs DEF D
    <3> QED BY <1>4, <1>7, <3>1
  <2> QED BY <2>1
<1>9. ASSUME NEW n \in Nat, n \in T PROVE n + 1 \in T
  <2>1. ASSUME NEW r \in D, LastRank - r <= n + 1 PROVE b[r] = Table!FirstOf(ReadingAfter(o, r))
    <3>1. \A k \in D : k > r => LastRank - k <= n
      BY <2>1, LastRankIs DEF D
    <3>2. \A k \in D : k > r => b[k] = Table!FirstOf(ReadingAfter(o, k))
      BY <1>9, <3>1
    <3> QED BY <1>4, <1>7, <3>2
  <2> QED BY <2>1
<1>10. Nat \subseteq T
  <2> HIDE DEF T
  <2> QED BY <1>8, <1>9, Steps
<1>11. b[rank] = Table!FirstOf(ReadingAfter(o, rank))
  <2>1. rank \in D /\ LastRank - rank \in Nat
    BY <1>3 DEF D
  <2>2. LastRank - rank \in T
    BY <1>10, <2>1
  <2> QED BY <2>1, <2>2
<1> QED BY <1>1, <1>11

\* getNameOfFirstProperty of the host's names gives the first one to read.
LEMMA FirstShown ==
    ASSUME NEW o, Gets(o)
    PROVE  Table!getNameOfFirstExternalProperty(o) = Table!FirstOf(ReadingAfter(o, 0))
<1> DEFINE t == Table!PropertyDescriptorsC(o)
           S == DOMAIN o.methods
           places == {p \in DOMAIN t : Table!Shown(o, t[p])}
           least == CHOOSE p \in places : \A q \in places : p <= q
           shown == ReadingAfter(o, 0)
<1>1. Table!getNameOfFirstExternalProperty(o) = IF places = {} THEN "" ELSE t[least]
  BY DEF Table!getNameOfFirstExternalProperty
<1>2. Sorted(t, S, LastRank) /\ RanksGrow(t)
  BY DescriptorsSorted, SortedRanksGrow
<1>3. shown \in SUBSET (1 .. LastRank)
  BY DEF ReadingAfter
<1>4. \A j : j \in shown <=> j \in 1 .. LastRank /\ Reading(o, PropertyNames[j])
  BY LastRankIs DEF ReadingAfter
<1> HIDE DEF t, shown
<1>5. DOMAIN t = 1 .. Len(t) /\ Len(t) \in Nat
  BY <1>2 DEF RanksGrow
<1>6. \A p \in 1 .. Len(t) : /\ t[p] \in NameSet /\ Table!Rank(t[p]) \in 1 .. LastRank
                            /\ PropertyNames[Table!Rank(t[p])] = t[p]
  <2>1. \A p \in 1 .. Len(t) : t[p] \in NameSet
    BY <1>2 DEF RanksGrow
  <2> QED BY <2>1, RankIs
<1>7. \A p \in 1 .. Len(t) : p \in places <=> Table!Rank(t[p]) \in shown
  <2> SUFFICES ASSUME NEW p \in 1 .. Len(t) PROVE p \in places <=> Table!Rank(t[p]) \in shown
    OBVIOUS
  <2>1. t[p] \in NameSet /\ Table!Rank(t[p]) \in 1 .. LastRank /\ PropertyNames[Table!Rank(t[p])] = t[p]
    BY <1>6
  <2>2. Table!Shown(o, t[p]) <=> Reading(o, t[p])
    BY <2>1, ShownIs
  <2>3. p \in places <=> Table!Shown(o, t[p])
    BY <1>5
  <2> HIDE DEF places
  <2> QED BY <1>4, <2>1, <2>2, <2>3
<1>8. places \in SUBSET (1 .. Len(t))
  BY <1>5
<1>9. \A j \in shown : \E p \in 1 .. Len(t) : Table!Rank(t[p]) = j
  <2> SUFFICES ASSUME NEW j \in shown PROVE \E p \in 1 .. Len(t) : Table!Rank(t[p]) = j
    OBVIOUS
  <2>1. j \in 1 .. LastRank /\ PropertyNames[j] \in S
    BY <1>4 DEF Reading
  <2>2. PICK p \in 1 .. Len(t) : t[p] = PropertyNames[j]
    BY <1>2, <2>1 DEF Sorted
  <2> QED BY <2>1, <2>2, RankOf
<1> HIDE DEF places, S
<1>10. CASE places = {}
  <2>1. shown = {}
    BY <1>7, <1>9, <1>10
  <2> QED BY <1>1, <1>3, <1>10, <2>1, FirstIs DEF shown
<1>11. CASE places # {}
  <2>1. places \in SUBSET Nat
    BY <1>5, <1>8
  <2>2. \E p \in places : \A q \in places : p <= q
    BY <1>11, <2>1, Least
  <2>3. least \in places /\ \A q \in places : least <= q
    BY <2>2
  <2> HIDE DEF least
  <2> DEFINE k == Table!Rank(t[least])
  <2>4. least \in 1 .. Len(t) /\ k \in shown /\ PropertyNames[k] = t[least]
    BY <1>6, <1>7, <1>8, <2>3
  <2>5. ASSUME NEW j \in shown PROVE k <= j
    <3>1. PICK p \in 1 .. Len(t) : Table!Rank(t[p]) = j
      BY <1>9
    <3>2. least <= p
      BY <1>7, <2>3, <3>1
    <3>3. least < p => k < j
      BY <1>2, <2>4, <3>1 DEF RanksGrow
    <3>4. least < p \/ least = p
      BY <1>5, <2>4, <3>2
    <3>5. \A i \in shown : i \in Nat
      BY <1>3, LastRankIs
    <3>6. least = p => k = j
      BY <3>1
    <3>7. k \in shown
      BY <2>4
    <3> HIDE DEF k
    <3> QED BY <3>3, <3>4, <3>5, <3>6, <3>7
  <2>6. IsFirst(k, shown)
    BY <2>4, <2>5 DEF IsFirst
  <2>7. Table!FirstOf(shown) = PropertyNames[k]
    <3> HIDE DEF k
    <3> QED BY <1>3, <2>6, FirstIs
  <2> QED BY <1>1, <1>11, <2>4, <2>7 DEF shown
<1> QED BY <1>10, <1>11

\* The sooner one of the first of two sets is the first of both.
LEMMA SoonerIs ==
    ASSUME NEW A \in SUBSET (1 .. LastRank), NEW B \in SUBSET (1 .. LastRank)
    PROVE  Table!Sooner(Table!FirstOf(A), Table!FirstOf(B)) = Table!FirstOf(A \cup B)
<1> DEFINE a == Table!FirstOf(A)
           b == Table!FirstOf(B)
           U == A \cup B
<1>1. U \in SUBSET (1 .. LastRank)
  OBVIOUS
<1>2. \A j \in 1 .. LastRank : j \in Nat
  BY LastRankIs
<1>3. Table!Sooner(a, b) = IF a = "" \/ (b # "" /\ Table!Rank(b) < Table!Rank(a)) THEN b ELSE a
  BY DEF Table!Sooner
<1>4. ASSUME NEW k \in 1 .. LastRank
      PROVE  PropertyNames[k] # "" /\ Table!Rank(PropertyNames[k]) = k
  BY NamesAre, RankOf
<1>5. CASE A = {}
  <2>1. a = "" /\ U = B
    BY <1>5, FirstIs
  <2> QED BY <1>3, <2>1
<1>6. CASE A # {} /\ B = {}
  <2>1. PICK k : IsFirst(k, A)
    BY <1>6, FirstIs
  <2>2. k \in A /\ a = PropertyNames[k]
    BY <2>1, FirstIs DEF IsFirst
  <2>3. a # "" /\ b = "" /\ U = A
    BY <1>4, <1>6, <2>2, FirstIs
  <2> QED BY <1>3, <2>3
<1>7. CASE A # {} /\ B # {}
  <2>1. PICK k : IsFirst(k, A)
    BY <1>7, FirstIs
  <2>2. PICK l : IsFirst(l, B)
    BY <1>7, FirstIs
  <2>3. a = PropertyNames[k] /\ b = PropertyNames[l]
    BY <2>1, <2>2, FirstIs
  <2>4. /\ k \in A /\ \A j \in A : k <= j
        /\ l \in B /\ \A j \in B : l <= j
    BY <2>1, <2>2 DEF IsFirst
  <2>5. a # "" /\ b # "" /\ Table!Rank(a) = k /\ Table!Rank(b) = l
    BY <1>4, <2>3, <2>4
  <2>6. k \in Nat /\ l \in Nat /\ \A j \in U : j \in Nat
    BY <1>2, <2>4
  <2> DEFINE m == IF l < k THEN l ELSE k
  <2>7. Table!Sooner(a, b) = PropertyNames[m]
    BY <1>3, <2>3, <2>5
  <2>8. m \in U /\ \A j \in U : m <= j
    BY <2>4, <2>6
  <2> HIDE DEF m, U
  <2>9. Table!FirstOf(U) = PropertyNames[m]
    BY <1>1, <2>8, FirstIs DEF IsFirst
  <2> QED BY <2>7, <2>9 DEF U
<1> QED BY <1>5, <1>6, <1>7

-------------------------------------------------------------------------------
(*                        The names an object lists                        *)

\* The names to be listed after a rank, the object's own and the host's.
ListedAfter(o, rank) ==
    {j \in 1 .. LastRank : /\ j > rank
                           /\ \/ /\ PropertyNames[j] \in DOMAIN o.table
                                 /\ ~Table!dontEnum(o.table[PropertyNames[j]])
                              \/ Reading(o, PropertyNames[j])}

LEMMA ListsAll ==
    ASSUME NEW o, Gets(o), NEW rank \in 0 .. LastRank
    PROVE  (IF rank = 0 THEN Table!getNameOfFirstPropertyExternal(o)
            ELSE Table!getNameOfNextPropertyExternal(o, PropertyNames[rank]))
             = Table!FirstOf(ListedAfter(o, rank))
<1> DEFINE own == Table!EnumerableAfter(o.table, rank)
           host == ReadingAfter(o, rank)
<1>1. own \in SUBSET (1 .. LastRank) /\ host \in SUBSET (1 .. LastRank)
  BY NamesAre DEF Table!EnumerableAfter, ReadingAfter
<1>2. own \cup host = ListedAfter(o, rank)
  <2>1. own = {j \in 1 .. LastRank : /\ j > rank
                                     /\ PropertyNames[j] \in DOMAIN o.table
                                     /\ ~Table!dontEnum(o.table[PropertyNames[j]])}
    BY NamesAre DEF Table!EnumerableAfter
  <2> HIDE DEF own
  <2> QED BY <2>1 DEF ReadingAfter, ListedAfter
<1>3. Table!Sooner(Table!FirstOf(own), Table!FirstOf(host)) = Table!FirstOf(ListedAfter(o, rank))
  <2> HIDE DEF own, host
  <2>1. Table!Sooner(Table!FirstOf(own), Table!FirstOf(host)) = Table!FirstOf(own \cup host)
    BY <1>1, SoonerIs
  <2> QED BY <1>2, <2>1
<1>4. CASE rank = 0
  <2>1. Table!getNameOfFirstProperty(o.table) = Table!FirstOf(own)
    BY <1>4 DEF Table!getNameOfFirstProperty
  <2>2. Table!getNameOfFirstExternalProperty(o) = Table!FirstOf(host)
    BY <1>4, FirstShown
  <2> HIDE DEF own, host
  <2> QED BY <1>3, <1>4, <2>1, <2>2 DEF Table!getNameOfFirstPropertyExternal
<1>5. CASE rank # 0
  <2>1. rank \in 1 .. LastRank
    BY <1>5, LastRankIs
  <2>2. Table!getNameOfNextProperty(o.table, PropertyNames[rank]) = Table!FirstOf(own)
    <3>1. Table!Rank(PropertyNames[rank]) = rank
      BY <2>1, RankOf
    <3> QED BY <3>1 DEF Table!getNameOfNextProperty
  <2>3. Table!getNameOfNextExternalProperty(o, PropertyNames[rank]) = Table!FirstOf(host)
    BY <2>1, NextShown
  <2> HIDE DEF own, host
  <2> QED BY <1>3, <1>5, <2>2, <2>3 DEF Table!getNameOfNextPropertyExternal
<1> QED BY <1>4, <1>5

-------------------------------------------------------------------------------
(*                              The invariant                              *)

\* What a script reads.
ReadAs(o, name) ==
    IF name \in DOMAIN o.methods
    THEN IF "get" \in o.methods[name] THEN o.held[name] ELSE Table!Undefined
    ELSE Reads(o.table, name)

\* An object whose host lets nobody set or delete what cannot be read, and
\* whose own properties of the names in use are plain ones.
ObjInv(o) ==
    /\ o = Table!External(o.table, o.methods, o.held)
    /\ o.held = [n \in DOMAIN o.methods |-> o.held[n]]
    /\ Gets(o)
    /\ \A n \in DOMAIN o.methods : "delete" \in o.methods[n] => "get" \in o.methods[n]
    /\ \A n \in Table!Used : OwnProperty(o.table, n)
    /\ \A n \in Table!Used : n \in DOMAIN o.table => o.table[n].value # Table!Undefined

ExtInv(s) ==
    /\ ObjInv(s.object)
    /\ s.agreed
    /\ s.read = [n \in Table!Used |-> s.read[n]]
    /\ \A n \in Table!Used : s.read[n] = ReadAs(s.object, n)

LEMMA UsedNames == Table!Used \subseteq NameSet
<1>1. 2 \in 1 .. LastRank /\ 4 \in 1 .. LastRank
  BY LastRankIs
<1>2. PropertyNames[2] \in NameSet /\ PropertyNames[4] \in NameSet
  BY <1>1, NamesAre
<1> QED BY <1>2 DEF Table!Used

\* The object reads x by the name, and by the others what it read.
ReadsOnly(o, d, name, x) ==
    \A n \in Table!Used : ReadAs(d, n) = IF n = name THEN x ELSE ReadAs(o, n)

LEMMA HeldIsPut ==
    ASSUME NEW o, ObjInv(o), NEW name \in DOMAIN o.methods, "get" \in o.methods[name], NEW x
    PROVE  LET d == [o EXCEPT !.held[name] = x] IN ObjInv(d) /\ ReadsOnly(o, d, name, x)
<1> DEFINE d == [o EXCEPT !.held[name] = x]
           held == [n \in DOMAIN o.methods |-> IF n = name THEN x ELSE o.held[n]]
<1>1. /\ o = Table!External(o.table, o.methods, o.held)
      /\ o.held = [n \in DOMAIN o.methods |-> o.held[n]]
  BY DEF ObjInv
<1>2. d.table = o.table /\ d.methods = o.methods /\ d = Table!External(d.table, d.methods, d.held)
  BY <1>1 DEF Table!External
<1>3. d.held = held
  <2>1. d.held = [o.held EXCEPT ![name] = x]
    BY <1>1 DEF Table!External
  <2> QED BY <1>1, <2>1
<1> HIDE DEF d
<1>4. d.held = [n \in DOMAIN d.methods |-> d.held[n]]
  BY <1>2, <1>3
<1>5. ObjInv(d)
  <2>1. Gets(d)
    BY <1>2 DEF ObjInv, Gets
  <2> QED BY <1>2, <1>4, <2>1 DEF ObjInv
<1>6. ReadsOnly(o, d, name, x)
  BY <1>2, <1>3 DEF ReadsOnly, ReadAs
<1> QED BY <1>5, <1>6 DEF d

LEMMA TableIsPut ==
    ASSUME NEW o, ObjInv(o), NEW name \in Table!Used, NEW x, x # Table!Undefined
    PROVE  LET t == Table!With(o.table, name, Table!Property(x, {}))
               d == [o EXCEPT !.table = t]
           IN  /\ ObjInv(d)
               /\ ReadsOnly(o, d, name, IF name \in DOMAIN o.methods THEN ReadAs(o, name) ELSE x)
<1> DEFINE p == Table!Property(x, {})
           t == Table!With(o.table, name, p)
           d == [o EXCEPT !.table = t]
<1>1. o = Table!External(o.table, o.methods, o.held)
  BY DEF ObjInv
<1>2. d.held = o.held /\ d.methods = o.methods /\ d.table = t /\ d = Table!External(d.table, d.methods, d.held)
  <2> HIDE DEF t
  <2> QED BY <1>1 DEF Table!External
<1> HIDE DEF d
<1>3. p.value = x /\ p = Table!Property(p.value, {})
  BY DEF Table!Property
<1> HIDE DEF p
<1>4. /\ t = [n \in DOMAIN o.table \cup {name} |-> IF n = name THEN p ELSE o.table[n]]
      /\ DOMAIN t = DOMAIN o.table \cup {name}
      /\ t[name] = p
      /\ \A n \in DOMAIN o.table : n # name => t[n] = o.table[n]
  BY DEF Table!With
<1>5. t = [n \in DOMAIN t |-> t[n]]
  BY <1>4
<1> HIDE DEF t
<1>6. ASSUME NEW n \in Table!Used
      PROVE  OwnProperty(t, n) /\ (n \in DOMAIN t => t[n].value # Table!Undefined)
  <2>1. CASE n = name
    BY <1>3, <1>4, <1>5, <2>1 DEF OwnProperty
  <2>2. CASE n # name
    <3>1. n \in DOMAIN t => n \in DOMAIN o.table /\ t[n] = o.table[n]
      BY <1>4, <2>2
    <3>2. OwnProperty(o.table, n) /\ (n \in DOMAIN o.table => o.table[n].value # Table!Undefined)
      BY DEF ObjInv
    <3> QED BY <1>5, <3>1, <3>2 DEF OwnProperty
  <2> QED BY <2>1, <2>2
<1>7. ObjInv(d)
  <2>1. Gets(d)
    BY <1>2 DEF ObjInv, Gets
  <2> QED BY <1>2, <1>6, <2>1 DEF ObjInv
<1>8. ReadsOnly(o, d, name, IF name \in DOMAIN o.methods THEN ReadAs(o, name) ELSE x)
  <2>1. \A n : Reads(t, n) = IF n = name THEN x ELSE Reads(o.table, n)
    BY <1>3, <1>4 DEF Reads
  <2> QED BY <1>2, <2>1 DEF ReadsOnly, ReadAs
<1> QED BY <1>7, <1>8 DEF d, t, p

LEMMA TableIsTaken ==
    ASSUME NEW o, ObjInv(o), NEW name \in Table!Used, name \notin DOMAIN o.methods
    PROVE  LET d == [o EXCEPT !.table = Table!Without(o.table, name)]
           IN  ObjInv(d) /\ ReadsOnly(o, d, name, Table!Undefined)
<1> DEFINE t == Table!Without(o.table, name)
           d == [o EXCEPT !.table = t]
<1>1. o = Table!External(o.table, o.methods, o.held)
  BY DEF ObjInv
<1>2. d.held = o.held /\ d.methods = o.methods /\ d.table = t /\ d = Table!External(d.table, d.methods, d.held)
  <2> HIDE DEF t
  <2> QED BY <1>1 DEF Table!External
<1> HIDE DEF d
<1>3. /\ DOMAIN t = DOMAIN o.table \ {name}
      /\ \A n \in DOMAIN t : t[n] = o.table[n]
      /\ t = [n \in DOMAIN t |-> t[n]]
  BY DEF Table!Without
<1> HIDE DEF t
<1>4. ASSUME NEW n \in Table!Used
      PROVE  OwnProperty(t, n) /\ (n \in DOMAIN t => t[n].value # Table!Undefined)
  <2>1. n \in DOMAIN t => n \in DOMAIN o.table /\ t[n] = o.table[n]
    BY <1>3
  <2>2. OwnProperty(o.table, n) /\ (n \in DOMAIN o.table => o.table[n].value # Table!Undefined)
    BY DEF ObjInv
  <2> QED BY <1>3, <2>1, <2>2 DEF OwnProperty
<1>5. ObjInv(d)
  <2>1. Gets(d)
    BY <1>2 DEF ObjInv, Gets
  <2> QED BY <1>2, <1>4, <2>1 DEF ObjInv
<1>6. ReadsOnly(o, d, name, Table!Undefined)
  <2>1. \A n : Reads(t, n) = IF n = name THEN Table!Undefined ELSE Reads(o.table, n)
    BY <1>3 DEF Reads
  <2> QED BY <1>2, <2>1 DEF ReadsOnly, ReadAs
<1> QED BY <1>5, <1>6 DEF d, t

\* What a script reads by one name follows the object.
LEMMA ReadFollows ==
    ASSUME NEW s, ExtInv(s), NEW d, ObjInv(d), NEW name \in Table!Used, NEW x,
           ReadsOnly(s.object, d, name, x), NEW agreed, agreed
    PROVE  ExtInv(Table!Shared(d, [s.read EXCEPT ![name] = x], agreed))
<1> DEFINE read == [s.read EXCEPT ![name] = x]
           z == Table!Shared(d, read, agreed)
<1>1. s.read = [n \in Table!Used |-> s.read[n]] /\ \A n \in Table!Used : s.read[n] = ReadAs(s.object, n)
  BY DEF ExtInv
<1>2. read = [n \in Table!Used |-> IF n = name THEN x ELSE s.read[n]]
  BY <1>1
<1>3. read = [n \in Table!Used |-> read[n]]
  BY <1>2
<1>4. ASSUME NEW n \in Table!Used PROVE read[n] = ReadAs(d, n)
  <2>1. read[n] = IF n = name THEN x ELSE s.read[n]
    BY <1>2
  <2> HIDE DEF read
  <2> QED BY <1>1, <2>1 DEF ReadsOnly
<1> HIDE DEF read
<1>5. z.object = d /\ z.read = read /\ z.agreed
  BY DEF Table!Shared
<1> HIDE DEF z
<1>6. ExtInv(z)
  BY <1>3, <1>4, <1>5 DEF ExtInv
<1> QED BY <1>6 DEF z, read

-------------------------------------------------------------------------------
(*                         What a script may do                            *)

\* The answer is as expected.
Says(answer, expected) == (expected => answer = TRUE) /\ (~expected => answer = FALSE)

\* A name is the host's, which has the method, or the object's own.
LEMMA MethodIs ==
    ASSUME NEW o, NEW name \in Table!Used, NEW method
    PROVE  /\ Table!hasExternalProperty(o, name) <=> name \in DOMAIN o.methods
           /\ Table!HasMethod(o, name, method)
                <=> name \in DOMAIN o.methods /\ method \in o.methods[name]
           /\ Table!Allows(o, name, method)
                <=> name \notin DOMAIN o.methods \/ method \in o.methods[name]
<1>1. Table!hasExternalProperty(o, name) <=> name \in DOMAIN o.methods
  BY UsedNames, FindsForeign
<1> QED BY <1>1 DEF Table!HasMethod, Table!Allows, Table!Foreign

LEMMA ReadIs ==
    ASSUME NEW o, ObjInv(o), NEW name \in Table!Used
    PROVE  Table!getPropertyExternal(o, name) = ReadAs(o, name)
<1>1. Table!getProperty(<<o.table>>, name) = Reads(o.table, name)
  <2>1. OwnProperty(o.table, name)
    BY DEF ObjInv
  <2> QED BY <2>1, OwnOps
<1> QED BY <1>1, MethodIs DEF Table!getPropertyExternal, ReadAs

LEMMA ExternalPutIs ==
    ASSUME NEW o, ObjInv(o), NEW name \in Table!Used, NEW v, v # Table!Undefined
    PROVE  LET put == Table!putPropertyExternal(o, name, v)
               allowed == Table!Allows(o, name, "set")
           IN  /\ ObjInv(put.state)
               /\ ReadsOnly(o, put.state, name, IF allowed THEN v ELSE ReadAs(o, name))
               /\ Says(put.answer, allowed)
<1> DEFINE put == Table!putPropertyExternal(o, name, v)
           allowed == Table!Allows(o, name, "set")
           t == Table!With(o.table, name, Table!Property(v, {}))
           own == Table!putProperty(<<o.table>>, name, v)
<1>1. /\ Table!hasExternalProperty(o, name) <=> name \in DOMAIN o.methods
      /\ Table!HasMethod(o, name, "set") <=> name \in DOMAIN o.methods /\ "set" \in o.methods[name]
      /\ allowed <=> name \notin DOMAIN o.methods \/ "set" \in o.methods[name]
  BY MethodIs
<1>2. own.state[1] = t /\ own.answer = TRUE
  <2>1. OwnProperty(o.table, name)
    BY DEF ObjInv
  <2> QED BY <2>1, OwnOps
<1>3. put = IF Table!HasMethod(o, name, "set") THEN Table!Left([o EXCEPT !.held[name] = v], TRUE)
            ELSE IF Table!hasExternalProperty(o, name) THEN Table!Left(o, FALSE)
            ELSE Table!Left([o EXCEPT !.table = own.state[1]], own.answer)
  BY DEF Table!putPropertyExternal
<1> HIDE DEF put, allowed, t, own
<1>4. CASE name \in DOMAIN o.methods /\ "set" \in o.methods[name]
  <2> DEFINE d == [o EXCEPT !.held[name] = v]
  <2>1. "get" \in o.methods[name]
    BY <1>4 DEF ObjInv, Gets
  <2>2. ObjInv(d) /\ ReadsOnly(o, d, name, v)
    BY <1>4, <2>1, HeldIsPut
  <2> HIDE DEF d
  <2>3. put.state = d /\ put.answer = TRUE /\ allowed
    BY <1>1, <1>3, <1>4 DEF d, Table!Left
  <2> QED BY <2>2, <2>3 DEF Says, put, allowed
<1>5. CASE name \in DOMAIN o.methods /\ "set" \notin o.methods[name]
  <2>1. put.state = o /\ put.answer = FALSE /\ ~allowed
    BY <1>1, <1>3, <1>5 DEF Table!Left
  <2>2. ReadsOnly(o, o, name, ReadAs(o, name))
    BY DEF ReadsOnly
  <2> QED BY <2>1, <2>2 DEF Says, put, allowed
<1>6. CASE name \notin DOMAIN o.methods
  <2> DEFINE d == [o EXCEPT !.table = t]
  <2>1. ObjInv(d) /\ ReadsOnly(o, d, name, v)
    BY <1>6, TableIsPut DEF t
  <2> HIDE DEF d
  <2>2. put.state = d /\ put.answer = TRUE /\ allowed
    BY <1>1, <1>2, <1>3, <1>6 DEF d, Table!Left
  <2> QED BY <2>1, <2>2 DEF Says, put, allowed
<1> QED BY <1>4, <1>5, <1>6

LEMMA ExternalDeletedIs ==
    ASSUME NEW o, ObjInv(o), NEW name \in Table!Used
    PROVE  LET deleted == Table!deletePropertyExternal(o, name)
               allowed == Table!Allows(o, name, "delete")
               there == Table!Foreign(o, name) \/ ReadAs(o, name) # Table!Undefined
           IN  /\ ObjInv(deleted.state)
               /\ ReadsOnly(o, deleted.state, name, IF allowed THEN Table!Undefined ELSE ReadAs(o, name))
               /\ Says(deleted.answer, allowed /\ there)
<1> DEFINE deleted == Table!deletePropertyExternal(o, name)
           allowed == Table!Allows(o, name, "delete")
           there == Table!Foreign(o, name) \/ ReadAs(o, name) # Table!Undefined
           t == Table!Without(o.table, name)
           own == Table!deleteProperty(o.table, name)
<1>1. /\ Table!hasExternalProperty(o, name) <=> name \in DOMAIN o.methods
      /\ Table!HasMethod(o, name, "delete") <=> name \in DOMAIN o.methods /\ "delete" \in o.methods[name]
      /\ allowed <=> name \notin DOMAIN o.methods \/ "delete" \in o.methods[name]
  BY MethodIs
<1>2. own.state = t /\ Says(own.answer, name \in DOMAIN o.table)
  <2>1. OwnProperty(o.table, name)
    BY DEF ObjInv
  <2> QED BY <2>1, OwnOps DEF Says
<1>3. deleted = IF Table!HasMethod(o, name, "delete")
                THEN Table!Left([o EXCEPT !.held[name] = Table!Undefined], TRUE)
                ELSE IF Table!hasExternalProperty(o, name) THEN Table!Left(o, FALSE)
                ELSE Table!Left([o EXCEPT !.table = own.state], own.answer)
  BY DEF Table!deletePropertyExternal
<1>4. there <=> name \in DOMAIN o.methods \/ name \in DOMAIN o.table
  <2>1. name \in DOMAIN o.table => o.table[name].value # Table!Undefined
    BY DEF ObjInv
  <2> QED BY <2>1 DEF Table!Foreign, ReadAs, Reads
<1> HIDE DEF deleted, allowed, there, t, own
<1>5. CASE name \in DOMAIN o.methods /\ "delete" \in o.methods[name]
  <2> DEFINE d == [o EXCEPT !.held[name] = Table!Undefined]
  <2>1. "get" \in o.methods[name]
    BY <1>5 DEF ObjInv
  <2>2. ObjInv(d) /\ ReadsOnly(o, d, name, Table!Undefined)
    BY <1>5, <2>1, HeldIsPut
  <2> HIDE DEF d
  <2>3. deleted.state = d /\ deleted.answer = TRUE /\ allowed /\ there
    BY <1>1, <1>3, <1>4, <1>5 DEF d, Table!Left
  <2> QED BY <2>2, <2>3 DEF Says, deleted, allowed, there
<1>6. CASE name \in DOMAIN o.methods /\ "delete" \notin o.methods[name]
  <2>1. deleted.state = o /\ deleted.answer = FALSE /\ ~allowed
    BY <1>1, <1>3, <1>6 DEF Table!Left
  <2>2. ReadsOnly(o, o, name, ReadAs(o, name))
    BY DEF ReadsOnly
  <2> QED BY <2>1, <2>2 DEF Says, deleted, allowed, there
<1>7. CASE name \notin DOMAIN o.methods
  <2> DEFINE d == [o EXCEPT !.table = t]
  <2>1. ObjInv(d) /\ ReadsOnly(o, d, name, Table!Undefined)
    BY <1>7, TableIsTaken DEF t
  <2> HIDE DEF d
  <2>2. deleted.state = d /\ deleted.answer = own.answer /\ allowed
    BY <1>1, <1>2, <1>3, <1>7 DEF d, Table!Left
  <2>3. Says(deleted.answer, allowed /\ there)
    BY <1>2, <1>4, <1>7, <2>2 DEF Says
  <2> QED BY <2>1, <2>2, <2>3 DEF deleted, allowed, there
<1> QED BY <1>5, <1>6, <1>7

LEMMA PutFollows ==
    ASSUME NEW s, ExtInv(s), NEW name \in Table!Used, NEW v, v # Table!Undefined
    PROVE  ExtInv(Table!ExternalPut(s, name, v))
<1> DEFINE o == s.object
           put == Table!putPropertyExternal(o, name, v)
           allowed == Table!Allows(o, name, "set")
           x == IF allowed THEN v ELSE ReadAs(o, name)
           agreed == put.answer = allowed
<1>1. ObjInv(o) /\ s.read[name] = ReadAs(o, name) /\ s.read = [n \in Table!Used |-> s.read[n]]
  BY DEF ExtInv
<1>2. ObjInv(put.state) /\ ReadsOnly(o, put.state, name, x) /\ Says(put.answer, allowed)
  <2> HIDE DEF o
  <2> QED BY <1>1, ExternalPutIs
<1>3. agreed
  <2>1. allowed \in BOOLEAN
    BY DEF Table!Allows, Table!Foreign
  <2> DEFINE answer == put.answer
  <2>2. Says(answer, allowed)
    BY <1>2
  <2> HIDE DEF answer, allowed
  <2>3. CASE allowed
    <3>1. answer = TRUE
      BY <2>2, <2>3, Zenon DEF Says
    <3>2. allowed = TRUE
      BY <2>1, <2>3, Zenon
    <3>3. answer = allowed
      BY <3>1, <3>2, Zenon
    <3> QED BY <3>3, Zenon DEF answer
  <2>4. CASE ~allowed
    <3>1. answer = FALSE
      BY <2>2, <2>4, Zenon DEF Says
    <3>2. allowed = FALSE
      BY <2>1, <2>4, Zenon
    <3>3. answer = allowed
      BY <3>1, <3>2, Zenon
    <3> QED BY <3>3, Zenon DEF answer
  <2> QED BY <2>3, <2>4, Zenon
<1>4. Table!ExternalPut(s, name, v)
        = Table!Shared(put.state, [s.read EXCEPT ![name] = IF allowed THEN v ELSE @], agreed)
  BY DEF Table!ExternalPut
<1> HIDE DEF put, allowed, agreed
<1>5. [s.read EXCEPT ![name] = IF allowed THEN v ELSE @] = [s.read EXCEPT ![name] = x]
  BY <1>1
<1> HIDE DEF x
<1>6. ExtInv(Table!Shared(put.state, [s.read EXCEPT ![name] = x], agreed))
  BY <1>2, <1>3, ReadFollows
<1> QED BY <1>4, <1>5, <1>6

LEMMA DeletedFollows ==
    ASSUME NEW s, ExtInv(s), NEW name \in Table!Used
    PROVE  ExtInv(Table!ExternalDeleted(s, name))
<1> DEFINE o == s.object
           deleted == Table!deletePropertyExternal(o, name)
           allowed == Table!Allows(o, name, "delete")
           there == Table!Foreign(o, name) \/ s.read[name] # Table!Undefined
           expected == allowed /\ there
           x == IF allowed THEN Table!Undefined ELSE ReadAs(o, name)
           agreed == deleted.answer = expected
<1>1. ObjInv(o) /\ s.read[name] = ReadAs(o, name) /\ s.read = [n \in Table!Used |-> s.read[n]]
  BY DEF ExtInv
<1>2. ObjInv(deleted.state) /\ ReadsOnly(o, deleted.state, name, x) /\ Says(deleted.answer, expected)
  <2>1. there <=> Table!Foreign(o, name) \/ ReadAs(o, name) # Table!Undefined
    BY <1>1
  <2> HIDE DEF o
  <2>2. /\ ObjInv(deleted.state) /\ ReadsOnly(o, deleted.state, name, x)
        /\ Says(deleted.answer, allowed /\ (Table!Foreign(o, name) \/ ReadAs(o, name) # Table!Undefined))
    BY <1>1, ExternalDeletedIs
  <2> QED BY <2>1, <2>2 DEF Says
<1>3. agreed
  <2>1. expected \in BOOLEAN
    BY DEF Table!Allows, Table!Foreign
  <2> DEFINE answer == deleted.answer
  <2>2. Says(answer, expected)
    BY <1>2
  <2> HIDE DEF answer, expected
  <2>3. CASE expected
    <3>1. answer = TRUE
      BY <2>2, <2>3, Zenon DEF Says
    <3>2. expected = TRUE
      BY <2>1, <2>3, Zenon
    <3>3. answer = expected
      BY <3>1, <3>2, Zenon
    <3> QED BY <3>3, Zenon DEF answer
  <2>4. CASE ~expected
    <3>1. answer = FALSE
      BY <2>2, <2>4, Zenon DEF Says
    <3>2. expected = FALSE
      BY <2>1, <2>4, Zenon
    <3>3. answer = expected
      BY <3>1, <3>2, Zenon
    <3> QED BY <3>3, Zenon DEF answer
  <2> QED BY <2>3, <2>4, Zenon
<1>4. Table!ExternalDeleted(s, name)
        = Table!Shared(deleted.state, [s.read EXCEPT ![name] = IF allowed THEN Table!Undefined ELSE @], agreed)
  BY DEF Table!ExternalDeleted
<1> HIDE DEF deleted, allowed, agreed
<1>5. [s.read EXCEPT ![name] = IF allowed THEN Table!Undefined ELSE @] = [s.read EXCEPT ![name] = x]
  BY <1>1
<1> HIDE DEF x
<1>6. ExtInv(Table!Shared(deleted.state, [s.read EXCEPT ![name] = x], agreed))
  BY <1>2, <1>3, ReadFollows
<1> QED BY <1>4, <1>5, <1>6

LEMMA PutNoCheckFollows ==
    ASSUME NEW s, ExtInv(s), NEW name \in Table!Used, NEW v, v # Table!Undefined
    PROVE  ExtInv(Table!ExternalPutNoCheck(s, name, v))
<1> DEFINE o == s.object
           t == Table!With(o.table, name, Table!Property(v, {}))
           d == [o EXCEPT !.table = t]
           x == IF name \in DOMAIN o.methods THEN ReadAs(o, name) ELSE v
<1>1. ObjInv(o) /\ s.read[name] = ReadAs(o, name) /\ s.read = [n \in Table!Used |-> s.read[n]]
  BY DEF ExtInv
<1>2. ObjInv(d) /\ ReadsOnly(o, d, name, x)
  <2> HIDE DEF o
  <2> QED BY <1>1, TableIsPut
<1>3. Table!ExternalPutNoCheck(s, name, v)
        = Table!Shared([o EXCEPT !.table = Table!putPropertyNoCheck(@, name, v)],
                       [s.read EXCEPT ![name] = IF Table!Foreign(o, name) THEN @ ELSE v], TRUE)
  BY DEF Table!ExternalPutNoCheck
<1>4. [o EXCEPT !.table = Table!putPropertyNoCheck(@, name, v)] = d
  <2>1. o = Table!External(o.table, o.methods, o.held)
    BY <1>1 DEF ObjInv
  <2> HIDE DEF o
  <2> QED BY <2>1 DEF Table!putPropertyNoCheck
<1>5. [s.read EXCEPT ![name] = IF Table!Foreign(o, name) THEN @ ELSE v] = [s.read EXCEPT ![name] = x]
  BY <1>1 DEF Table!Foreign
<1> HIDE DEF d, x
<1>6. ExtInv(Table!Shared(d, [s.read EXCEPT ![name] = x], TRUE))
  BY <1>2, ReadFollows
<1> QED BY <1>3, <1>4, <1>5, <1>6

-------------------------------------------------------------------------------
(*                         The objects to begin with                       *)

LEMMA MethodsAre ==
    ASSUME NEW name, NEW methods \in Table!MethodsOf(name)
    PROVE  /\ "set" \in methods => "get" \in methods
           /\ "delete" \in methods => "get" \in methods
<1>1. \/ methods = {"get"} \/ methods = {"call"}
      \/ methods = {"get", "set"} \/ methods = {"get", "set", "delete"}
  BY DEF Table!MethodsOf
<1> QED BY <1>1

LEMMA MadeFollow ==
    ASSUME NEW s \in Table!ExternalsMade
    PROVE  ExtInv(s)
<1> DEFINE Gives(names, f) == /\ f \in [names -> UNION {Table!MethodsOf(n) : n \in names}]
                              /\ \A n \in names : f[n] \in Table!MethodsOf(n)
           HeldFirst(f) == [n \in DOMAIN f |-> "v"]
           Read(f) == [n \in Table!Used |->
                          IF n \in DOMAIN f /\ "get" \in f[n] THEN "v" ELSE Table!Undefined]
           Host(f) == Table!Shared(Table!External(Table!NoProperties, f, HeldFirst(f)), Read(f), TRUE)
           p == Table!Property("v", {"DontEnum"})
           hidden == [n \in {PropertyNames[3]} |-> p]
           none == [n \in {} |-> {}]
           Own == Table!Shared(Table!External(hidden, none, none),
                               [n \in Table!Used |-> Table!Undefined], TRUE)
<1>1. (\E names : \E f : Gives(names, f) /\ s = Host(f)) \/ s = Own
  BY DEF Table!ExternalsMade
<1>2. ASSUME NEW names, NEW f, Gives(names, f), s = Host(f) PROVE ExtInv(s)
  <2>1. DOMAIN f = names /\ \A n \in DOMAIN f : f[n] \in Table!MethodsOf(n)
    BY <1>2
  <2>2. \A n \in DOMAIN f : /\ "set" \in f[n] => "get" \in f[n]
                            /\ "delete" \in f[n] => "get" \in f[n]
    BY <2>1, MethodsAre
  <2> DEFINE table == Table!NoProperties
             held == HeldFirst(f)
             read == Read(f)
             o == Table!External(table, f, held)
  <2>3. table = [n \in DOMAIN table |-> table[n]] /\ DOMAIN table = {}
    BY DEF Table!NoProperties
  <2>4. held = [n \in DOMAIN f |-> held[n]] /\ \A n \in DOMAIN f : held[n] = "v"
    OBVIOUS
  <2>5. /\ read = [n \in Table!Used |-> read[n]]
        /\ \A n \in Table!Used :
              read[n] = IF n \in DOMAIN f /\ "get" \in f[n] THEN "v" ELSE Table!Undefined
    OBVIOUS
  <2>6. s.object = o /\ s.read = read /\ s.agreed
    BY <1>2 DEF Table!Shared
  <2> HIDE DEF table, held, read
  <2>7. o.table = table /\ o.methods = f /\ o.held = held /\ o = Table!External(o.table, o.methods, o.held)
    BY DEF Table!External
  <2> HIDE DEF o
  <2>8. ObjInv(o)
    BY <2>2, <2>3, <2>4, <2>7 DEF ObjInv, Gets, OwnProperty
  <2>9. \A n \in Table!Used : read[n] = ReadAs(o, n)
    BY <2>3, <2>4, <2>5, <2>7 DEF ReadAs, Reads
  <2> QED BY <2>5, <2>6, <2>8, <2>9 DEF ExtInv
<1>3. CASE s = Own
  <2> DEFINE read == [n \in Table!Used |-> Table!Undefined]
             o == Table!External(hidden, none, none)
  <2>1. s.object = o /\ s.read = read /\ s.agreed
    BY <1>3 DEF Table!Shared
  <2>2. hidden = [n \in DOMAIN hidden |-> hidden[n]] /\ DOMAIN hidden = {PropertyNames[3]}
    OBVIOUS
  <2>3. none = [n \in DOMAIN none |-> none[n]] /\ DOMAIN none = {}
    OBVIOUS
  <2>4. read = [n \in Table!Used |-> read[n]] /\ \A n \in Table!Used : read[n] = Table!Undefined
    OBVIOUS
  <2> HIDE DEF hidden, none, read
  <2>5. o.table = hidden /\ o.methods = none /\ o.held = none
        /\ o = Table!External(o.table, o.methods, o.held)
    BY DEF Table!External
  <2>6. \A n \in Table!Used : n \notin DOMAIN hidden
    <3>1. 2 \in 1 .. LastRank /\ 3 \in 1 .. LastRank /\ 4 \in 1 .. LastRank
      BY LastRankIs
    <3>2. \A i, j \in 1 .. LastRank : PropertyNames[i] = PropertyNames[j] => i = j
      BY NamesAre
    <3>3. PropertyNames[2] # PropertyNames[3]
      BY <3>1, <3>2
    <3>4. PropertyNames[4] # PropertyNames[3]
      BY <3>1, <3>2
    <3> QED BY <2>2, <3>3, <3>4 DEF Table!Used
  <2> HIDE DEF o
  <2>7. ObjInv(o)
    BY <2>2, <2>3, <2>5, <2>6 DEF ObjInv, Gets, OwnProperty
  <2>8. \A n \in Table!Used : read[n] = ReadAs(o, n)
    BY <2>3, <2>4, <2>5, <2>6 DEF ReadAs, Reads
  <2> QED BY <2>1, <2>4, <2>7, <2>8 DEF ExtInv
<1> QED BY <1>1, <1>2, <1>3

LEMMA ExternalChangedFollows ==
    ASSUME NEW s, ExtInv(s), NEW z \in Table!ExternalChanged(s)
    PROVE  ExtInv(z)
<1>1. PICK name \in Table!Used, v \in PropertyValues :
          z \in {Table!ExternalPut(s, name, v), Table!ExternalPutNoCheck(s, name, v),
                 Table!ExternalDeleted(s, name)}
  BY DEF Table!ExternalChanged
<1>2. v # Table!Undefined
  BY NameAssumption
<1>3. /\ ExtInv(Table!ExternalPut(s, name, v))
      /\ ExtInv(Table!ExternalPutNoCheck(s, name, v))
      /\ ExtInv(Table!ExternalDeleted(s, name))
  BY <1>2, PutFollows, PutNoCheckFollows, DeletedFollows
<1> QED BY <1>1, <1>3

LEMMA FollowingIsOneObject ==
    ASSUME NEW s, ExtInv(s)
    PROVE  Table!IsOneObject(s)
<1> DEFINE o == s.object
           Names == PropertyNames
           Listed(i) == \/ Names[i] \in DOMAIN o.table /\ ~Table!dontEnum(o.table[Names[i]])
                        \/ Table!Foreign(o, Names[i]) /\ "get" \in o.methods[Names[i]]
           First(i) == IF i = 0 THEN Table!getNameOfFirstPropertyExternal(o)
                       ELSE Table!getNameOfNextPropertyExternal(o, Names[i])
<1>1. ObjInv(o) /\ Gets(o) /\ s.agreed
  BY DEF ExtInv, ObjInv
<1>2. ASSUME NEW name \in Table!Used PROVE Table!getPropertyExternal(o, name) = s.read[name]
  <2>1. s.read[name] = ReadAs(o, name)
    BY DEF ExtInv
  <2> HIDE DEF o
  <2> QED BY <1>1, <2>1, ReadIs
<1>3. ASSUME NEW i \in 0 .. Len(Names)
      PROVE  First(i) = Table!FirstOf({j \in i + 1 .. Len(Names) : Listed(j)})
  <2>1. i \in 0 .. LastRank
    BY DEF LastRank
  <2>2. {j \in i + 1 .. Len(Names) : Listed(j)} = ListedAfter(o, i)
    <3>1. LastRank \in Nat /\ Len(Names) = LastRank
      BY LastRankIs DEF LastRank
    <3>2. \A j : j \in i + 1 .. LastRank <=> j \in 1 .. LastRank /\ j > i
      BY <2>1, <3>1
    <3>3. \A j : Listed(j) <=> \/ Names[j] \in DOMAIN o.table /\ ~Table!dontEnum(o.table[Names[j]])
                               \/ Reading(o, Names[j])
      BY DEF Reading, Table!Foreign
    <3> HIDE DEF Listed, o
    <3> QED BY <3>1, <3>2, <3>3 DEF ListedAfter
  <2> HIDE DEF o
  <2>3. First(i) = Table!FirstOf(ListedAfter(o, i))
    BY <1>1, <2>1, ListsAll
  <2> QED BY <2>2, <2>3
<1> QED BY <1>1, <1>2, <1>3 DEF Table!IsOneObject

ExternalInv == subject.kind = "external" /\ ExtInv(result)

LEMMA ExternalInvInit == ExternalInit => ExternalInv
<1> SUFFICES ASSUME ExternalInit PROVE ExternalInv
  OBVIOUS
<1>1. subject.kind = "external" /\ result \in Table!ExternalsMade
  BY DEF ExternalInit
<1> QED BY <1>1, MadeFollow DEF ExternalInv

LEMMA ExternalInvStep == ExternalInv /\ [UseExternal]_<<subject, result>> => ExternalInv'
<1> SUFFICES ASSUME ExternalInv, [UseExternal]_<<subject, result>> PROVE ExternalInv'
  OBVIOUS
<1>1. CASE UseExternal
  <2>1. subject' = subject /\ result' \in Table!ExternalChanged(result) /\ ExtInv(result)
    BY <1>1 DEF UseExternal, ExternalInv
  <2>2. ExtInv(result')
    BY <2>1, ExternalChangedFollows
  <2> QED BY <2>1, <2>2 DEF ExternalInv
<1>2. CASE UNCHANGED <<subject, result>>
  BY <1>2 DEF ExternalInv
<1> QED BY <1>1, <1>2

LEMMA ExternalInvSafe == ExternalInv => ExternalsAsOne
BY FollowingIsOneObject DEF ExternalInv, ExternalsAsOne

\* Whatever a script puts and deletes, and the host puts below, in an object
\* some of whose properties are the host's, the object is one: what is put is
\* read, as far as the host's methods allow it, and its names are listed in
\* order, each once.  JsScriptObjectExternal.cpp finds the host's names by two
\* searches by halves and merges them with the object's own.
THEOREM ExternalsStayOne == ExternalSpec => []ExternalsAsOne
<1>1. ExternalInit => ExternalInv
  BY ExternalInvInit
<1>2. ExternalInv /\ [UseExternal]_<<subject, result>> => ExternalInv'
  BY ExternalInvStep
<1>3. ExternalInv => ExternalsAsOne
  BY ExternalInvSafe
<1> QED BY <1>1, <1>2, <1>3, PTL DEF ExternalSpec
===============================================================================
