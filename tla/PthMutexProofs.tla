--------------------------- MODULE PthMutexProofs -----------------------------
(***************************************************************************)
(* Proof about PthMutex: the library and the application agree about who   *)
(* holds which mutex, and how often, for any number of threads and         *)
(* mutexes, any depth of recursion and any calls.                          *)
(***************************************************************************)
EXTENDS PthMutex, SequenceTheorems, WellFoundedInduction, TLAPS

-----------------------------------------------------------------------------
(*              Induction on numbers, as a fact about sets                 *)

LEMMA LeastNumber ==
    ASSUME NEW T, T \subseteq Nat, T # {}
    PROVE  \E m \in T : \A n \in T : m <= n
<1> DEFINE Less == {ss \in Nat \X Nat : ss[1] < ss[2]}
<1>1. IsWellFoundedOn(Less, Nat)
  BY NatLessThanWellFounded, Zenon DEF OpToRel
<1>2. PICK m \in T : \A n \in T : <<n, m>> \notin Less
  <2> HIDE DEF Less
  <2> QED BY <1>1, WFMin
<1>3. \A n \in T : ~(n < m)
  <2>1. \A n \in T : <<n, m>> \in Nat \X Nat /\ <<n, m>>[1] = n /\ <<n, m>>[2] = m
    OBVIOUS
  <2> QED BY <1>2, <2>1
<1> QED BY <1>3

LEMMA Steps ==
    ASSUME NEW S, 0 \in S, \A n \in Nat : n \in S => n + 1 \in S
    PROVE  Nat \subseteq S
<1> DEFINE T == {n \in Nat : n \notin S}
<1> SUFFICES ASSUME T # {} PROVE FALSE
  OBVIOUS
<1>1. PICK m \in T : \A n \in T : m <= n
  <2> T \subseteq Nat
    OBVIOUS
  <2> HIDE DEF T
  <2> QED BY LeastNumber
<1>2. m # 0 /\ m - 1 \in Nat /\ m - 1 \notin T
  BY <1>1
<1> QED BY <1>2

-----------------------------------------------------------------------------
(*                        The ring of a thread                             *)

Once(r) == \A i, j \in DOMAIN r : r[i] = r[j] => i = j

LEMMA AppendOnce ==
    ASSUME NEW S, NEW r \in Seq(S), NEW m \in S, Once(r), m \notin ToSet(r)
    PROVE  /\ Append(r, m) \in Seq(S) /\ Once(Append(r, m))
           /\ ToSet(Append(r, m)) = ToSet(r) \cup {m}
<1> DEFINE a == Append(r, m)
<1>1. /\ a \in Seq(S) /\ Len(r) \in Nat /\ Len(a) = Len(r) + 1
      /\ \A i \in 1 .. Len(r) : a[i] = r[i]
      /\ a[Len(r) + 1] = m
  BY AppendProperties, LenProperties
<1>2. DOMAIN r = 1 .. Len(r) /\ DOMAIN a = 1 .. Len(r) + 1
  BY <1>1, LenProperties
<1> HIDE DEF a
<1>3. \A i \in 1 .. Len(r) : r[i] \in ToSet(r)
  BY <1>2 DEF ToSet
<1>4. Once(a)
  BY <1>1, <1>2, <1>3 DEF Once
<1>5. ToSet(a) = ToSet(r) \cup {m}
  <2>1. ASSUME NEW x \in ToSet(a) PROVE x \in ToSet(r) \cup {m}
    BY <1>1, <1>2, <1>3, <2>1 DEF ToSet
  <2>2. ASSUME NEW x \in ToSet(r) PROVE x \in ToSet(a)
    BY <1>1, <1>2, <2>2 DEF ToSet
  <2>3. m \in ToSet(a)
    BY <1>1, <1>2 DEF ToSet
  <2> QED BY <2>1, <2>2, <2>3
<1> QED BY <1>1, <1>4, <1>5 DEF a

\* What defines the recursive function that deletes the mutexes M, which exists.
Keeps(f, r, M, n) ==
    f = [i \in 0 .. n |->
           IF i = 0 THEN <<>>
           ELSE IF r[i] \in M THEN f[i - 1] ELSE Append(f[i - 1], r[i])]

LEMMA KeptExists ==
    ASSUME NEW r, NEW M, NEW n \in Nat
    PROVE  \E f : Keeps(f, r, M, n)
<1> DEFINE F(f, k) == [i \in 0 .. k |->
                         IF i = 0 THEN <<>>
                         ELSE IF r[i] \in M THEN f[i - 1] ELSE Append(f[i - 1], r[i])]
           S == {k \in Nat : \E f : f = F(f, k)}
<1>1. 0 \in S
  <2> DEFINE g == [i \in 0 .. 0 |-> <<>>]
  <2>1. g = F(g, 0)
    OBVIOUS
  <2> QED BY <2>1
<1>2. ASSUME NEW k \in Nat, k \in S PROVE k + 1 \in S
  <2>1. PICK f : f = F(f, k)
    BY <1>2
  <2> DEFINE last == IF r[k + 1] \in M THEN f[k] ELSE Append(f[k], r[k + 1])
             g == [i \in 0 .. k + 1 |-> IF i = k + 1 THEN last ELSE f[i]]
  <2>2. ASSUME NEW i \in 0 .. k + 1 PROVE g[i] = F(g, k + 1)[i]
    <3>1. CASE i = 0
      BY <2>1, <3>1
    <3>2. CASE i = k + 1
      <4>1. g[i - 1] = f[k] /\ g[i] = last
        BY <3>2
      <4> QED BY <3>2, <4>1
    <3>3. CASE i # 0 /\ i # k + 1
      <4>1. i - 1 \in 0 .. k /\ i \in 0 .. k /\ i - 1 # k + 1
        BY <3>3
      <4>2. g[i - 1] = f[i - 1] /\ g[i] = f[i]
        BY <4>1, <3>3
      <4>3. f[i] = F(f, k)[i]
        BY <2>1
      <4> QED BY <3>3, <4>1, <4>2, <4>3
    <3> QED BY <3>1, <3>2, <3>3
  <2>3. g = F(g, k + 1)
    <3> HIDE DEF last
    <3> QED BY <2>2
  <2>4. \E h : h = F(h, k + 1)
    <3> HIDE DEF g, F
    <3> QED BY <2>3
  <2> QED BY <2>4
<1>3. n \in S
  <2> HIDE DEF S
  <2> QED BY <1>1, <1>2, Steps
<1> QED BY <1>3 DEF Keeps

LEMMA WithoutProps ==
    ASSUME NEW S, NEW r \in Seq(S), NEW M, Once(r)
    PROVE  /\ Without(r, M) \in Seq(S) /\ Once(Without(r, M))
           /\ ToSet(Without(r, M)) = ToSet(r) \ M
<1> DEFINE kept == CHOOSE f : Keeps(f, r, M, Len(r))
           Before(i) == {r[j] : j \in 1 .. i}
           Good == {i \in Nat : i <= Len(r) =>
                      /\ kept[i] \in Seq(S) /\ Once(kept[i])
                      /\ ToSet(kept[i]) = Before(i) \ M}
<1>1. Len(r) \in Nat /\ DOMAIN r = 1 .. Len(r) /\ \A i \in 1 .. Len(r) : r[i] \in S
  BY LenProperties, ElementOfSeq
<1>2. Keeps(kept, r, M, Len(r))
  BY <1>1, KeptExists
<1>3. Without(r, M) = kept[Len(r)]
  BY DEF Without, Keeps
<1> HIDE DEF kept
<1>4. 0 \in Good
  <2>1. kept[0] = <<>>
    BY <1>1, <1>2 DEF Keeps
  <2>2. <<>> \in Seq(S) /\ Once(<<>>) /\ ToSet(<<>>) = {} /\ Before(0) = {}
    BY EmptySeq DEF Once, ToSet
  <2> QED BY <2>1, <2>2
<1>5. ASSUME NEW n \in Nat, n \in Good PROVE n + 1 \in Good
  <2> SUFFICES ASSUME n + 1 <= Len(r)
               PROVE  /\ kept[n + 1] \in Seq(S) /\ Once(kept[n + 1])
                      /\ ToSet(kept[n + 1]) = Before(n + 1) \ M
    OBVIOUS
  <2>1. kept[n] \in Seq(S) /\ Once(kept[n]) /\ ToSet(kept[n]) = Before(n) \ M
    BY <1>1, <1>5
  <2>2. kept[n + 1] = IF r[n + 1] \in M THEN kept[n] ELSE Append(kept[n], r[n + 1])
    <3>1. n + 1 \in 0 .. Len(r) /\ n + 1 # 0 /\ (n + 1) - 1 = n
      BY <1>1
    <3> QED BY <1>2, <3>1 DEF Keeps
  <2>3. Before(n + 1) = Before(n) \cup {r[n + 1]}
    <3>1. 1 .. n + 1 = (1 .. n) \cup {n + 1}
      OBVIOUS
    <3> QED BY <3>1
  <2>4. r[n + 1] \in S /\ r[n + 1] \notin Before(n)
    BY <1>1 DEF Once
  <2> HIDE DEF Before
  <2>5. CASE r[n + 1] \in M
    BY <2>1, <2>2, <2>3, <2>5
  <2>6. CASE r[n + 1] \notin M
    <3>1. r[n + 1] \notin ToSet(kept[n])
      BY <2>1, <2>4
    <3>2. /\ Append(kept[n], r[n + 1]) \in Seq(S) /\ Once(Append(kept[n], r[n + 1]))
          /\ ToSet(Append(kept[n], r[n + 1])) = ToSet(kept[n]) \cup {r[n + 1]}
      BY <2>1, <2>4, <3>1, AppendOnce
    <3> QED BY <2>1, <2>2, <2>3, <2>6, <3>2
  <2> QED BY <2>5, <2>6
<1>6. Len(r) \in Good
  <2> HIDE DEF Good
  <2> QED BY <1>1, <1>4, <1>5, Steps
<1>7. Before(Len(r)) = ToSet(r)
  BY <1>1 DEF ToSet
<1> QED BY <1>1, <1>3, <1>6, <1>7

-----------------------------------------------------------------------------
(*                        The mutexes and the rings                        *)

MutexesOK ==
    /\ mx_owner \in [Mutexes -> Threads \cup {NULL}]
    /\ mx_count \in [Mutexes -> Int]
    /\ mutexring \in [Threads -> Seq(Mutexes)]
    /\ \A m \in Mutexes : Locked(m) => mx_count[m] > 0
    /\ \A t \in Threads : RingAgrees(t)

LEMMA LockOK ==
    ASSUME MutexesOK, NEW c \in Threads, NEW m \in Mutexes, Lock(c, m)
    PROVE  MutexesOK'
<1>1. /\ mx_owner' = [mx_owner EXCEPT ![m] = c] /\ mx_count' = [mx_count EXCEPT ![m] = 1]
      /\ mutexring' = [mutexring EXCEPT ![c] = Append(@, m)]
      /\ mx_owner[m] = NULL /\ NULL # c
  BY SyncAssumption DEF Lock, Locked
<1>2. /\ mutexring[c] \in Seq(Mutexes) /\ Once(mutexring[c])
      /\ \A k \in Mutexes : k \in ToSet(mutexring[c]) <=> mx_owner[k] = c
  BY DEF MutexesOK, RingAgrees, Once
<1>3. /\ Append(mutexring[c], m) \in Seq(Mutexes) /\ Once(Append(mutexring[c], m))
      /\ ToSet(Append(mutexring[c], m)) = ToSet(mutexring[c]) \cup {m}
  BY <1>1, <1>2, AppendOnce
<1>4. ASSUME NEW t \in Threads PROVE RingAgrees(t)'
  <2>1. CASE t = c
    <3>1. mutexring'[t] = Append(mutexring[c], m)
      BY <1>1, <2>1 DEF MutexesOK
    <3>2. \A k \in Mutexes : mx_owner'[k] = c <=> mx_owner[k] = c \/ k = m
      BY <1>1 DEF MutexesOK
    <3> QED BY <1>2, <1>3, <2>1, <3>1, <3>2 DEF RingAgrees, Once
  <2>2. CASE t # c
    <3>1. mutexring'[t] = mutexring[t]
      BY <1>1, <2>2 DEF MutexesOK
    <3>2. \A k \in Mutexes : mx_owner'[k] = t <=> mx_owner[k] = t
      BY <1>1, <2>2, SyncAssumption DEF MutexesOK
    <3> QED BY <3>1, <3>2 DEF MutexesOK, RingAgrees
  <2> QED BY <2>1, <2>2
<1>5. /\ mx_owner' \in [Mutexes -> Threads \cup {NULL}] /\ mx_count' \in [Mutexes -> Int]
      /\ \A k \in Mutexes : Locked(k)' => mx_count'[k] > 0
  BY <1>1 DEF MutexesOK, Locked
<1>6. mutexring' \in [Threads -> Seq(Mutexes)]
  BY <1>1, <1>3 DEF MutexesOK
<1> QED BY <1>4, <1>5, <1>6 DEF MutexesOK

LEMMA LockAgainOK ==
    ASSUME MutexesOK, NEW c \in Threads, NEW m \in Mutexes, LockAgain(c, m)
    PROVE  MutexesOK'
<1>1. mx_count' = [mx_count EXCEPT ![m] = @ + 1] /\ UNCHANGED <<mx_owner, mutexring>>
      /\ Locked(m)
  BY SyncAssumption DEF LockAgain, Locked
<1>2. \A t \in Threads : RingAgrees(t)'
  BY <1>1 DEF MutexesOK, RingAgrees
<1> QED BY <1>1, <1>2 DEF MutexesOK, Locked

\* Mutexes a thread owns are taken off its ring and unlocked, whatever else
\* becomes of the counts.
LEMMA UnlockOK ==
    ASSUME MutexesOK, NEW c \in Threads, NEW M,
           \A m \in M : m \in Mutexes /\ mx_owner[m] = c,
           mx_owner' = [m \in Mutexes |-> IF m \in M THEN NULL ELSE mx_owner[m]],
           mutexring' = [mutexring EXCEPT ![c] = Without(@, M)]
    PROVE  /\ mx_owner' \in [Mutexes -> Threads \cup {NULL}]
           /\ mutexring' \in [Threads -> Seq(Mutexes)]
           /\ \A t \in Threads : RingAgrees(t)'
<1>1. /\ mutexring[c] \in Seq(Mutexes) /\ Once(mutexring[c])
      /\ \A k \in Mutexes : k \in ToSet(mutexring[c]) <=> mx_owner[k] = c
  BY DEF MutexesOK, RingAgrees, Once
<1>2. /\ Without(mutexring[c], M) \in Seq(Mutexes) /\ Once(Without(mutexring[c], M))
      /\ ToSet(Without(mutexring[c], M)) = ToSet(mutexring[c]) \ M
  BY <1>1, WithoutProps
<1>3. ASSUME NEW t \in Threads PROVE RingAgrees(t)'
  <2>1. CASE t = c
    <3>1. mutexring'[t] = Without(mutexring[c], M)
      BY <2>1 DEF MutexesOK
    <3>2. \A k \in Mutexes : mx_owner'[k] = c <=> mx_owner[k] = c /\ k \notin M
      BY SyncAssumption
    <3> QED BY <1>1, <1>2, <2>1, <3>1, <3>2 DEF RingAgrees, Once
  <2>2. CASE t # c
    <3>1. mutexring'[t] = mutexring[t]
      BY <2>2 DEF MutexesOK
    <3>2. \A k \in Mutexes : mx_owner'[k] = t <=> mx_owner[k] = t
      BY <2>2, SyncAssumption
    <3> QED BY <3>1, <3>2 DEF MutexesOK, RingAgrees
  <2> QED BY <2>1, <2>2
<1>4. mutexring' \in [Threads -> Seq(Mutexes)]
  BY <1>2 DEF MutexesOK
<1> QED BY <1>3, <1>4 DEF MutexesOK

LEMMA ReleaseOK ==
    ASSUME MutexesOK, NEW c \in Threads, NEW m \in Mutexes, pth_mutex_release(c, m)
    PROVE  MutexesOK'
<1>1. mx_owner[m] = c /\ mx_count' = [mx_count EXCEPT ![m] = @ - 1] /\ mx_count[m] > 0
  BY SyncAssumption DEF pth_mutex_release, MutexesOK, Locked
<1>2. CASE mx_count[m] = 1
  <2>1. /\ mx_owner' = [k \in Mutexes |-> IF k \in {m} THEN NULL ELSE mx_owner[k]]
        /\ mutexring' = [mutexring EXCEPT ![c] = Without(@, {m})]
    BY <1>2 DEF pth_mutex_release, MutexesOK
  <2>2. /\ mx_owner' \in [Mutexes -> Threads \cup {NULL}]
        /\ mutexring' \in [Threads -> Seq(Mutexes)] /\ \A t \in Threads : RingAgrees(t)'
    <3> DEFINE M == {m}
    <3>1. \A k \in M : k \in Mutexes /\ mx_owner[k] = c
      BY <1>1
    <3>2. /\ mx_owner' = [k \in Mutexes |-> IF k \in M THEN NULL ELSE mx_owner[k]]
          /\ mutexring' = [mutexring EXCEPT ![c] = Without(@, M)]
      BY <2>1
    <3> HIDE DEF M
    <3> QED BY <3>1, <3>2, UnlockOK
  <2>3. mx_count' \in [Mutexes -> Int] /\ \A k \in Mutexes : Locked(k)' => mx_count'[k] > 0
    BY <1>1, <2>1 DEF MutexesOK, Locked
  <2> QED BY <2>2, <2>3 DEF MutexesOK
<1>3. CASE mx_count[m] # 1
  <2>1. UNCHANGED <<mx_owner, mutexring>> /\ mx_count[m] \in Int
    BY <1>3 DEF pth_mutex_release, MutexesOK
  <2>2. \A t \in Threads : RingAgrees(t)'
    BY <2>1 DEF MutexesOK, RingAgrees
  <2> QED BY <1>1, <1>3, <2>1, <2>2 DEF MutexesOK, Locked
<1> QED BY <1>2, <1>3

\* The walk of pth_mutex_releaseall meets mutexes of the thread only.
LEMMA WalkedAreOwned ==
    ASSUME MutexesOK, NEW t \in Threads
    PROVE  \A m \in Walked(t) : m \in Mutexes /\ mx_owner[m] = t
<1> DEFINE r == mutexring[t]
<1>1. r \in Seq(Mutexes) /\ \A m \in Mutexes : m \in ToSet(r) => mx_owner[m] = t
  BY DEF MutexesOK, RingAgrees
<1>2. ToSet(r) \subseteq Mutexes
  BY <1>1, LenProperties, ElementOfSeq DEF ToSet
<1>3. r # <<>> => r[1] \in ToSet(r)
  BY <1>1, LenProperties, EmptySeq DEF ToSet
<1>4. Walked(t) \subseteq ToSet(r)
  BY <1>3 DEF Walked
<1> QED BY <1>1, <1>2, <1>4

LEMMA ReleaseallOK ==
    ASSUME MutexesOK, NEW t \in Threads, pth_mutex_releaseall(t)
    PROVE  MutexesOK' /\ \A m \in Mutexes : mx_owner'[m] # NULL => mx_owner'[m] = mx_owner[m]
<1> DEFINE W    == Walked(t)
           Gone == {m \in W : mx_count[m] = 1}
<1>1. /\ mx_count' = [m \in Mutexes |-> IF m \in W THEN mx_count[m] - 1 ELSE mx_count[m]]
      /\ mx_owner' = [m \in Mutexes |-> IF m \in Gone THEN NULL ELSE mx_owner[m]]
      /\ mutexring' = [mutexring EXCEPT ![t] = Without(@, Gone)]
  BY DEF pth_mutex_releaseall
<1>2. \A m \in Gone : m \in Mutexes /\ mx_owner[m] = t
  BY WalkedAreOwned
<1>3. /\ mx_owner' \in [Mutexes -> Threads \cup {NULL}]
      /\ mutexring' \in [Threads -> Seq(Mutexes)] /\ \A u \in Threads : RingAgrees(u)'
  <2> HIDE DEF Gone
  <2> QED BY <1>1, <1>2, UnlockOK
<1>4. mx_count' \in [Mutexes -> Int] /\ \A m \in Mutexes : Locked(m)' => mx_count'[m] > 0
  BY <1>1, WalkedAreOwned DEF MutexesOK, Locked
<1> QED BY <1>1, <1>3, <1>4 DEF MutexesOK

-----------------------------------------------------------------------------
(*                     What the application knows                          *)

\* The part of HoldersAgree about the application.
HeldAgrees ==
    \A t \in Alive, m \in Mutexes :
        held[t][m] = IF mx_owner[m] = t THEN mx_count[m] ELSE 0

Types ==
    /\ pth_current \in Threads \cup {NULL}
    /\ state \in [Threads -> {"ready", "waiting", "dead"}]
    /\ held \in [Threads -> [Mutexes -> Int]]

\* Nobody who is dead or waits is dispatched.
RunningIsReady == pth_current # NULL => state[pth_current] = "ready"

\* The inductive invariant.
IInv == Types /\ RunningIsReady /\ MutexesOK /\ HeldAgrees

\* Who runs, or has come back from a wait, is alive.
LEMMA CallerAlive ==
    ASSUME IInv, NEW c \in Threads, Running(c) \/ Back(c)
    PROVE  pth_current = c /\ c # NULL /\ c \in Alive /\ state[c] = "ready"
BY SyncAssumption DEF IInv, RunningIsReady, Running, Back, Alive

\* Steps that leave the mutexes alone and revive nobody.
LEMMA NothingTaken ==
    ASSUME IInv, UNCHANGED mutexes, Types', RunningIsReady', Alive' \subseteq Alive,
           \A t \in Threads : t \in Alive' => held'[t] = held[t]
    PROVE  IInv'
<1>1. MutexesOK'
  <2>1. \A t \in Threads : RingAgrees(t)'
    BY DEF mutexes, IInv, MutexesOK, RingAgrees
  <2> QED BY <2>1 DEF mutexes, IInv, MutexesOK, Locked
<1>2. HeldAgrees'
  <2>1. Alive' \subseteq Threads
    BY DEF Alive
  <2> QED BY <2>1 DEF mutexes, IInv, HeldAgrees
<1> QED BY <1>1, <1>2 DEF IInv

LEMMA WaitKeeps ==
    ASSUME IInv, NEW c \in Threads, Running(c) \/ Back(c), NEW evs, Wait(c, evs),
           UNCHANGED <<mutexes, held>>
    PROVE  IInv'
<1>1. pth_current' = NULL /\ state' = [state EXCEPT ![c] = "waiting"]
  BY DEF Wait
<1>2. c \in Alive
  BY CallerAlive
<1>3. Types' /\ RunningIsReady' /\ Alive' \subseteq Alive
  BY <1>1, <1>2 DEF IInv, Types, RunningIsReady, Alive
<1> QED BY <1>3, NothingTaken

LEMMA StayKeeps ==
    ASSUME IInv, UNCHANGED <<state, mutexes, held>>, pth_current' \in {pth_current, NULL}
    PROVE  IInv'
<1>1. Types' /\ RunningIsReady' /\ Alive' \subseteq Alive
  BY DEF IInv, Types, RunningIsReady, Alive
<1> QED BY <1>1, NothingTaken

\* A mutex is acquired, or acquired once more, by a thread that goes on running.
LEMMA AcquireKeeps ==
    ASSUME IInv, NEW c \in Threads, NEW m \in Mutexes, Running(c) \/ Back(c),
           Lock(c, m) \/ LockAgain(c, m), UNCHANGED <<pth_current, state>>,
           held' = [held EXCEPT ![c][m] = @ + 1]
    PROVE  IInv'
<1>1. c \in Alive
  BY CallerAlive
<1>2. MutexesOK'
  BY LockOK, LockAgainOK DEF IInv
<1>3. Types' /\ RunningIsReady' /\ Alive' = Alive
  BY DEF IInv, Types, RunningIsReady, Alive
<1>4. ASSUME NEW t \in Alive, NEW k \in Mutexes
      PROVE  held'[t][k] = IF mx_owner'[k] = t THEN mx_count'[k] ELSE 0
  <2>1. /\ mx_owner[m] \in {NULL, c} /\ mx_owner' = [mx_owner EXCEPT ![m] = c]
        /\ mx_count' = [mx_count EXCEPT ![m] = IF mx_owner[m] = c THEN @ + 1 ELSE 1]
    <3>1. CASE Lock(c, m)
      BY <3>1, SyncAssumption DEF Lock, Locked
    <3>2. CASE LockAgain(c, m)
      BY <3>2 DEF LockAgain, IInv, MutexesOK
    <3> QED BY <3>1, <3>2
  <2>2. held[t][k] = (IF mx_owner[k] = t THEN mx_count[k] ELSE 0) /\ t \in Threads /\ t # NULL
    BY SyncAssumption DEF IInv, HeldAgrees, Alive
  <2>3. CASE k # m
    BY <2>1, <2>2, <2>3 DEF IInv, Types, MutexesOK
  <2>4. CASE k = m /\ t # c
    BY <2>1, <2>2, <2>4 DEF IInv, Types, MutexesOK
  <2>5. CASE k = m /\ t = c
    <3>1. held'[c][m] = held[c][m] + 1 /\ mx_owner'[m] = c
      BY <2>1 DEF IInv, Types, MutexesOK
    <3>2. mx_count'[m] = IF mx_owner[m] = c THEN mx_count[m] + 1 ELSE 1
      BY <2>1 DEF IInv, MutexesOK
    <3> QED BY <2>2, <2>5, <3>1, <3>2
  <2> QED BY <2>3, <2>4, <2>5
<1> QED BY <1>2, <1>3, <1>4 DEF IInv, HeldAgrees

LEMMA ReleaseKeeps ==
    ASSUME IInv, NEW c \in Threads, NEW m \in Mutexes, Release(c, m)
    PROVE  IInv'
<1>1. /\ Running(c) /\ pth_mutex_release(c, m) /\ held' = [held EXCEPT ![c][m] = @ - 1]
      /\ UNCHANGED <<pth_current, state>>
  BY DEF Release, sched
<1>2. MutexesOK' /\ c \in Alive
  BY <1>1, ReleaseOK, CallerAlive DEF IInv
<1>3. Types' /\ RunningIsReady' /\ Alive' = Alive
  BY <1>1 DEF IInv, Types, RunningIsReady, Alive
<1>4. ASSUME NEW t \in Alive, NEW k \in Mutexes
      PROVE  held'[t][k] = IF mx_owner'[k] = t THEN mx_count'[k] ELSE 0
  <2>1. /\ mx_owner[m] = c /\ mx_count' = [mx_count EXCEPT ![m] = @ - 1]
        /\ mx_owner' = [mx_owner EXCEPT ![m] = IF mx_count[m] = 1 THEN NULL ELSE @]
    BY <1>1 DEF pth_mutex_release, IInv, MutexesOK
  <2>2. held[t][k] = (IF mx_owner[k] = t THEN mx_count[k] ELSE 0) /\ t \in Threads /\ t # NULL
    BY SyncAssumption DEF IInv, HeldAgrees, Alive
  <2>3. CASE k # m
    BY <1>1, <2>1, <2>2, <2>3 DEF IInv, Types, MutexesOK
  <2>4. CASE k = m /\ t # c
    <3>1. mx_owner'[m] # t
      BY <2>1, <2>2, <2>4 DEF IInv, MutexesOK
    <3> QED BY <1>1, <2>1, <2>2, <2>4, <3>1 DEF IInv, Types
  <2>5. CASE k = m /\ t = c
    <3>1. held'[c][m] = held[c][m] - 1 /\ held[c][m] = mx_count[m] /\ mx_count[m] \in Int
      BY <1>1, <2>1, <2>2, <2>5 DEF IInv, Types, MutexesOK
    <3>2. mx_count'[m] = mx_count[m] - 1 /\ mx_owner'[m] = IF mx_count[m] = 1 THEN NULL ELSE c
      BY <2>1 DEF IInv, MutexesOK
    <3> QED BY <2>2, <2>5, <3>1, <3>2
  <2> QED BY <2>3, <2>4, <2>5
<1> QED BY <1>2, <1>3, <1>4 DEF IInv, HeldAgrees

-----------------------------------------------------------------------------
(*                     Threads that end or are dispatched                  *)

LEMMA ExitKeeps ==
    ASSUME IInv, NEW c \in Threads, Running(c) \/ Back(c), Exit(c)
    PROVE  IInv'
<1>1. /\ pth_current' = NULL /\ state' = [state EXCEPT ![c] = "dead"]
      /\ pth_mutex_releaseall(c) /\ held' = [held EXCEPT ![c] = [m \in Mutexes |-> 0]]
  BY DEF Exit, Die, NothingHeld
<1>2. MutexesOK'
  BY <1>1, ReleaseallOK DEF IInv
<1>3. Types' /\ RunningIsReady' /\ Alive' = Alive \ {c}
  BY <1>1 DEF IInv, Types, RunningIsReady, Alive
<1>4. ASSUME NEW t \in Alive', NEW m \in Mutexes
      PROVE  held'[t][m] = IF mx_owner'[m] = t THEN mx_count'[m] ELSE 0
  <2>1. t \in Alive /\ t \in Threads /\ t # c /\ t # NULL
    BY <1>3, SyncAssumption DEF Alive
  <2>2. held'[t][m] = IF mx_owner[m] = t THEN mx_count[m] ELSE 0
    BY <1>1, <2>1 DEF IInv, Types, HeldAgrees
  <2>3. m \in Walked(c) => mx_owner[m] = c
    BY WalkedAreOwned DEF IInv
  <2>4. mx_owner'[m] = t <=> mx_owner[m] = t
    BY <1>1, <2>1, <2>3 DEF pth_mutex_releaseall
  <2>5. mx_owner[m] = t => mx_count'[m] = mx_count[m]
    BY <1>1, <2>1, <2>3 DEF pth_mutex_releaseall
  <2> QED BY <2>2, <2>4, <2>5
<1> QED BY <1>2, <1>3, <1>4 DEF IInv, HeldAgrees

\* The canceller, who is not the owner, leaves the mutexes as they are.
LEMMA CancelAsyncKeeps ==
    ASSUME IInv, NEW c \in Threads, NEW u \in Threads, CancelAsync(c, u)
    PROVE  IInv'
<1>1. /\ UNCHANGED <<pth_current, mutexes>> /\ pth_current = c /\ u # c
      /\ state' = [state EXCEPT ![u] = "dead"]
      /\ held' = [held EXCEPT ![u] = [m \in Mutexes |-> 0]]
  BY DEF CancelAsync, NothingHeld, Running
<1>2. Types' /\ RunningIsReady' /\ Alive' = Alive \ {u}
  BY <1>1 DEF IInv, Types, RunningIsReady, Alive
<1>3. \A t \in Threads : t \in Alive' => held'[t] = held[t]
  BY <1>1, <1>2 DEF IInv, Types
<1>4. Alive' \subseteq Alive
  BY <1>2
<1> QED BY <1>1, <1>2, <1>3, <1>4, NothingTaken

LEMMA DispatchKeeps ==
    ASSUME IInv, NEW t \in Threads, Dispatch(t)
    PROVE  IInv'
<1>1. UNCHANGED <<mutexes, held>> /\ pth_current' = t
  BY DEF Dispatch, Schedule, Round
<1>2. PICK woken \in SUBSET Waiting :
          /\ state' = [u \in Threads |-> IF u \in woken THEN "ready" ELSE state[u]]
          /\ t \in Ready \cup woken
  BY DEF Dispatch, Schedule, Round, WokenBy
<1>3. Types' /\ RunningIsReady' /\ Alive' \subseteq Alive
  BY <1>1, <1>2 DEF IInv, Types, RunningIsReady, Alive, Ready, Waiting
<1> QED BY <1>1, <1>3, NothingTaken

-----------------------------------------------------------------------------
LEMMA InitOK == Init => IInv
<1> SUFFICES ASSUME Init PROVE IInv
  OBVIOUS
<1>1. Types /\ RunningIsReady
  BY DEF Init, SyncInit, Types, RunningIsReady
<1>2. MutexesOK
  <2>1. \A t \in Threads : RingAgrees(t)
    BY SyncAssumption DEF Init, SyncInit, RingAgrees, ToSet
  <2>2. mutexring \in [Threads -> Seq(Mutexes)]
    BY EmptySeq DEF Init, SyncInit
  <2> QED BY <2>1, <2>2 DEF Init, SyncInit, MutexesOK, Locked
<1>3. HeldAgrees
  BY DEF Init, SyncInit, HeldAgrees, Alive
<1> QED BY <1>1, <1>2, <1>3 DEF IInv

LEMMA NextOK ==
    ASSUME IInv, [Next]_vars
    PROVE  IInv'
<1>1. ASSUME NEW c \in Threads, NEW m \in Mutexes, AcquireNow(c, m) PROVE IInv'
  <2>1. /\ Running(c) /\ UNCHANGED <<pth_current, state>>
        /\ Lock(c, m) \/ LockAgain(c, m)
        /\ held' = [held EXCEPT ![c][m] = @ + 1]
    BY <1>1 DEF AcquireNow, sched
  <2> QED BY <2>1, AcquireKeeps
<1>2. ASSUME NEW c \in Threads, NEW m \in Mutexes, AcquireDone(c, m) PROVE IInv'
  <2>1. /\ Back(c) /\ UNCHANGED <<pth_current, state>> /\ Lock(c, m)
        /\ held' = [held EXCEPT ![c][m] = @ + 1]
    BY <1>2 DEF AcquireDone, Unlink
  <2> QED BY <2>1, AcquireKeeps
<1>3. ASSUME NEW c \in Threads, NEW m \in Mutexes, AcquireWait(c, m) \/ AcquireAgain(c, m)
      PROVE  IInv'
  <2>1. Running(c) \/ Back(c)
    BY <1>3 DEF AcquireWait, AcquireAgain
  <2>2. UNCHANGED <<mutexes, held>> /\ \E evs : Wait(c, evs)
    BY <1>3 DEF AcquireWait, AcquireAgain
  <2> QED BY <2>1, <2>2, WaitKeeps
<1>4. ASSUME NEW c \in Threads, NEW m \in Mutexes, AcquireInterrupted(c, m) PROVE IInv'
  <2>1. UNCHANGED <<pth_current, state, mutexes, held>>
    BY <1>4 DEF AcquireInterrupted, Unlink
  <2> QED BY <2>1, StayKeeps
<1>5. ASSUME NEW c \in Threads, ExitCall(c) \/ CancelledInWait(c) PROVE IInv'
  <2>1. (Running(c) \/ Back(c)) /\ Exit(c)
    BY <1>5 DEF ExitCall, CancelledInWait
  <2> QED BY <2>1, ExitKeeps
<1>6. ASSUME NEW c \in Threads, NEW u \in Threads, CancelDeferred(c, u) PROVE IInv'
  <2>1. UNCHANGED <<pth_current, state, mutexes, held>>
    BY <1>6 DEF CancelDeferred, sched
  <2> QED BY <2>1, StayKeeps
<1>7. ASSUME NEW c \in Threads, Yield(c) PROVE IInv'
  <2>1. UNCHANGED <<state, mutexes, held>> /\ pth_current' = NULL
    BY <1>7 DEF Yield, pth_yield
  <2> QED BY <2>1, StayKeeps
<1>8. CASE UNCHANGED vars
  <2>1. UNCHANGED <<pth_current, state, mutexes, held>>
    BY <1>8 DEF vars, sched
  <2> QED BY <2>1, StayKeeps
<1> QED
  BY <1>1, <1>2, <1>3, <1>4, <1>5, <1>6, <1>7, <1>8, ReleaseKeeps, CancelAsyncKeeps, DispatchKeeps
     DEF Next, ReturnStep, CallStep

(* Mutual exclusion: whatever threads acquire, release, cancel and end, a  *)
(* thread alive holds a mutex as often as the library counts for it, and   *)
(* the rings by which the mutexes of a thread are found when it ends       *)
(* contain just what it owns (pth_mutex_acquire, _release, _releaseall).   *)
THEOREM MutualExclusion == Spec => []HoldersAgree
<1>1. IInv => HoldersAgree
  BY DEF IInv, MutexesOK, HeldAgrees, HoldersAgree
<1> QED BY <1>1, InitOK, NextOK, PTL DEF Spec

=============================================================================
