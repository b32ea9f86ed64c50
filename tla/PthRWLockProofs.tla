--------------------------- MODULE PthRWLockProofs ----------------------------
(***************************************************************************)
(* Proof about PthRWLock: while a thread has the lock to write nobody else *)
(* has it, for any numbers of threads that read, write or do both, that    *)
(* give up, are cancelled or end, until one of three steps loses the lock. *)
(***************************************************************************)
EXTENDS PthRWLock, FiniteSetTheorems, TLAPS

Types ==
    /\ waitfor \in [Threads -> SUBSET Event]
    /\ pc \in [Threads -> {"run", "write", "read", "read_first"}]
    /\ role \in [Threads -> {"none", "RD", "RW"}]
    /\ mx_owner \in [Mutexes -> Threads \cup {NULL}]
    /\ mx_count \in [Mutexes -> Int]
    /\ DOMAIN mutexring = Threads
    /\ rw_readers \in Nat /\ rw_mode \in {"RD", "RW"}

\* Only inside of an acquisition a thread waits, and then it has nothing.
WaitsInCall ==
    \A t \in Threads : /\ waitfor[t] # {} <=> pc[t] # "run"
                       /\ pc[t] # "run" => role[t] = "none"

WriterOwns == \A t \in Threads : role[t] = "RW" => mx_owner[rw] = t /\ rw_mode = "RW"

\* One of the readers, present or past, owns the read-write mutex for all.
ReaderOwns == \A t \in Threads : role[t] = "RD" => Locked(rw) /\ rw_mode = "RD"

Firsts == {t \in Threads : pc[t] = "read_first"}

OwnerHas ==
    Locked(rw) => /\ mx_count[rw] = 1
                  /\ IF rw_mode = "RD" THEN rw_readers > 0 /\ Firsts = {}
                                       ELSE role[mx_owner[rw]] = "RW"

\* The reader mutex is held for the wait of a first reader.
FirstAlone ==
    /\ \A t \in Firsts : mx_owner[rd] = t /\ rw_readers = 1
    /\ Locked(rd) => mx_count[rd] = 1 /\ mx_owner[rd] \in Firsts

\* Readers that ended with the lock stay counted, and it stays locked.
ReadersCounted ==
    /\ Cardinality(Has("RD")) <= rw_readers
    /\ rw_readers > 0 /\ Firsts = {} => Locked(rw) /\ rw_mode = "RD"

\* What the ring of a thread has when it ends.
Ring(t) == IF t \in Firsts THEN <<rd>> ELSE IF mx_owner[rw] = t THEN <<rw>> ELSE <<>>

RingsHave == \A t \in Threads : mutexring[t] = Ring(t)

\* The inductive invariant, as long as the lock is not lost.
IInv ==
    /\ Types /\ WaitsInCall /\ WriterOwns /\ ReaderOwns
    /\ OwnerHas /\ FirstAlone /\ ReadersCounted /\ RingsHave

-----------------------------------------------------------------------------
(*                         Counting the readers                            *)

LEMMA SetsFinite ==
    /\ IsFiniteSet(Has("RD")) /\ Cardinality(Has("RD")) \in Nat
    /\ IsFiniteSet(Firsts) /\ Cardinality(Firsts) \in Nat
<1>1. Has("RD") \subseteq Threads /\ Firsts \subseteq Threads /\ IsFiniteSet(Threads)
  BY RWLockAssumption DEF Has, Firsts
<1> QED BY <1>1, FS_Subset, FS_CardinalityType

LEMMA NoReaders ==
    ASSUME IInv, rw_readers = 0
    PROVE  Has("RD") = {} /\ Firsts = {}
<1>1. Cardinality(Has("RD")) = 0
  BY SetsFinite DEF IInv, ReadersCounted
<1>2. Firsts = {}
  BY DEF IInv, FirstAlone
<1> QED BY <1>1, <1>2, SetsFinite, FS_EmptySet

LEMMA OneFirst ==
    ASSUME IInv, NEW c \in Firsts
    PROVE  Firsts = {c} /\ Has("RD") = {} /\ rw_readers = 1 /\ mx_owner[rw] # c
<1>1. Firsts = {c} /\ rw_readers = 1
  BY DEF IInv, FirstAlone
<1>2. Has("RD") = {}
  BY <1>1 DEF IInv, ReaderOwns, OwnerHas, Has
<1>3. c \in Threads /\ role[c] = "none"
  BY DEF Firsts, IInv, WaitsInCall
<1>4. mx_owner[rw] # c
  BY <1>1, <1>3, SyncAssumption DEF IInv, OwnerHas, Locked
<1> QED BY <1>1, <1>2, <1>4

LEMMA NoFirst ==
    ASSUME IInv, ~Locked(rd)
    PROVE  Firsts = {}
BY SyncAssumption DEF IInv, FirstAlone, Firsts, Locked

LEMMA LastReader ==
    ASSUME IInv, NEW c \in Has("RD"), rw_readers = 1
    PROVE  Has("RD") = {c}
<1>1. Cardinality(Has("RD")) <= 1
  BY SetsFinite DEF IInv, ReadersCounted
<1>2. /\ IsFiniteSet(Has("RD") \ {c}) /\ Cardinality(Has("RD") \ {c}) \in Nat
      /\ Cardinality(Has("RD") \ {c}) = Cardinality(Has("RD")) - 1
  BY SetsFinite, FS_RemoveElement, FS_CardinalityType
<1>3. Cardinality(Has("RD") \ {c}) = 0
  BY <1>1, <1>2, SetsFinite
<1> QED BY <1>2, <1>3, FS_EmptySet

LEMMA FewerReaders ==
    ASSUME NEW S, S \subseteq Has("RD")
    PROVE  Cardinality(S) <= Cardinality(Has("RD")) /\ Cardinality(S) \in Nat
BY SetsFinite, FS_Subset, FS_CardinalityType

-----------------------------------------------------------------------------
(*                               Steps                                     *)

LEMMA Mutex2 == rd \in Mutexes /\ rw \in Mutexes /\ rd # rw /\ MUTEX(rd) \in Event /\ MUTEX(rw) \in Event
BY RWLockAssumption DEF Event

LEMMA ExtrasAreEvents == ASSUME NEW extra \in Extras PROVE extra \subseteq Event
BY DEF Extras, Event

\* Steps that concern waits and control only, or give up a reader's lock.
LEMMA QuietKeeps ==
    ASSUME IInv, UNCHANGED <<mx_owner, mx_count, lock>>,
           \A t \in Threads : role'[t] = role[t] \/ (role[t] = "RD" /\ role'[t] = "none"),
           \A t \in Threads : mutexring'[t] = mutexring[t],
           Types', WaitsInCall', Firsts' = Firsts
    PROVE  IInv'
<1>1. UNCHANGED <<rw_readers, rw_mode>>
  BY DEF lock
<1>2. WriterOwns' /\ ReaderOwns' /\ FirstAlone'
  <2>1. \A t \in Threads : role'[t] \in {"RD", "RW"} => role'[t] = role[t]
    OBVIOUS
  <2>2. WriterOwns' /\ ReaderOwns'
    BY <1>1, <2>1 DEF IInv, WriterOwns, ReaderOwns, Locked
  <2>3. FirstAlone'
    BY <1>1 DEF IInv, FirstAlone, Locked
  <2> QED BY <2>2, <2>3
<1>3. OwnerHas'
  <2> SUFFICES ASSUME Locked(rw)
               PROVE  /\ mx_count[rw] = 1
                      /\ IF rw_mode = "RD" THEN rw_readers > 0 /\ Firsts = {}
                                           ELSE role'[mx_owner[rw]] = "RW"
    BY <1>1 DEF OwnerHas, Locked
  <2>1. mx_owner[rw] \in Threads
    BY Mutex2 DEF IInv, Types, Locked
  <2>2. role[mx_owner[rw]] = "RW" => role'[mx_owner[rw]] = "RW"
    BY <2>1
  <2> QED BY <2>2 DEF IInv, OwnerHas
<1>4. ReadersCounted'
  <2>1. Has("RD")' \subseteq Has("RD")
    BY DEF Has
  <2>2. /\ Cardinality(Has("RD")') <= Cardinality(Has("RD"))
        /\ Cardinality(Has("RD")') \in Nat /\ Cardinality(Has("RD")) \in Nat
    BY <2>1, FewerReaders, SetsFinite
  <2>3. Cardinality(Has("RD")') <= rw_readers'
    BY <1>1, <2>2 DEF IInv, Types, ReadersCounted
  <2> QED BY <1>1, <2>3 DEF IInv, ReadersCounted, Locked
<1>5. RingsHave'
  BY DEF IInv, RingsHave, Ring
<1> QED BY <1>2, <1>3, <1>4, <1>5 DEF IInv

LEMMA WaitTypes ==
    ASSUME IInv, NEW c \in Threads, NEW evs \in SUBSET Event, evs # {}, Wait(c, evs),
           NEW k \in {"write", "read", "read_first"}, Goto(c, k), role[c] = "none",
           UNCHANGED role
    PROVE  /\ waitfor' \in [Threads -> SUBSET Event]
           /\ pc' \in [Threads -> {"run", "write", "read", "read_first"}]
           /\ WaitsInCall'
BY DEF Wait, Goto, IInv, Types, WaitsInCall

\* A thread that goes on with something acquired, or with nothing.
LEMMA RunTypes ==
    ASSUME IInv, NEW c \in Threads, NEW r \in {"none", "RD", "RW"},
           waitfor' = waitfor \/ waitfor' = [waitfor EXCEPT ![c] = {}],
           waitfor'[c] = {}, Goto(c, "run"), Gets(c, r)
    PROVE  /\ waitfor' \in [Threads -> SUBSET Event]
           /\ pc' \in [Threads -> {"run", "write", "read", "read_first"}]
           /\ role' \in [Threads -> {"none", "RD", "RW"}]
           /\ WaitsInCall'
BY DEF Goto, Gets, IInv, Types, WaitsInCall

LEMMA GoesOnUnlinks ==
    ASSUME IInv, NEW c \in Threads, Running(c) \/ Back(c), GoesOn(c) \/ Unlink(c)
    PROVE  /\ waitfor' = waitfor \/ waitfor' = [waitfor EXCEPT ![c] = {}]
           /\ waitfor'[c] = {}
BY DEF Running, Back, GoesOn, Unlink, sched, IInv, Types

\* Who starts an acquisition or comes back to it has nothing.
LEMMA CallerHasNothing ==
    ASSUME IInv, NEW c \in Threads, NEW k \in {"write", "read", "read_first"}, NEW m,
           Start(c) \/ Through(c, k, m)
    PROVE  role[c] = "none"
BY DEF Start, Through, IInv, WaitsInCall

LEMMA WriteWaitKeeps ==
    ASSUME IInv, NEW c \in Threads, WriteWait(c) \/ ReadWait(c)
    PROVE  IInv'
<1>1. UNCHANGED <<mutexes, lock, role>>
  BY DEF WriteWait, ReadWait
<1>2. PICK k \in {"write", "read"} :
          /\ role[c] = "none" /\ pc[c] \in {"run", k} /\ Goto(c, k)
          /\ \E evs \in SUBSET Event : evs # {} /\ Wait(c, evs)
  <2>1. ASSUME NEW k \in {"write", "read"}, NEW m \in {rd, rw}, Goto(c, k),
               \/ Start(c) /\ \E extra \in Extras : Wait(c, {MUTEX(m)} \cup extra)
               \/ Through(c, k, m) /\ Wait(c, waitfor[c])
        PROVE  /\ role[c] = "none" /\ pc[c] \in {"run", k} /\ Goto(c, k)
               /\ \E evs \in SUBSET Event : evs # {} /\ Wait(c, evs)
    <3>1. role[c] = "none"
      BY <2>1, CallerHasNothing
    <3>2. CASE Start(c) /\ \E extra \in Extras : Wait(c, {MUTEX(m)} \cup extra)
      <4>1. pc[c] = "run"
        BY <3>2 DEF Start, Running, IInv, WaitsInCall
      <4>2. \A extra \in Extras : {MUTEX(m)} \cup extra \in SUBSET Event
        BY Mutex2, ExtrasAreEvents
      <4>3. \E evs \in SUBSET Event : evs # {} /\ Wait(c, evs)
        BY <3>2, <4>2
      <4> QED BY <2>1, <3>1, <4>1, <4>3
    <3>3. CASE Through(c, k, m) /\ Wait(c, waitfor[c])
      <4>1. pc[c] = k /\ waitfor[c] \in SUBSET Event /\ waitfor[c] # {}
        BY <3>3 DEF Through, Back, IInv, Types
      <4> QED BY <2>1, <3>1, <3>3, <4>1
    <3> QED BY <2>1, <3>2, <3>3
  <2>2. CASE WriteWait(c)
    BY <2>1, <2>2 DEF WriteWait
  <2>3. CASE ReadWait(c)
    BY <2>1, <2>3 DEF ReadWait
  <2> QED BY <2>2, <2>3
<1>4. /\ waitfor' \in [Threads -> SUBSET Event] /\ WaitsInCall'
      /\ pc' \in [Threads -> {"run", "write", "read", "read_first"}]
  BY <1>1, <1>2, WaitTypes
<1>5. Types'
  BY <1>1, <1>4 DEF IInv, Types, mutexes, lock
<1>6. Firsts' = Firsts
  <2>1. pc[c] # "read_first"
    BY <1>2
  <2> QED BY <1>2, <2>1 DEF Goto, Firsts, IInv, Types
<1> QED BY <1>1, <1>4, <1>5, <1>6, QuietKeeps DEF mutexes

LEMMA RingOfOne ==
    /\ \A M : Without(<<>>, M) = <<>>
    /\ \A m : Without(<<m>>, {m}) = <<>>
<1>1. ASSUME NEW M PROVE Without(<<>>, M) = <<>>
  <2> DEFINE F(f) == [i \in 0 .. Len(<<>>) |->
                        IF i = 0 THEN <<>>
                        ELSE IF <<>>[i] \in M THEN f[i - 1] ELSE Append(f[i - 1], <<>>[i])]
             g == [i \in 0 .. Len(<<>>) |-> <<>>]
  <2>1. \A f : F(f) = g
    OBVIOUS
  <2>2. g = F(g)
    BY <2>1
  <2>3. (CHOOSE f : f = F(f)) = F(CHOOSE f : f = F(f))
    <3> HIDE DEF F, g
    <3> QED BY <2>2
  <2>4. F(CHOOSE f : f = F(f)) = g /\ g[Len(<<>>)] = <<>>
    BY <2>1
  <2>5. (CHOOSE f : f = F(f)) = g
    <3> HIDE DEF F, g
    <3> QED BY <2>3, <2>4
  <2>6. Without(<<>>, M) = (CHOOSE f : f = F(f))[Len(<<>>)]
    BY DEF Without
  <2> QED
    <3> HIDE DEF F, g
    <3> QED BY <2>4, <2>5, <2>6
<1>2. ASSUME NEW m PROVE Without(<<m>>, {m}) = <<>>
  <2> DEFINE F(f) == [i \in 0 .. Len(<<m>>) |->
                        IF i = 0 THEN <<>>
                        ELSE IF <<m>>[i] \in {m} THEN f[i - 1] ELSE Append(f[i - 1], <<m>>[i])]
             g == [i \in 0 .. Len(<<m>>) |-> <<>>]
             f0 == CHOOSE f : f = F(f)
  <2>1. Len(<<m>>) = 1 /\ <<m>>[1] = m
    OBVIOUS
  <2>2. g = F(g)
    <3>1. \A i \in 0 .. Len(<<m>>) : g[i] = F(g)[i]
      BY <2>1
    <3> QED BY <3>1
  <2>3. f0 = F(f0)
    <3> HIDE DEF F, g
    <3> QED BY <2>2
  <2>4. Without(<<m>>, {m}) = f0[1]
    BY <2>1 DEF Without
  <2> HIDE DEF f0
  <2>5. f0[1] = f0[0] /\ f0[0] = <<>>
    BY <2>1, <2>3
  <2> QED BY <2>4, <2>5
<1> QED BY <1>1, <1>2

\* Where a thread that starts, or comes back to, a call is.
LEMMA CallerPlace ==
    ASSUME IInv, NEW c \in Threads, NEW k \in {"write", "read", "read_first"}, NEW m,
           Start(c) \/ Through(c, k, m)
    PROVE  role[c] = "none" /\ pc[c] \in {"run", k} /\ (Running(c) \/ Back(c))
<1>1. Start(c) => pc[c] = "run" /\ Running(c)
  BY DEF Start, Running, IInv, WaitsInCall
<1>2. Through(c, k, m) => pc[c] = k /\ Back(c)
  BY DEF Through
<1> QED BY <1>1, <1>2, CallerHasNothing

LEMMA NullIsNoThread == ASSUME NEW c \in Threads PROVE c # NULL
BY SyncAssumption

\* A thread acquires one of the mutexes that is free.
LEMMA LockTypes ==
    ASSUME IInv, NEW c \in Threads, NEW m \in Mutexes, Lock(c, m)
    PROVE  /\ mx_owner' \in [Mutexes -> Threads \cup {NULL}]
           /\ mx_count' \in [Mutexes -> Int]
           /\ DOMAIN mutexring' = Threads
<1>1. /\ mx_owner \in [Mutexes -> Threads \cup {NULL}]
      /\ mx_count \in [Mutexes -> Int] /\ DOMAIN mutexring = Threads
  BY DEF IInv, Types
<1>2. /\ mx_owner' = [mx_owner EXCEPT ![m] = c]
      /\ mx_count' = [mx_count EXCEPT ![m] = 1]
      /\ mutexring' = [mutexring EXCEPT ![c] = Append(@, m)]
  BY DEF Lock
<1>3. DOMAIN mutexring' = Threads
  BY <1>1, <1>2
<1> QED BY <1>1, <1>2, <1>3

LEMMA WriteNowKeeps ==
    ASSUME IInv, NEW c \in Threads, WriteNow(c), ~lost'
    PROVE  IInv'
<1>1. /\ Start(c) \/ Through(c, "write", rw)
      /\ rw_mode' = "RW" /\ GoesOn(c) /\ Gets(c, "RW") /\ Goto(c, "run")
      /\ ~OwnsForReaders(c)
      /\ UNCHANGED rw_readers
  BY DEF WriteNow
<1>2. c # NULL
  BY NullIsNoThread
<1>3. role[c] = "none" /\ pc[c] \in {"run", "write"} /\ (Running(c) \/ Back(c))
  BY <1>1, CallerPlace
<1>4. Lock(c, rw)
  <2>1. mx_owner[rw] # c
    BY <1>1, <1>2, <1>3 DEF OwnsForReaders, IInv, OwnerHas, Locked
  <2> QED BY <2>1 DEF WriteNow, LockAgain
<1>5. /\ mx_owner[rw] = NULL /\ mx_owner' = [mx_owner EXCEPT ![rw] = c]
      /\ mx_count' = [mx_count EXCEPT ![rw] = 1]
      /\ mutexring' = [mutexring EXCEPT ![c] = Append(@, rw)]
  BY <1>4 DEF Lock, Locked
<1>6. /\ \A t \in Threads : role[t] = "none"
      /\ Has("RD") = {} /\ Has("RD")' = {}
  <2>1. \A t \in Threads : role[t] = "none"
    BY <1>5, NullIsNoThread DEF IInv, Types, WriterOwns, ReaderOwns, Locked
  <2> QED BY <1>1, <2>1 DEF Has, Gets, IInv, Types
<1>7. /\ WaitsInCall' /\ Types'
  <2>1. /\ waitfor' = waitfor \/ waitfor' = [waitfor EXCEPT ![c] = {}]
        /\ waitfor'[c] = {}
    BY <1>1, <1>3, GoesOnUnlinks
  <2>2. /\ waitfor' \in [Threads -> SUBSET Event]
        /\ pc' \in [Threads -> {"run", "write", "read", "read_first"}]
        /\ role' \in [Threads -> {"none", "RD", "RW"}]
        /\ WaitsInCall'
    BY <1>1, <2>1, RunTypes
  <2>3. rw_readers' \in Nat /\ rw_mode' \in {"RD", "RW"}
    BY <1>1 DEF IInv, Types
  <2> QED BY <1>4, <2>2, <2>3, LockTypes, Mutex2 DEF Types
<1>8. Firsts' = Firsts /\ c \notin Firsts
  BY <1>1, <1>3 DEF Goto, Firsts, IInv, Types
<1>9. mx_owner'[rw] = c /\ mx_count'[rw] = 1 /\ mx_owner'[rd] = mx_owner[rd] /\ mx_count'[rd] = mx_count[rd]
  BY <1>5, Mutex2 DEF IInv, Types
<1>10. WriterOwns' /\ ReaderOwns'
  BY <1>1, <1>6, <1>9 DEF WriterOwns, ReaderOwns, Gets, IInv, Types
<1>11. OwnerHas'
  <2>1. role'[c] = "RW"
    BY <1>1 DEF Gets, IInv, Types
  <2> QED BY <1>1, <1>9, <2>1 DEF OwnerHas
<1>12. FirstAlone'
  BY <1>1, <1>8, <1>9 DEF FirstAlone, Locked, IInv
<1>13. ReadersCounted'
  <2>1. Cardinality(Has("RD")') = 0 /\ 0 <= rw_readers'
    BY <1>6, <1>7, FS_EmptySet DEF Types
  <2>2. ~(rw_readers' > 0 /\ Firsts' = {})
    BY <1>1, <1>5, <1>8 DEF IInv, ReadersCounted, Locked
  <2> QED BY <2>1, <2>2 DEF ReadersCounted
<1>14. RingsHave'
  <2>1. mutexring[c] = <<>> /\ Append(<<>>, rw) = <<rw>>
    BY <1>2, <1>5, <1>8 DEF IInv, RingsHave, Ring
  <2>2. \A t \in Threads : t # c => mutexring'[t] = mutexring[t] /\ mx_owner[rw] # t /\ mx_owner'[rw] # t
    BY <1>5, <1>9, NullIsNoThread DEF IInv, Types
  <2>3. mutexring'[c] = <<rw>>
    BY <1>5, <2>1 DEF IInv, Types
  <2> QED BY <1>8, <1>9, <2>2, <2>3 DEF IInv, RingsHave, Ring
<1> QED BY <1>7, <1>10, <1>11, <1>12, <1>13, <1>14 DEF IInv

\* A reader gets the lock, as the first of them or not.
LEMMA ReadTypes ==
    ASSUME IInv, NEW c \in Threads, ReadMay(c), Read(c)
    PROVE  /\ c \in Readers /\ role[c] = "none" /\ ~Locked(rd)
           /\ waitfor' \in [Threads -> SUBSET Event]
           /\ pc' \in [Threads -> {"run", "write", "read", "read_first"}]
           /\ role' \in [Threads -> {"none", "RD", "RW"}]
           /\ WaitsInCall' /\ Firsts' = {} /\ Firsts = {}
           /\ rw_readers' = rw_readers + 1 /\ rw_mode' = "RD" /\ Gets(c, "RD")
<1>1. /\ c \in Readers
      /\ Start(c) \/ Through(c, "read", rd)
      /\ ~Locked(rd)
      /\ rw_readers' = rw_readers + 1 /\ rw_mode' = "RD"
      /\ GoesOn(c) /\ Gets(c, "RD") /\ Goto(c, "run")
  BY DEF ReadMay, Read
<1>2. role[c] = "none" /\ pc[c] \in {"run", "read"} /\ (Running(c) \/ Back(c))
  BY <1>1, CallerPlace
<1>3. /\ waitfor' = waitfor \/ waitfor' = [waitfor EXCEPT ![c] = {}]
      /\ waitfor'[c] = {}
  BY <1>1, <1>2, GoesOnUnlinks
<1>4. /\ waitfor' \in [Threads -> SUBSET Event]
      /\ pc' \in [Threads -> {"run", "write", "read", "read_first"}]
      /\ role' \in [Threads -> {"none", "RD", "RW"}]
      /\ WaitsInCall'
  BY <1>1, <1>3, RunTypes
<1>5. Firsts = {}
  BY <1>1, NoFirst
<1>6. Firsts' = {}
  BY <1>1, <1>5 DEF Goto, Firsts, IInv, Types
<1> QED BY <1>1, <1>2, <1>4, <1>5, <1>6

LEMMA OneMoreReader ==
    ASSUME IInv, NEW c \in Threads, role[c] = "none", Gets(c, "RD")
    PROVE  /\ Has("RD")' = Has("RD") \cup {c}
           /\ Cardinality(Has("RD")') = Cardinality(Has("RD")) + 1
<1>1. Has("RD")' = Has("RD") \cup {c} /\ c \notin Has("RD")
  BY DEF Gets, Has, IInv, Types
<1>2. Cardinality(Has("RD") \cup {c}) = Cardinality(Has("RD")) + 1
  BY <1>1, SetsFinite, FS_AddElement
<1> QED BY <1>1, <1>2

LEMMA ReadFirstKeeps ==
    ASSUME IInv, NEW c \in Threads, ReadFirst(c)
    PROVE  IInv'
<1>1. ReadMay(c) /\ Read(c) /\ rw_readers = 0 /\ (Lock(c, rw) \/ LockAgain(c, rw))
  BY DEF ReadFirst
<1>2. /\ c \in Readers /\ role[c] = "none" /\ ~Locked(rd)
      /\ waitfor' \in [Threads -> SUBSET Event]
      /\ pc' \in [Threads -> {"run", "write", "read", "read_first"}]
      /\ role' \in [Threads -> {"none", "RD", "RW"}]
      /\ WaitsInCall' /\ Firsts' = {} /\ Firsts = {}
      /\ rw_readers' = rw_readers + 1 /\ rw_mode' = "RD" /\ Gets(c, "RD")
  BY <1>1, ReadTypes
<1>3. Lock(c, rw)
  <2>1. mx_owner[rw] # c
    BY <1>1, <1>2, NullIsNoThread DEF IInv, OwnerHas, Locked
  <2> QED BY <1>1, <2>1 DEF LockAgain
<1>4. /\ mx_owner[rw] = NULL /\ mx_owner' = [mx_owner EXCEPT ![rw] = c]
      /\ mx_count' = [mx_count EXCEPT ![rw] = 1]
      /\ mutexring' = [mutexring EXCEPT ![c] = Append(@, rw)]
  BY <1>3 DEF Lock, Locked
<1>5. mx_owner'[rw] = c /\ mx_count'[rw] = 1 /\ mx_owner'[rd] = mx_owner[rd] /\ c # NULL
  BY <1>4, Mutex2, NullIsNoThread DEF IInv, Types
<1>6. Types'
  <2>1. rw_readers' \in Nat /\ rw_mode' \in {"RD", "RW"}
    BY <1>1, <1>2
  <2> QED BY <1>2, <1>3, <2>1, LockTypes, Mutex2 DEF Types
<1>7. \A t \in Threads : role'[t] # "RW"
  BY <1>2, <1>4, NullIsNoThread DEF IInv, WriterOwns, Gets, Types
<1>8. WriterOwns' /\ ReaderOwns' /\ OwnerHas'
  BY <1>1, <1>2, <1>5, <1>7 DEF WriterOwns, ReaderOwns, OwnerHas, Locked
<1>9. FirstAlone'
  BY <1>2, <1>5 DEF FirstAlone, Locked
<1>10. ReadersCounted'
  <2>1. Cardinality(Has("RD")') = Cardinality(Has("RD")) + 1
    BY <1>2, OneMoreReader
  <2>2. Cardinality(Has("RD")') <= rw_readers'
    BY <1>1, <1>2, <2>1, SetsFinite DEF IInv, ReadersCounted
  <2> QED BY <1>2, <1>5, <2>2 DEF ReadersCounted, Locked
<1>11. RingsHave'
  <2>1. mutexring[c] = <<>> /\ Append(<<>>, rw) = <<rw>>
    BY <1>2, <1>4, <1>5 DEF IInv, RingsHave, Ring
  <2>2. \A t \in Threads : t # c => mutexring'[t] = mutexring[t] /\ mx_owner[rw] # t /\ mx_owner'[rw] # t
    BY <1>4, <1>5, NullIsNoThread DEF IInv, Types
  <2>3. mutexring'[c] = <<rw>>
    BY <1>4, <2>1 DEF IInv, Types
  <2> QED BY <1>2, <1>5, <2>2, <2>3 DEF IInv, RingsHave, Ring
<1> QED BY <1>2, <1>6, <1>8, <1>9, <1>10, <1>11 DEF IInv

LEMMA ReadMoreKeeps ==
    ASSUME IInv, NEW c \in Threads, ReadMore(c)
    PROVE  IInv'
<1>1. ReadMay(c) /\ Read(c) /\ rw_readers # 0 /\ UNCHANGED mutexes
  BY DEF ReadMore
<1>2. /\ c \in Readers /\ role[c] = "none" /\ ~Locked(rd)
      /\ waitfor' \in [Threads -> SUBSET Event]
      /\ pc' \in [Threads -> {"run", "write", "read", "read_first"}]
      /\ role' \in [Threads -> {"none", "RD", "RW"}]
      /\ WaitsInCall' /\ Firsts' = {} /\ Firsts = {}
      /\ rw_readers' = rw_readers + 1 /\ rw_mode' = "RD" /\ Gets(c, "RD")
  BY <1>1, ReadTypes
<1>3. Types'
  BY <1>1, <1>2 DEF IInv, Types, mutexes
<1>4. Locked(rw) /\ rw_mode = "RD" /\ rw_readers > 0
  BY <1>1, <1>2 DEF IInv, Types, ReadersCounted
<1>5. \A t \in Threads : role'[t] # "RW"
  BY <1>2, <1>4 DEF IInv, WriterOwns, Gets, Types
<1>6. WriterOwns' /\ ReaderOwns'
  BY <1>1, <1>2, <1>4, <1>5 DEF WriterOwns, ReaderOwns, Locked, mutexes
<1>7. OwnerHas' /\ FirstAlone' /\ RingsHave'
  <2>1. mx_owner' = mx_owner /\ mx_count' = mx_count /\ mutexring' = mutexring
    BY <1>1 DEF mutexes
  <2>2. OwnerHas'
    BY <1>2, <1>4, <2>1 DEF IInv, OwnerHas, Types, Locked
  <2>3. FirstAlone' /\ RingsHave'
    BY <1>2, <2>1 DEF IInv, FirstAlone, RingsHave, Ring, Locked
  <2> QED BY <2>2, <2>3
<1>8. ReadersCounted'
  <2>1. Cardinality(Has("RD")') = Cardinality(Has("RD")) + 1
    BY <1>2, OneMoreReader
  <2>2. Cardinality(Has("RD")') <= rw_readers'
    BY <1>1, <1>2, <1>3, <2>1, SetsFinite DEF IInv, Types, ReadersCounted
  <2> QED BY <1>1, <1>2, <1>4, <2>2 DEF ReadersCounted, Locked, mutexes
<1> QED BY <1>2, <1>3, <1>6, <1>7, <1>8 DEF IInv

\* The first reader waits, with the reader mutex held.
LEMMA ReadFirstWaitKeeps ==
    ASSUME IInv, NEW c \in Threads, ReadFirstWait(c)
    PROVE  IInv'
<1>1. /\ c \in Readers /\ (Start(c) \/ Through(c, "read", rd)) /\ ~Locked(rd)
      /\ rw_readers = 0 /\ rw_readers' = 1 /\ Locked(rw) /\ Lock(c, rd)
      /\ Goto(c, "read_first") /\ UNCHANGED <<rw_mode, role>>
  BY DEF ReadFirstWait, ReadMay, Busy
<1>2. role[c] = "none"
  BY <1>1, CallerPlace
<1>3. PICK extra \in Extras : Wait(c, {MUTEX(rw)} \cup extra)
  BY DEF ReadFirstWait
<1>4. {MUTEX(rw)} \cup extra \in SUBSET Event
  BY Mutex2, ExtrasAreEvents
<1>5. /\ waitfor' \in [Threads -> SUBSET Event] /\ WaitsInCall'
      /\ pc' \in [Threads -> {"run", "write", "read", "read_first"}]
  <2>1. {MUTEX(rw)} \cup extra # {}
    OBVIOUS
  <2> HIDE DEF MUTEX, Extras, Event
  <2> QED BY <1>1, <1>2, <1>3, <1>4, <2>1, WaitTypes
<1>6. Types'
  <2>1. /\ role' \in [Threads -> {"none", "RD", "RW"}] /\ rw_readers' \in Nat
        /\ rw_mode' \in {"RD", "RW"}
    BY <1>1 DEF IInv, Types
  <2> QED BY <1>1, <1>5, <2>1, LockTypes, Mutex2 DEF Types
<1>7. /\ mx_owner'[rd] = c /\ mx_count'[rd] = 1
      /\ mx_owner'[rw] = mx_owner[rw] /\ mx_count'[rw] = mx_count[rw]
  BY <1>1, Mutex2 DEF Lock, IInv, Types
<1>8. Has("RD") = {} /\ Firsts = {}
  BY <1>1, NoReaders
<1>9. Firsts' = {c}
  BY <1>1, <1>8 DEF Goto, Firsts, IInv, Types
<1>10. WriterOwns' /\ ReaderOwns'
  BY <1>1, <1>7 DEF IInv, WriterOwns, ReaderOwns, Locked
<1>11. OwnerHas' /\ mx_owner[rw] # c
  <2>1. rw_mode = "RW" /\ role[mx_owner[rw]] = "RW" /\ mx_count[rw] = 1
    BY <1>1 DEF IInv, Types, OwnerHas
  <2> QED BY <1>1, <1>2, <1>7, <2>1 DEF OwnerHas
<1>12. FirstAlone'
  BY <1>1, <1>7, <1>9 DEF FirstAlone
<1>13. ReadersCounted'
  <2>1. Has("RD")' = {}
    BY <1>1, <1>8 DEF Has
  <2>2. Cardinality(Has("RD")') = 0
    BY <2>1, FS_EmptySet
  <2> QED BY <1>1, <1>9, <2>2 DEF ReadersCounted
<1>14. RingsHave'
  <2>1. mutexring[c] = <<>> /\ Append(<<>>, rd) = <<rd>>
    BY <1>8, <1>11 DEF IInv, RingsHave, Ring
  <2>2. mutexring' = [mutexring EXCEPT ![c] = Append(@, rd)]
    BY <1>1 DEF Lock
  <2>3. \A t \in Threads : t # c => mutexring'[t] = mutexring[t]
    BY <2>2 DEF IInv, Types
  <2>4. mutexring'[c] = <<rd>>
    BY <2>1, <2>2 DEF IInv, Types
  <2> QED BY <1>7, <1>8, <1>9, <2>3, <2>4 DEF IInv, RingsHave, Ring
<1> QED BY <1>5, <1>6, <1>10, <1>11, <1>12, <1>13, <1>14 DEF IInv

LEMMA ReadFirstAgainKeeps ==
    ASSUME IInv, NEW c \in Threads, ReadFirstAgain(c)
    PROVE  IInv'
<1>1. /\ waitfor' = [waitfor EXCEPT ![c] = waitfor[c]]
      /\ UNCHANGED <<mutexes, lock, app>>
  BY DEF ReadFirstAgain, Wait
<1>2. waitfor' = waitfor
  BY <1>1 DEF IInv, Types
<1>3. Types' /\ WaitsInCall' /\ Firsts' = Firsts
  BY <1>1, <1>2 DEF IInv, Types, WaitsInCall, Firsts, mutexes, lock, app
<1> QED BY <1>1, <1>3, QuietKeeps DEF mutexes, app

\* ... and has got the lock for the readers.
LEMMA ReadFirstDoneKeeps ==
    ASSUME IInv, NEW c \in Threads, ReadFirstDone(c)
    PROVE  IInv'
<1>1. /\ Back(c) /\ pc[c] = "read_first" /\ mx_owner[rw] = NULL
      /\ mx_owner' = [mx_owner EXCEPT ![rw] = c, ![rd] = NULL]
      /\ mx_count' = [mx_count EXCEPT ![rw] = 1, ![rd] = 0]
      /\ mutexring' = [mutexring EXCEPT ![c] = Append(Without(@, {rd}), rw)]
      /\ rw_mode' = "RD" /\ Unlink(c) /\ Gets(c, "RD") /\ Goto(c, "run")
      /\ UNCHANGED rw_readers
  BY DEF ReadFirstDone, Through, Locked
<1>2. /\ c \in Firsts /\ Firsts = {c} /\ Has("RD") = {}
      /\ rw_readers = 1 /\ role[c] = "none" /\ c # NULL
  <2>1. c \in Firsts
    BY <1>1 DEF Firsts
  <2> QED BY <1>1, <2>1, OneFirst, NullIsNoThread DEF IInv, WaitsInCall
<1>3. /\ waitfor' \in [Threads -> SUBSET Event]
      /\ pc' \in [Threads -> {"run", "write", "read", "read_first"}]
      /\ role' \in [Threads -> {"none", "RD", "RW"}]
      /\ WaitsInCall'
  BY <1>1, GoesOnUnlinks, RunTypes
<1>4. /\ mx_owner' \in [Mutexes -> Threads \cup {NULL}]
      /\ mx_count' \in [Mutexes -> Int] /\ DOMAIN mutexring' = Threads
  <2>1. mx_owner' \in [Mutexes -> Threads \cup {NULL}]
    BY <1>1, Mutex2 DEF IInv, Types
  <2>2. mx_count' \in [Mutexes -> Int]
    BY <1>1, Mutex2 DEF IInv, Types
  <2>3. DOMAIN mutexring' = Threads
    BY <1>1 DEF IInv, Types
  <2> QED BY <2>1, <2>2, <2>3
<1>5. Types'
  BY <1>1, <1>3, <1>4 DEF IInv, Types
<1>6. mx_owner'[rw] = c /\ mx_count'[rw] = 1 /\ mx_owner'[rd] = NULL
  BY <1>1, Mutex2 DEF IInv, Types
<1>7. Firsts' = {}
  BY <1>1, <1>2 DEF Goto, Firsts, IInv, Types
<1>8. \A t \in Threads : role'[t] # "RW"
  BY <1>1, NullIsNoThread DEF IInv, WriterOwns, Gets, Types
<1>9. WriterOwns' /\ ReaderOwns' /\ OwnerHas'
  BY <1>1, <1>2, <1>6, <1>7, <1>8 DEF WriterOwns, ReaderOwns, OwnerHas, Locked
<1>10. FirstAlone'
  BY <1>6, <1>7 DEF FirstAlone, Locked
<1>11. ReadersCounted'
  <2>1. Cardinality(Has("RD")') = Cardinality(Has("RD")) + 1
    BY <1>1, <1>2, OneMoreReader
  <2>2. Cardinality(Has("RD")') = 1
    BY <1>2, <2>1, FS_EmptySet
  <2> QED BY <1>1, <1>2, <1>6, <2>2 DEF ReadersCounted, Locked
<1>12. RingsHave'
  <2>1. mutexring[c] = <<rd>>
    BY <1>2 DEF IInv, RingsHave, Ring
  <2>2. Append(Without(<<rd>>, {rd}), rw) = <<rw>>
    <3>1. Without(<<rd>>, {rd}) = <<>>
      BY RingOfOne
    <3>2. Append(<<>>, rw) = <<rw>>
      OBVIOUS
    <3> QED BY <3>1, <3>2
  <2>3. mutexring'[c] = <<rw>>
    BY <1>1, <2>1, <2>2 DEF IInv, Types
  <2>4. \A t \in Threads : t # c => mutexring'[t] = mutexring[t] /\ mx_owner[rw] # t /\ t \notin Firsts
    BY <1>1, <1>2, NullIsNoThread DEF IInv, Types
  <2> QED BY <1>6, <1>7, <2>3, <2>4 DEF IInv, RingsHave, Ring
<1> QED BY <1>3, <1>5, <1>9, <1>10, <1>11, <1>12 DEF IInv

\* The mutex a thread has once is free after a release.
LEMMA ReleaseFrees ==
    ASSUME IInv, NEW c \in Threads, NEW m \in Mutexes, mx_count[m] = 1,
           pth_mutex_release(c, m)
    PROVE  /\ mx_owner[m] = c
           /\ mx_owner' = [mx_owner EXCEPT ![m] = NULL]
           /\ mx_count' = [mx_count EXCEPT ![m] = 0]
           /\ mutexring' = [mutexring EXCEPT ![c] = Without(@, {m})]
           /\ mx_owner' \in [Mutexes -> Threads \cup {NULL}]
           /\ mx_count' \in [Mutexes -> Int]
           /\ DOMAIN mutexring' = Threads
<1>1. /\ mx_owner[m] = c
      /\ mx_count' = [mx_count EXCEPT ![m] = @ - 1]
      /\ mx_owner' = [mx_owner EXCEPT ![m] = NULL]
      /\ mutexring' = [mutexring EXCEPT ![c] = Without(@, {m})]
  BY DEF pth_mutex_release
<1>2. mx_count' = [mx_count EXCEPT ![m] = 0]
  BY <1>1
<1>3. mx_owner' \in [Mutexes -> Threads \cup {NULL}]
  BY <1>1 DEF IInv, Types
<1>4. mx_count' \in [Mutexes -> Int]
  BY <1>2 DEF IInv, Types
<1>5. DOMAIN mutexring' = Threads
  BY <1>1 DEF IInv, Types
<1> QED BY <1>1, <1>2, <1>3, <1>4, <1>5

LEMMA ReadFirstInterruptedKeeps ==
    ASSUME IInv, NEW c \in Threads, ReadFirstInterrupted(c)
    PROVE  IInv'
<1>1. /\ Back(c) /\ pc[c] = "read_first" /\ rw_readers' = rw_readers - 1
      /\ pth_mutex_release(c, rd) /\ Unlink(c) /\ Goto(c, "run")
      /\ UNCHANGED <<rw_mode, role>>
  BY DEF ReadFirstInterrupted
<1>2. /\ Firsts = {c} /\ Has("RD") = {} /\ rw_readers' = 0
      /\ role[c] = "none" /\ mx_count[rd] = 1 /\ mx_owner[rw] # c
  <2>1. c \in Firsts
    BY <1>1 DEF Firsts
  <2>2. mx_owner[rd] = c /\ rw_readers = 1 /\ c # NULL
    BY <2>1, NullIsNoThread DEF IInv, FirstAlone
  <2> QED BY <1>1, <2>1, <2>2, OneFirst DEF IInv, FirstAlone, WaitsInCall, Locked
<1>3. /\ mx_owner' = [mx_owner EXCEPT ![rd] = NULL]
      /\ mx_count' = [mx_count EXCEPT ![rd] = 0]
      /\ mutexring' = [mutexring EXCEPT ![c] = Without(@, {rd})]
      /\ mx_owner' \in [Mutexes -> Threads \cup {NULL}]
      /\ mx_count' \in [Mutexes -> Int]
      /\ DOMAIN mutexring' = Threads
  BY <1>1, <1>2, Mutex2, ReleaseFrees
<1>4. mx_owner'[rd] = NULL /\ mx_owner'[rw] = mx_owner[rw] /\ mx_count'[rw] = mx_count[rw]
  BY <1>3, Mutex2 DEF IInv, Types
<1>5. /\ waitfor' \in [Threads -> SUBSET Event]
      /\ pc' \in [Threads -> {"run", "write", "read", "read_first"}]
      /\ WaitsInCall'
  BY <1>1, <1>2 DEF Unlink, Goto, IInv, Types, WaitsInCall
<1>6. Types'
  BY <1>1, <1>2, <1>3, <1>5 DEF IInv, Types
<1>7. Firsts' = {}
  BY <1>1, <1>2 DEF Goto, Firsts, IInv, Types
<1>8. WriterOwns' /\ ReaderOwns'
  BY <1>1, <1>4 DEF IInv, WriterOwns, ReaderOwns, Locked
<1>9. OwnerHas'
  BY <1>1, <1>2, <1>4 DEF IInv, Types, OwnerHas, Locked
<1>10. FirstAlone'
  BY <1>4, <1>7 DEF FirstAlone, Locked
<1>11. ReadersCounted'
  <2>1. Has("RD")' = {}
    BY <1>1, <1>2 DEF Has
  <2>2. Cardinality(Has("RD")') = 0
    BY <2>1, FS_EmptySet
  <2> QED BY <1>2, <2>2 DEF ReadersCounted
<1>12. RingsHave'
  <2>1. mutexring[c] = <<rd>>
    BY <1>2 DEF IInv, RingsHave, Ring
  <2>2. mutexring'[c] = <<>>
    BY <1>3, <2>1, RingOfOne DEF IInv, Types
  <2>3. \A t \in Threads : t # c => mutexring'[t] = mutexring[t]
    BY <1>3 DEF IInv, Types
  <2> QED BY <1>2, <1>4, <1>7, <2>2, <2>3 DEF IInv, RingsHave, Ring
<1> QED BY <1>5, <1>6, <1>8, <1>9, <1>10, <1>11, <1>12 DEF IInv

LEMMA AcquireInterruptedKeeps ==
    ASSUME IInv, NEW c \in Threads, AcquireInterrupted(c)
    PROVE  IInv'
<1>1. /\ Back(c) /\ pc[c] \in {"read", "write"} /\ Unlink(c) /\ Goto(c, "run")
      /\ UNCHANGED <<mutexes, lock, role>>
  BY DEF AcquireInterrupted
<1>2. /\ waitfor' \in [Threads -> SUBSET Event]
      /\ pc' \in [Threads -> {"run", "write", "read", "read_first"}]
      /\ WaitsInCall' /\ Firsts' = Firsts
  BY <1>1 DEF Unlink, Goto, IInv, Types, WaitsInCall, Firsts
<1>3. Types'
  BY <1>1, <1>2 DEF IInv, Types, mutexes, lock
<1> QED BY <1>1, <1>2, <1>3, QuietKeeps DEF mutexes

\* The writer has released the mutex, or ended.
LEMMA WriterLeaves ==
    ASSUME IInv, NEW c \in Threads, role[c] = "RW", Gets(c, "none"),
           mx_owner' = [mx_owner EXCEPT ![rw] = NULL],
           \A t \in Threads : mutexring'[t] = IF t = c THEN <<>> ELSE mutexring[t],
           mx_count'[rd] = mx_count[rd], UNCHANGED lock,
           Types', WaitsInCall', Firsts' = Firsts
    PROVE  IInv'
<1>1. rw_mode = "RW" /\ mx_owner[rw] = c /\ c # NULL /\ UNCHANGED <<rw_readers, rw_mode>>
  BY NullIsNoThread DEF IInv, WriterOwns, lock
<1>2. \A t \in Threads : role'[t] = "none"
  BY <1>1 DEF Gets, IInv, Types, WriterOwns, ReaderOwns
<1>3. mx_owner'[rw] = NULL /\ mx_owner'[rd] = mx_owner[rd]
  BY Mutex2 DEF IInv, Types
<1>4. WriterOwns' /\ ReaderOwns' /\ OwnerHas'
  BY <1>2, <1>3 DEF WriterOwns, ReaderOwns, OwnerHas, Locked
<1>5. FirstAlone'
  BY <1>1, <1>3 DEF IInv, FirstAlone, Locked
<1>6. ReadersCounted'
  <2>1. Has("RD")' = {}
    BY <1>2 DEF Has
  <2>2. Cardinality(Has("RD")') = 0
    BY <2>1, FS_EmptySet
  <2>3. 0 <= rw_readers'
    BY <1>1 DEF IInv, Types
  <2>4. ~(rw_readers' > 0 /\ Firsts' = {})
    BY <1>1 DEF IInv, ReadersCounted
  <2> QED BY <2>2, <2>3, <2>4 DEF ReadersCounted
<1>7. RingsHave'
  <2>1. c \notin Firsts
    BY DEF IInv, WaitsInCall, Firsts
  <2>2. \A t \in Threads : t # c => mx_owner[rw] # t
    BY <1>1
  <2> QED BY <1>3, <2>1, <2>2, NullIsNoThread DEF IInv, RingsHave, Ring
<1> QED BY <1>4, <1>5, <1>6, <1>7 DEF IInv

LEMMA ReleaseWriteKeeps ==
    ASSUME IInv, NEW c \in Threads, ReleaseWrite(c)
    PROVE  IInv'
<1>1. /\ Running(c) /\ role[c] # "none" /\ rw_mode = "RW"
      /\ pth_mutex_release(c, rw) /\ Gets(c, "none")
      /\ UNCHANGED <<sched, lock, pc>>
  BY DEF ReleaseWrite
<1>2. role[c] = "RW" /\ mx_owner[rw] = c /\ mx_count[rw] = 1 /\ c \notin Firsts
  <2>1. role[c] = "RW" /\ c # NULL
    BY <1>1, NullIsNoThread DEF IInv, Types, ReaderOwns
  <2> QED BY <2>1 DEF IInv, WriterOwns, OwnerHas, Locked, WaitsInCall, Firsts
<1>3. /\ mx_owner' = [mx_owner EXCEPT ![rw] = NULL]
      /\ mx_count' = [mx_count EXCEPT ![rw] = 0]
      /\ mutexring' = [mutexring EXCEPT ![c] = Without(@, {rw})]
      /\ mx_owner' \in [Mutexes -> Threads \cup {NULL}]
      /\ mx_count' \in [Mutexes -> Int]
      /\ DOMAIN mutexring' = Threads
  BY <1>1, <1>2, Mutex2, ReleaseFrees
<1>4. \A t \in Threads : mutexring'[t] = IF t = c THEN <<>> ELSE mutexring[t]
  <2>1. mutexring[c] = <<rw>>
    BY <1>2 DEF IInv, RingsHave, Ring
  <2> QED BY <1>3, <2>1, RingOfOne DEF IInv, Types
<1>5. role' \in [Threads -> {"none", "RD", "RW"}] /\ \A t \in Threads : t # c => role'[t] = role[t]
  BY <1>1 DEF Gets, IInv, Types
<1>6. Types' /\ WaitsInCall' /\ Firsts' = Firsts
  <2>1. role'[c] = "none"
    BY <1>1 DEF Gets, IInv, Types
  <2> QED BY <1>1, <1>3, <1>5, <2>1 DEF IInv, Types, WaitsInCall, Firsts, sched, lock
<1>7. mx_count'[rd] = mx_count[rd]
  BY <1>3, Mutex2 DEF IInv, Types
<1> QED BY <1>1, <1>2, <1>3, <1>4, <1>6, <1>7, WriterLeaves

LEMMA ReleaseReadKeeps ==
    ASSUME IInv, NEW c \in Threads, ReleaseRead(c)
    PROVE  IInv'
<1>1. /\ Running(c) /\ role[c] # "none" /\ rw_mode = "RD"
      /\ rw_readers' = rw_readers - 1
      /\ IF rw_readers = 1 THEN pth_mutex_release(c, rw) ELSE UNCHANGED mutexes
      /\ Gets(c, "none") /\ UNCHANGED <<sched, rw_mode, pc>>
  BY DEF ReleaseRead, ReleaseReadMay
<1>2. /\ \A t \in Threads : role[t] # "RW"
      /\ role[c] = "RD" /\ c \in Has("RD") /\ Locked(rw) /\ mx_count[rw] = 1
      /\ rw_readers > 0 /\ Firsts = {}
  <2>1. \A t \in Threads : role[t] # "RW"
    BY <1>1 DEF IInv, WriterOwns
  <2>2. role[c] = "RD"
    BY <1>1, <2>1 DEF IInv, Types
  <2> QED BY <1>1, <2>1, <2>2 DEF Has, IInv, ReaderOwns, OwnerHas
<1>3. Firsts' = {}
  BY <1>1, <1>2 DEF Firsts
<1>4. Has("RD")' = Has("RD") \ {c}
  BY <1>1 DEF Has, Gets, IInv, Types
<1>5. Cardinality(Has("RD")') <= rw_readers' /\ rw_readers' \in Nat
  <2>1. Cardinality(Has("RD")') = Cardinality(Has("RD")) - 1
    BY <1>2, <1>4, SetsFinite, FS_RemoveElement
  <2>2. Cardinality(Has("RD")) <= rw_readers
    BY DEF IInv, ReadersCounted
  <2> QED BY <1>1, <1>2, <2>1, <2>2, SetsFinite DEF IInv, Types
<1>6. /\ role' \in [Threads -> {"none", "RD", "RW"}] /\ role'[c] = "none"
      /\ \A t \in Threads : role'[t] # "RW" /\ (role'[t] = "RD" => role[t] = "RD" /\ t # c)
  BY <1>1, <1>2 DEF Gets, IInv, Types
<1>7. CASE rw_readers = 1
  <2>1. Has("RD")' = {}
    BY <1>2, <1>4, <1>7, LastReader
  <2>2. /\ mx_owner[rw] = c
        /\ mx_owner' = [mx_owner EXCEPT ![rw] = NULL]
        /\ mx_count' = [mx_count EXCEPT ![rw] = 0]
        /\ mutexring' = [mutexring EXCEPT ![c] = Without(@, {rw})]
        /\ mx_owner' \in [Mutexes -> Threads \cup {NULL}]
        /\ mx_count' \in [Mutexes -> Int]
        /\ DOMAIN mutexring' = Threads
    BY <1>1, <1>2, <1>7, Mutex2, ReleaseFrees
  <2>3. mx_owner'[rw] = NULL /\ mx_owner'[rd] = mx_owner[rd]
    BY <2>2, Mutex2 DEF IInv, Types
  <2>4. Types' /\ WaitsInCall'
    BY <1>1, <1>5, <1>6, <2>2 DEF IInv, Types, WaitsInCall, sched
  <2>5. WriterOwns' /\ ReaderOwns' /\ OwnerHas' /\ FirstAlone'
    BY <1>2, <1>3, <1>6, <2>1, <2>3 DEF IInv, WriterOwns, ReaderOwns, OwnerHas, FirstAlone, Locked, Has
  <2>6. ReadersCounted'
    BY <1>1, <1>5, <1>7 DEF ReadersCounted
  <2>7. RingsHave'
    <3>1. mutexring[c] = <<rw>>
      BY <1>2, <2>2 DEF IInv, RingsHave, Ring
    <3>2. mutexring'[c] = <<>>
      BY <2>2, <3>1, RingOfOne DEF IInv, Types
    <3>3. \A t \in Threads : t # c => mutexring'[t] = mutexring[t] /\ mx_owner[rw] # t
      BY <2>2 DEF IInv, Types
    <3> QED BY <1>2, <1>3, <2>3, <3>2, <3>3, NullIsNoThread DEF IInv, RingsHave, Ring
  <2> QED BY <2>4, <2>5, <2>6, <2>7 DEF IInv
<1>8. CASE rw_readers # 1
  <2>1. UNCHANGED <<mx_owner, mx_count, mutexring>>
    BY <1>1, <1>8 DEF mutexes
  <2>2. Types' /\ WaitsInCall'
    BY <1>1, <1>5, <1>6, <2>1 DEF IInv, Types, WaitsInCall, sched
  <2>3. WriterOwns' /\ ReaderOwns'
    BY <1>1, <1>6, <2>1 DEF IInv, WriterOwns, ReaderOwns, Locked
  <2>4. rw_readers' > 0
    BY <1>1, <1>2, <1>8 DEF IInv, Types
  <2>5. OwnerHas' /\ FirstAlone' /\ RingsHave'
    BY <1>1, <1>2, <1>3, <2>1, <2>4 DEF IInv, OwnerHas, FirstAlone, RingsHave, Ring, Locked
  <2>6. ReadersCounted'
    BY <1>1, <1>2, <1>5, <2>1 DEF ReadersCounted, Locked
  <2> QED BY <2>2, <2>3, <2>5, <2>6 DEF IInv
<1> QED BY <1>7, <1>8

\* A thread that ends releases the mutexes of its ring: the writer's, or none.
LEMMA ExitKeeps ==
    ASSUME IInv, NEW c \in Threads, Exit(c), ~lost', UNCHANGED lock
    PROVE  IInv'
<1>1. /\ waitfor' = [waitfor EXCEPT ![c] = {}] /\ pth_mutex_releaseall(c)
      /\ Gets(c, "none") /\ Goto(c, "run") /\ ~OwnsForReaders(c)
  BY DEF Exit, Die
<1>2. c \notin Firsts /\ c # NULL
  BY <1>1, NullIsNoThread DEF OwnsForReaders, Firsts
<1>3. /\ waitfor' \in [Threads -> SUBSET Event]
      /\ pc' \in [Threads -> {"run", "write", "read", "read_first"}]
      /\ role' \in [Threads -> {"none", "RD", "RW"}]
      /\ WaitsInCall' /\ Firsts' = Firsts
  BY <1>1, <1>2 DEF Goto, Gets, IInv, Types, WaitsInCall, Firsts
<1>4. /\ mx_count' = [m \in Mutexes |-> IF m \in Walked(c) THEN mx_count[m] - 1 ELSE mx_count[m]]
      /\ mx_owner' = [m \in Mutexes |-> IF m \in {n \in Walked(c) : mx_count[n] = 1}
                                          THEN NULL ELSE mx_owner[m]]
      /\ mutexring' = [mutexring EXCEPT ![c] = Without(@, {n \in Walked(c) : mx_count[n] = 1})]
  BY <1>1 DEF pth_mutex_releaseall
<1>5. CASE mx_owner[rw] # c
  <2>1. mutexring[c] = <<>>
    BY <1>2, <1>5 DEF IInv, RingsHave, Ring
  <2>2. Walked(c) = {}
    BY <2>1 DEF Walked
  <2>3. UNCHANGED <<mx_owner, mx_count>>
    BY <1>4, <2>2 DEF IInv, Types
  <2>4. /\ \A t \in Threads : mutexring'[t] = mutexring[t]
        /\ DOMAIN mutexring' = Threads
    BY <1>4, <2>1, RingOfOne DEF IInv, Types
  <2>5. Types'
    BY <1>3, <2>3, <2>4 DEF IInv, Types, lock
  <2>6. \A t \in Threads : role'[t] = role[t] \/ (role[t] = "RD" /\ role'[t] = "none")
    <3>1. role[c] # "RW"
      BY <1>5 DEF IInv, WriterOwns
    <3> QED BY <1>1, <3>1 DEF Gets, IInv, Types
  <2> QED BY <1>3, <2>3, <2>4, <2>5, <2>6, QuietKeeps
<1>6. CASE mx_owner[rw] = c
  <2>1. rw_mode = "RW" /\ role[c] = "RW" /\ mx_count[rw] = 1
    BY <1>1, <1>2, <1>6 DEF OwnsForReaders, IInv, Types, OwnerHas, Locked
  <2>2. mutexring[c] = <<rw>>
    BY <1>2, <1>6 DEF IInv, RingsHave, Ring
  <2>3. Walked(c) = {rw} /\ {n \in Walked(c) : mx_count[n] = 1} = {rw}
    BY <2>1, <2>2 DEF Walked
  <2>4. /\ mx_owner' = [mx_owner EXCEPT ![rw] = NULL]
        /\ mx_count' = [mx_count EXCEPT ![rw] = mx_count[rw] - 1]
    BY <1>4, <2>3 DEF IInv, Types
  <2>5. /\ \A t \in Threads : mutexring'[t] = IF t = c THEN <<>> ELSE mutexring[t]
        /\ DOMAIN mutexring' = Threads
    <3>1. mutexring' = [mutexring EXCEPT ![c] = Without(<<rw>>, {rw})]
      BY <1>4, <2>2, <2>3
    <3>2. mutexring' = [mutexring EXCEPT ![c] = <<>>]
      BY <3>1, RingOfOne
    <3>3. mutexring'[c] = <<>> /\ DOMAIN mutexring' = Threads
      BY <3>2 DEF IInv, Types
    <3>4. \A t \in Threads : t # c => mutexring'[t] = mutexring[t]
      BY <3>2 DEF IInv, Types
    <3> QED BY <3>3, <3>4
  <2>6. mx_owner' \in [Mutexes -> Threads \cup {NULL}]
    BY <2>4 DEF IInv, Types
  <2>7. mx_count' \in [Mutexes -> Int]
    <3>1. mx_count[rw] - 1 = 0
      BY <2>1
    <3>2. mx_count' = [mx_count EXCEPT ![rw] = 0]
      BY <2>4, <3>1
    <3>3. mx_count \in [Mutexes -> Int] /\ 0 \in Int
      BY DEF IInv, Types
    <3> QED BY ONLY <3>2, <3>3
  <2>8. Types'
    BY <1>3, <2>5, <2>6, <2>7 DEF IInv, Types, lock
  <2>9. mx_count'[rd] = mx_count[rd]
    BY <2>4, Mutex2 DEF IInv, Types
  <2> QED BY <1>1, <1>3, <2>1, <2>4, <2>5, <2>8, <2>9, WriterLeaves
<1> QED BY <1>5, <1>6

\* Steps in which neither the lock nor what threads wait for changes.
LEMMA StillKeeps ==
    ASSUME IInv, UNCHANGED <<waitfor, mutexes, lock, app>>
    PROVE  IInv'
<1>1. Types' /\ WaitsInCall' /\ Firsts' = Firsts
  BY DEF IInv, Types, WaitsInCall, Firsts, mutexes, lock, app
<1> QED BY <1>1, QuietKeeps DEF mutexes, app

-----------------------------------------------------------------------------
LEMMA InitOK == ASSUME Init PROVE IInv
<1>1. Has("RD") = {} /\ Firsts = {}
  BY DEF Init, Has, Firsts
<1>2. Cardinality(Has("RD")) = 0
  BY <1>1, FS_EmptySet
<1>3. Types
  BY DEF Init, SyncInit, Types
<1>4. WaitsInCall /\ WriterOwns /\ ReaderOwns
  BY DEF Init, SyncInit, WaitsInCall, WriterOwns, ReaderOwns
<1>5. OwnerHas /\ FirstAlone /\ RingsHave
  BY <1>1, Mutex2, SyncAssumption
     DEF Init, SyncInit, OwnerHas, FirstAlone, RingsHave, Ring, Locked
<1>6. ReadersCounted
  BY <1>2 DEF Init, ReadersCounted
<1> QED BY <1>3, <1>4, <1>5, <1>6 DEF IInv

LEMMA NextOK == ASSUME IInv, Next, ~lost' PROVE IInv'
<1>1. ASSUME UNCHANGED vars PROVE IInv'
  BY <1>1, StillKeeps DEF vars, sched
<1>2. ASSUME NEW c \in Threads, Dispatch(c) PROVE IInv'
  BY <1>2, StillKeeps DEF Dispatch, Schedule
<1>3. ASSUME NEW c \in Threads, Yield(c) PROVE IInv'
  BY <1>3, StillKeeps DEF Yield, pth_yield
<1>4. ASSUME NEW c \in Threads, ReadStep(c) PROVE IInv'
  BY <1>4, ReadFirstKeeps, ReadMoreKeeps, ReadFirstWaitKeeps, ReadFirstAgainKeeps,
     ReadFirstDoneKeeps, WriteWaitKeeps, ReadFirstInterruptedKeeps DEF ReadStep
<1>5. ASSUME NEW c \in Threads, ReleaseStep(c) PROVE IInv'
  <2>1. ReleaseFails(c) => IInv'
    BY <1>1 DEF ReleaseFails
  <2> QED BY <1>5, <2>1, ReleaseWriteKeeps, ReleaseReadKeeps DEF ReleaseStep
<1>6. ASSUME NEW c \in Threads, ExitCall(c) PROVE IInv'
  BY <1>6, ExitKeeps DEF ExitCall
<1>7. ASSUME NEW c \in Threads, CancelledInWait(c) PROVE IInv'
  BY <1>7, ExitKeeps DEF CancelledInWait
<1>8. ASSUME NEW c \in Threads, NEW u \in Threads, Cancel(c, u) PROVE IInv'
  BY <1>8, StillKeeps DEF Cancel, sched
<1> QED BY <1>2, <1>3, <1>4, <1>5, <1>6, <1>7, <1>8, WriteNowKeeps, WriteWaitKeeps,
           AcquireInterruptedKeeps DEF Next

LEMMA IInvExcludes == ASSUME IInv PROVE WriterExcludes
<1>1. SUFFICES ASSUME NEW t \in Has("RW")
               PROVE  Cardinality(Has("RW")) = 1 /\ Has("RD") = {}
  BY DEF WriterExcludes
<1>2. t \in Threads /\ mx_owner[rw] = t /\ rw_mode = "RW"
  BY DEF Has, IInv, WriterOwns
<1>3. Has("RW") = {t}
  BY <1>2 DEF Has, IInv, WriterOwns
<1>4. Has("RD") = {}
  BY <1>2 DEF Has, IInv, ReaderOwns
<1> QED BY <1>3, <1>4, FS_Singleton

(* pth_rwlock_acquire, pth_rwlock_release, pth_mutex_releaseall: any       *)
(* threads may read and write by turns, give up their waits, be cancelled  *)
(* in them or end, with the lock or without. A thread that has acquired    *)
(* the lock read-write is the only one that has it, unless one of three    *)
(* steps has lost the lock before: the thread that owns the read-write     *)
(* mutex for the readers has acquired it once more, to write, or has       *)
(* ended, or one that waited for it as the first reader has ended.         *)
THEOREM WritersExclude == Spec => []WriterExcludes
<1>1. Init => lost \/ IInv
  BY InitOK
<1>2. (lost \/ IInv) /\ [Next]_vars => (lost \/ IInv)'
  <2>1. CASE UNCHANGED vars
    BY <2>1, StillKeeps DEF vars, sched
  <2>2. CASE Next
    BY <2>2, NextOK DEF Next
  <2> QED BY <2>1, <2>2
<1>3. lost \/ IInv => WriterExcludes
  BY IInvExcludes DEF WriterExcludes
<1> QED BY <1>1, <1>2, <1>3, PTL DEF Spec

=============================================================================
