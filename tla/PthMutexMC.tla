----------------------------- MODULE PthMutexMC -------------------------------
(***************************************************************************)
(* TLC instances of PthMutex: which threads can be cancelled, and how,     *)
(* and which mutexes are acquired recursively.                             *)
(***************************************************************************)
EXTENDS PthMutex

CONSTANTS t1, t2, t3, m1, m2

MixedStates == [t \in Threads |-> IF t = t1 THEN "deferred"
                                  ELSE IF t = t2 THEN "async" ELSE "disabled"]

RecursiveFirst == [m \in Mutexes |-> IF m = m1 THEN 2 ELSE 1]

=============================================================================
