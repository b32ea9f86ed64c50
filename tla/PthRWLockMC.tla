----------------------------- MODULE PthRWLockMC ------------------------------
(***************************************************************************)
(* TLC instances of PthRWLock.                                             *)
(***************************************************************************)
EXTENDS PthRWLock

CONSTANTS a, b, r, w    \* two threads that do both, a reader, a writer

\* Requests of cancellation reach all but one of those that do both.
OneUncancelled == [t \in Threads |-> IF t = b THEN "disabled" ELSE "deferred"]

=============================================================================
