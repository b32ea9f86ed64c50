----------------------------- MODULE PthBufferMC ------------------------------
(***************************************************************************)
(* TLC instances of PthBuffer.                                             *)
(***************************************************************************)
EXTENDS PthBuffer

CONSTANT c1

\* The first consumer has cancellation disabled.
OneDisabled == [t \in Threads |-> IF t = c1 THEN "disabled" ELSE "deferred"]

=============================================================================
