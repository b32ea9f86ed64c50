--------------------------- MODULE PthThreadDataMC ----------------------------
(***************************************************************************)
(* TLC instance of PthThreadData: three threads, so that a thread that     *)
(* cleans up another may itself be cancelled; two keys, two iterations.    *)
(***************************************************************************)
EXTENDS PthThreadData, TLC

MCSymmetry == Permutations(Threads) \cup Permutations(Values)
=============================================================================
