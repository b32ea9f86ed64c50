----------------------------- MODULE PthPqueueMC -----------------------------
(***************************************************************************)
(* TLC instance of PthPqueue and of PthRing. Priorities -1 .. 2 are        *)
(* PTH_PRIO_MIN up to PTH_PRIO_MAX + 1 of a library with PTH_PRIO_MAX = 1; *)
(* the ring of priorities counts two steps beyond PRIO_CAP, so saturation  *)
(* is exercised too. The queue and the plain ring share nothing: one of    *)
(* them is used while the other is as it was initialised.                  *)
(***************************************************************************)
EXTENDS PthPqueue, PthRing

MCPrios == -1 .. 2
MCSymmetry == Permutations(Threads)

MCInit == Init /\ RingInit
MCNext == \/ ring = pth_ring_init /\ Next /\ UNCHANGED ringVars
          \/ q = pth_pqueue_init /\ RingNext /\ UNCHANGED q
MCSpec == MCInit /\ [][MCNext]_<<q, ringVars>>

=============================================================================
