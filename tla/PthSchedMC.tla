----------------------------- MODULE PthSchedMC ------------------------------
(***************************************************************************)
(* TLC instances of PthSched. The calls are shared out among the threads,  *)
(* so that any two kinds of calls can meet without every thread making all *)
(* of them.                                                                *)
(***************************************************************************)
EXTENDS PthSched

CONSTANTS t1, t2

Attr(p, jn, cs) == [prio |-> p, joinable |-> jn, cancelstate |-> cs]

\* Beside threads that take after the one that spawns them: detached ones
\* that heed no request; and ones of a higher priority.
DetachedAttrs == {Attr(0, FALSE, "disabled")}
UrgentAttrs   == {Attr(1, TRUE, "deferred")}

\* t1 and t2 join one another and the main thread, which takes whoever dies;
\* t1 cancels and aborts, t2 suspends and may disable cancellation.
EndingCalls == [t \in Threads |->
    CASE t = Main -> {"join_any", "exit", "kill", "favournew"}
      [] t = t1   -> {"join", "wait_tid", "exit", "cancel", "abort"}
      [] t = t2   -> {"join", "exit", "cancel_state", "suspend", "resume"}]

\* main and t1 may join the same thread, and may hand the processor to each
\* other for ever.
WaitingCalls == [t \in Threads |->
    CASE t = Main -> {"join", "cancel", "yield_to"}
      [] t = t1   -> {"join", "cancel", "yield_to", "suspend", "resume"}
      [] t = t2   -> {"wait", "cancel_point"}]

=============================================================================
