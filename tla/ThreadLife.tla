------------------------------ MODULE ThreadLife -----------------------------
(***************************************************************************)
(* What the scheduler promises about the life of threads, without queues,  *)
(* priorities, events or phases: at most one thread runs, only a ready one *)
(* is given the processor, a suspended thread does not move at all until   *)
(* it is resumed, what is dead never runs again, and what is gone stays    *)
(* so. PthSched implements this specification.                             *)
(***************************************************************************)
CONSTANTS Threads, Main

VARIABLES
    life,        \* none new ready running waiting dead gone
    suspended    \* the threads taken out of scheduling

vars == <<life, suspended>>

Init ==
    /\ life = [t \in Threads |-> IF t = Main THEN "running" ELSE "none"]
    /\ suspended = {}

Move(t, from, to) ==
    /\ life[t] \in from
    /\ t \notin suspended
    /\ \E l \in to : life' = [life EXCEPT ![t] = l]
    /\ UNCHANGED suspended

Idle == \A t \in Threads : life[t] # "running"
Busy == \E t \in Threads : life[t] = "running"

Spawn(t)   == Busy /\ Move(t, {"none"}, {"new"})
Admit(t)   == Idle /\ Move(t, {"new"}, {"ready"})
Run(t)     == Idle /\ Move(t, {"ready"}, {"running"})
Stop(t)    == Move(t, {"running"}, {"ready", "waiting", "dead", "gone"})
Wake(t)    == Idle /\ Move(t, {"waiting"}, {"ready"})
Kill(t)    == Busy /\ Move(t, {"new", "ready", "waiting"}, {"dead", "gone"})
Reclaim(t) == Busy /\ Move(t, {"dead"}, {"gone"})

Suspend(t) ==
    /\ Busy
    /\ life[t] \in {"new", "ready", "waiting"}
    /\ t \notin suspended
    /\ suspended' = suspended \cup {t}
    /\ UNCHANGED life

Resume(t) ==
    /\ Busy
    /\ t \in suspended
    /\ suspended' = suspended \ {t}
    /\ UNCHANGED life

Shutdown ==
    /\ life[Main] = "running"
    /\ life' = [t \in Threads |-> IF life[t] = "none" THEN "none" ELSE "gone"]
    /\ suspended' = {}

Next ==
    \/ \E t \in Threads :
          \/ Spawn(t) \/ Admit(t) \/ Run(t) \/ Stop(t) \/ Wake(t)
          \/ Kill(t) \/ Reclaim(t) \/ Suspend(t) \/ Resume(t)
    \/ Shutdown

Spec == Init /\ [][Next]_vars

=============================================================================
