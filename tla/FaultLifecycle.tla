--------------------------- MODULE FaultLifecycle ---------------------------
(***************************************************************************)
(* What a fault session promises its caller: the fault itself only moves   *)
(* forward through its phases, and the status seen is the phase the fault  *)
(* was in at some moment, never a phase it has not reached and never an    *)
(* older one than was seen before.  The promise is waived, for good, when  *)
(* the fault kills its pods or a pod fails to recover.                     *)
(***************************************************************************)
EXTENDS Naturals

VARIABLES
    phase,  \* the phase the fault is in
    seen    \* the phase the session last reported

vars == <<phase, seen>>

Phases == {"Starting", "InProgress", "Stopping", "Completed"}

Rank == [p \in Phases |->
            CASE p = "Starting" -> 0 [] p = "InProgress" -> 1
              [] p = "Stopping" -> 2 [] p = "Completed" -> 3]

Init == phase \in {"Starting", "Waived"} /\ seen = phase

Advance ==
    /\ phase # "Waived"
    /\ \E p \in Phases : Rank[p] > Rank[phase] /\ phase' = p
    /\ UNCHANGED seen

Observe == seen' = phase /\ UNCHANGED phase

Waive == phase' = "Waived" /\ seen' = "Waived"

Next == Advance \/ Observe \/ Waive

Spec == Init /\ [][Next]_vars
=============================================================================
