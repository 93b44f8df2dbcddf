------------------------------ MODULE PlanRun ------------------------------
(***************************************************************************)
(* What running a test's plan promises StartTestSuite: faults are put on   *)
(* one at a time, each fully in before the next; a plan that ends by       *)
(* waiting is done only when none of them is on any more, but for those    *)
(* Chaos Mesh failed to take off and those that have no end; and only these*)
(* last two kinds can bring the program down.  A plan that fails leaves on *)
(* whatever is on.                                                         *)
(***************************************************************************)
EXTENDS Sequences, Naturals

VARIABLES
    waits,   \* whether the last step of the plan waits for the faults
    place,   \* where the plan is
    faults   \* how far each fault created has got

vars == <<waits, place, faults>>

Places == {"running", "done", "error", "panic"}
Stages == {"pending", "on", "off", "endless", "failing"}

Is(stage) == {i \in DOMAIN faults : faults[i] = stage}

Init == waits \in BOOLEAN /\ place = "running" /\ faults = <<>>

Create ==
    /\ place = "running" /\ Is("pending") = {}
    /\ faults' = Append(faults, "pending")
    /\ place' \in {"running", "error"}
    /\ UNCHANGED waits

\* Chaos Mesh injects a fault into the last of its targets, takes it off the last of them,
\* or fails to; also after the plan.
Proceeds(i, from, to) ==
    /\ faults[i] = from
    /\ faults' = [faults EXCEPT ![i] = to]
    /\ UNCHANGED <<waits, place>>

Settle(i) ==
    \/ Proceeds(i, "pending", "on") \/ Proceeds(i, "pending", "endless")
    \/ Proceeds(i, "on", "off") \/ Proceeds(i, "on", "failing")

Finish ==
    /\ place = "running" /\ Is("pending") = {}
    /\ waits => Is("on") = {}
    /\ place' = "done"
    /\ UNCHANGED <<waits, faults>>

Fail ==
    /\ place = "running"
    /\ \/ place' = "error"
       \/ Is("failing") \cup Is("endless") # {} /\ place' = "panic"
    /\ UNCHANGED <<waits, faults>>

Next == Create \/ Finish \/ Fail \/ \E i \in DOMAIN faults : Settle(i)

Spec == Init /\ [][Next]_vars
=============================================================================
