-------------------------- MODULE MCFaultSession --------------------------
(***************************************************************************)
(* FaultSession for TLC.                                                   *)
(***************************************************************************)
EXTENDS FaultSession, TLC

Symmetry == Permutations(Pods) \cup Permutations(Messages)

\* Faults Chaos Mesh takes back after their duration.
TimedFaults == {f \in AllFaults : ~f.podKill /\ f.wellFormedIds}
=============================================================================
