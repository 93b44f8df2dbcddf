----------------------------- MODULE ForkChoice -----------------------------
(***************************************************************************)
(* What determineForkConsensus (pkg/health/ethereum/consensus.go) promises:*)
(* of the nodes' votes, a block number that no other number outpolls is the*)
(* consensus, and of the nodes at it, a hash that no other hash outpolls.  *)
(* Everybody else is wrong about the number or wrong about the hash.  A tie*)
(* is broken by the iteration order of a Go map: either side may win.      *)
(***************************************************************************)
EXTENDS ForkVotes

VARIABLES
    ballot,    \* the votes
    decided    \* what is decided of them: nothing yet, or one outcome

Init ==
    /\ ballot \in Ballots
    /\ decided = {}

Decide ==
    /\ decided = {}
    /\ \E outcome \in Outcomes(ballot) : decided' = {outcome}
    /\ UNCHANGED ballot

Next == Decide

Spec == Init /\ [][Next]_<<ballot, decided>>
=============================================================================
