--------------------------- MODULE MCForkConsensus ---------------------------
(* Up to five nodes: enough for a tie at each loop and for leaders overtaken by *)
(* a later group.  Three numbers, two hashes.                                *)
EXTENDS ForkConsensus, TLC

Symmetry == Permutations(Nodes)
=============================================================================
