--------------------------- MODULE TargetSelection ---------------------------
(***************************************************************************)
(* pkg/plan/suite/targeting.go: how many nodes an attack size means, which *)
(* ones they are, and the pods of them that a fault selects.               *)
(***************************************************************************)
EXTENDS NetworkTopology

AttackSizes == {"AttackOne", "AttackAll", "AttackMinority", "AttackSuperminority",
                "AttackMajority", "AttackSupermajority"}

\* The nodes wanted out of a network of n, of which some are targetable.  The
\* float32 arithmetic has these values for every network of up to 1000 nodes.
NodesToTarget(size, n, targetable) ==
    LET rounded == [AttackMinority      |-> (32 * n) \div 100,
                    AttackSuperminority |-> (34 * n) \div 100,
                    AttackMajority      |-> (51 * n) \div 100,
                    AttackSupermajority |-> (67 * n) \div 100]
        short == [AttackMinority      |-> FALSE,
                  AttackSuperminority |-> 3 * rounded.AttackSuperminority < n,
                  AttackMajority      |-> 2 * rounded.AttackMajority <= n,
                  AttackSupermajority |-> 3 * rounded.AttackSupermajority <= 2 * n]
    IN  CASE size = "AttackOne" -> 1
          [] size = "AttackAll" -> targetable
          [] OTHER -> rounded[size] + (IF short[size] THEN 1 ELSE 0)

\* Mutant: the size of the scope is not looked at.
CannotMeetTargetableOnly(size, n, targetable) ==
    NodesToTarget(size, n, targetable) \notin 1 .. targetable

\* Mutant: a size that comes to no node is met by none.
CannotMeetOrNone(size, n, targetable) ==
    LET k == NodesToTarget(size, n, targetable)
    IN  \/ size \notin {"AttackOne", "AttackAll"} /\ k > targetable
        \/ size = "AttackSuperminority" /\ 2 * k >= n
        \/ size = "AttackMajority" /\ 100 * k >= 66 * n
        \/ size = "AttackSupermajority" /\ k > n

\* CannotMeetConstraintError.
CannotMeet(size, n, targetable) ==
    LET k == NodesToTarget(size, n, targetable)
    IN  \/ k = 0
        \/ size \notin {"AttackOne", "AttackAll"} /\ k > targetable
        \/ size = "AttackSuperminority" /\ 2 * k >= n
        \/ size = "AttackMajority" /\ 100 * k >= 66 * n
        \/ size = "AttackSupermajority" /\ k > n

Runs(node, client, isExecClient) ==
    client = IF isExecClient THEN node.execution ELSE node.consensus

FilterNodes(nodes, client, isExecClient) ==
    KeepOnly(nodes, {node \in Range(nodes) : Runs(node, client, isExecClient)})

TargetingSpecs == {"MatchingNode", "MatchingClient"}

\* The number of a pod's name is padded to the width of the network's size.
Width(networkNodeCount) ==
    CASE networkNodeCount < 10 -> 1 [] networkNodeCount \in 10 .. 99 -> 2 [] OTHER -> 3

NodeIdTag(networkNodeCount, node, client) ==
    [client |-> client, width |-> Width(networkNodeCount), index |-> node.index,
     execution |-> node.execution, consensus |-> node.consensus]

\* createTargetSelectorForNode and its two siblings: the clients of a node that are hit.
Impacted(dimension, isExecClient, node) ==
    LET consensus == {"cl"} \cup IF node.consensus \in Sidecars THEN {"val"} ELSE {}
    IN  CASE dimension = "MatchingNode" -> {"el"} \cup consensus
          [] dimension = "MatchingClient" -> IF isExecClient THEN {"el"} ELSE consensus

TargetSelector(dimension, isExecClient, networkNodeCount, node) ==
    {NodeIdTag(networkNodeCount, node, client) :
        client \in Impacted(dimension, isExecClient, node)}
=============================================================================
