------------------------------ MODULE ForkVotes ------------------------------
(***************************************************************************)
(* The votes of pkg/health/ethereum/consensus.go and the groups they make. *)
(***************************************************************************)
EXTENDS FiniteSets, Naturals

CONSTANTS
    Nodes,     \* the nodes that may vote
    Numbers,   \* block numbers
    Hashes     \* block hashes

ASSUME NodesAssumption == IsFiniteSet(Nodes)

\* ClientForkChoice, without its Pod, which is the vote's place in a ballot.
ClientForkChoice == [number : Numbers, hash : Hashes]

\* A ballot has the votes of the nodes that were asked: not always all of them.
Ballots == UNION {[asked -> ClientForkChoice] : asked \in SUBSET Nodes}

AtNumber(votes, nodes, n) == {node \in nodes : votes[node].number = n}
AtHash(votes, nodes, h) == {node \in nodes : votes[node].hash = h}

NumbersOf(votes, nodes) == {votes[node].number : node \in nodes}
HashesOf(votes, nodes) == {votes[node].hash : node \in nodes}

\* Groups of nodes that no other group outnumbers.
LargestNumberGroups(votes, nodes) ==
    {AtNumber(votes, nodes, n) : n \in
        {n \in NumbersOf(votes, nodes) : \A m \in NumbersOf(votes, nodes) :
            Cardinality(AtNumber(votes, nodes, m)) <= Cardinality(AtNumber(votes, nodes, n))}}

LargestHashGroups(votes, nodes) ==
    {AtHash(votes, nodes, h) : h \in
        {h \in HashesOf(votes, nodes) : \A g \in HashesOf(votes, nodes) :
            Cardinality(AtHash(votes, nodes, g)) <= Cardinality(AtHash(votes, nodes, h))}}

\* The result of determineForkConsensus, its four lists of votes as sets of nodes.
Outcome(asked, atNumber, atHash) ==
    [consensusBlockNum  |-> atNumber, wrongBlockNum  |-> asked \ atNumber,
     consensusBlockHash |-> atHash,   wrongBlockHash |-> atNumber \ atHash]

NobodyAsked == Outcome({}, {}, {})

Outcomes(votes) ==
    LET asked == DOMAIN votes
    IN  IF asked = {}
        THEN {NobodyAsked}
        ELSE UNION {{Outcome(asked, atNumber, atHash) :
                        atHash \in LargestHashGroups(votes, atNumber)} :
                            atNumber \in LargestNumberGroups(votes, asked)}
=============================================================================
