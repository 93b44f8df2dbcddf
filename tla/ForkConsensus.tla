---------------------------- MODULE ForkConsensus ----------------------------
(***************************************************************************)
(* determineForkConsensus of pkg/health/ethereum/consensus.go, one loop    *)
(* iteration per step.  The loops are over Go maps, so each iteration takes*)
(* any key that is left.                                                   *)
(***************************************************************************)
EXTENDS ForkVotes

VARIABLES
    votes,      \* the votes of the nodes that were asked
    loop,       \* the loop being run, or that the function has returned
    left,       \* the keys of that loop's map not iterated over yet
    tally       \* the four named results of the function

vars == <<votes, loop, left, tally>>

Choice == INSTANCE ForkChoice WITH
    ballot <- votes,
    decided <- IF loop = "returned" THEN {tally} ELSE {}

Asked == DOMAIN votes

Init ==
    /\ votes \in Ballots
    /\ loop = "numbers"
    /\ left = NumbersOf(votes, Asked)
    /\ tally = NobodyAsked

Outnumbers(group, leaders) == Cardinality(group) > Cardinality(leaders)

\* Mutant: the leaders that are overtaken are not added to the wrong ones.
VisitNumberForgettingLeaders(n) ==
    /\ loop = "numbers"
    /\ n \in left
    /\ left' = left \ {n}
    /\ LET group == AtNumber(votes, Asked, n)
       IN  tally' = IF Outnumbers(group, tally.consensusBlockNum)
                    THEN [tally EXCEPT !.consensusBlockNum = group]
                    ELSE [tally EXCEPT !.wrongBlockNum = @ \cup group]
    /\ UNCHANGED <<votes, loop>>

\* Lines 63-73.
VisitNumber(n) ==
    /\ loop = "numbers"
    /\ n \in left
    /\ left' = left \ {n}
    /\ LET group == AtNumber(votes, Asked, n)
       IN  tally' = IF Outnumbers(group, tally.consensusBlockNum)
                    THEN [tally EXCEPT !.wrongBlockNum = @ \cup tally.consensusBlockNum,
                                       !.consensusBlockNum = group]
                    ELSE [tally EXCEPT !.wrongBlockNum = @ \cup group]
    /\ UNCHANGED <<votes, loop>>

\* Mutant: the second map is keyed as the first one.
CountHashesByNumber ==
    /\ loop = "numbers"
    /\ left = {}
    /\ loop' = "hashes"
    /\ left' = NumbersOf(votes, tally.consensusBlockNum)
    /\ UNCHANGED <<votes, tally>>

\* Lines 76-79: only the nodes at the consensus number vote on the hash.
CountHashes ==
    /\ loop = "numbers"
    /\ left = {}
    /\ loop' = "hashes"
    /\ left' = HashesOf(votes, tally.consensusBlockNum)
    /\ UNCHANGED <<votes, tally>>

\* Mutant: a group is compared with the leaders of the first loop.
VisitHashAgainstNumber(h) ==
    /\ loop = "hashes"
    /\ h \in left
    /\ left' = left \ {h}
    /\ LET group == AtHash(votes, tally.consensusBlockNum, h)
       IN  tally' = IF Cardinality(group) >= Cardinality(tally.consensusBlockNum)
                    THEN [tally EXCEPT !.wrongBlockHash = @ \cup tally.consensusBlockHash,
                                       !.consensusBlockHash = group]
                    ELSE [tally EXCEPT !.wrongBlockHash = @ \cup group]
    /\ UNCHANGED <<votes, loop>>

\* Lines 82-93.  Line 84 asks whether the first loop has leaders, not the second;
\* both lists are empty when it matters.
VisitHash(h) ==
    /\ loop = "hashes"
    /\ h \in left
    /\ left' = left \ {h}
    /\ LET group == AtHash(votes, tally.consensusBlockNum, h)
       IN  tally' = IF Outnumbers(group, tally.consensusBlockHash)
                    THEN [tally EXCEPT !.wrongBlockHash = @ \cup tally.consensusBlockHash,
                                       !.consensusBlockHash = group]
                    ELSE [tally EXCEPT !.wrongBlockHash = @ \cup group]
    /\ UNCHANGED <<votes, loop>>

Return ==
    /\ loop = "hashes"
    /\ left = {}
    /\ loop' = "returned"
    /\ UNCHANGED <<votes, left, tally>>

Next ==
    \/ \E n \in Numbers : VisitNumber(n)
    \/ CountHashes
    \/ \E h \in Hashes : VisitHash(h)
    \/ Return

Spec == Init /\ [][Next]_vars

-----------------------------------------------------------------------------
Groups == SUBSET Nodes

TypeOK ==
    /\ votes \in Ballots
    /\ loop \in {"numbers", "hashes", "returned"}
    /\ left \in IF loop = "numbers" THEN SUBSET Numbers ELSE SUBSET Hashes
    /\ tally \in [consensusBlockNum : Groups, wrongBlockNum : Groups,
                  consensusBlockHash : Groups, wrongBlockHash : Groups]

\* The health check passes when no node is in a wrong list.  Then every node that
\* was asked voted for the same block: no vote is lost on the way through the two
\* loops, whatever the order Go's maps are iterated in.
AgreementIsUnanimous ==
    /\ loop = "returned"
    /\ tally.wrongBlockNum = {} /\ tally.wrongBlockHash = {}
    => \A p, q \in Asked : votes[p] = votes[q]

\* The two loops decide what ForkChoice does in one step: a largest group at
\* each, and everybody else in exactly one of the wrong lists.
ImplementsForkChoice == Choice!Spec
=============================================================================
