------------------------- MODULE ForkConsensusProofs -------------------------
(***************************************************************************)
(* That the two loops of determineForkConsensus decide as ForkChoice does, *)
(* for any finite set of nodes, any numbers and hashes and any iteration   *)
(* order.                                                                  *)
(*                                                                         *)
(* Both loops do the same with a different key.  After any number of       *)
(* iterations the leaders are a group that none of the groups seen so far  *)
(* outnumbers, and everybody else seen so far is wrong: Leading, which one *)
(* iteration preserves whatever the key (LeadersAfterVisit).               *)
(***************************************************************************)
EXTENDS ForkConsensus, FiniteSetTheorems, TLAPS

\* The nodes with key x, and the keys that have been seen.
WithKey(key, nodes, x) == {node \in nodes : key[node] = x}

Leading(key, nodes, seen, leaders, wrong) ==
    /\ leaders \cup wrong = {node \in nodes : key[node] \in seen}
    /\ leaders \cap wrong = {}
    /\ seen = {} => leaders = {}
    /\ seen # {} => \E x \in seen :
            /\ leaders = WithKey(key, nodes, x)
            /\ \A y \in seen : Cardinality(WithKey(key, nodes, y)) <= Cardinality(leaders)

\* The group that a key's nodes make is finite, and not empty when it has a node.
LEMMA GroupsAreFinite ==
    ASSUME NEW nodes, IsFiniteSet(nodes), NEW group, group \subseteq nodes
    PROVE  /\ IsFiniteSet(group)
           /\ Cardinality(group) \in Nat
           /\ group # {} => Cardinality(group) > 0
<1>1. IsFiniteSet(group) BY FS_Subset
<1>2. Cardinality(group) \in Nat BY <1>1, FS_CardinalityType
<1>3. group # {} => Cardinality(group) # 0 BY <1>1, FS_EmptySet
<1> QED BY <1>1, <1>2, <1>3

\* One iteration of either loop, at a key not seen before that some node has.
LEMMA LeadersAfterVisit ==
    ASSUME NEW nodes, IsFiniteSet(nodes), NEW key, NEW seen, NEW leaders, NEW wrong,
           leaders \subseteq nodes,
           Leading(key, nodes, seen, leaders, wrong),
           NEW x, x \notin seen, NEW node \in nodes, key[node] = x
    PROVE  LET group == WithKey(key, nodes, x)
           IN  IF Outnumbers(group, leaders)
               THEN Leading(key, nodes, seen \cup {x}, group, wrong \cup leaders)
               ELSE Leading(key, nodes, seen \cup {x}, leaders, wrong \cup group)
<1> DEFINE group == WithKey(key, nodes, x)
<1>1. /\ group \subseteq nodes
      /\ group # {}
      /\ group \cap (leaders \cup wrong) = {}
      /\ group \cup leaders \cup wrong = {n \in nodes : key[n] \in seen \cup {x}}
  BY DEF Leading, WithKey
<1>2. Cardinality(group) \in Nat /\ Cardinality(group) > 0 /\ Cardinality(leaders) \in Nat
  BY <1>1, GroupsAreFinite
<1>3. leaders \cap wrong = {} BY DEF Leading
<1>4. CASE Outnumbers(group, leaders)
  <2>1. \A y \in seen \cup {x} :
            Cardinality(WithKey(key, nodes, y)) <= Cardinality(group)
    <3> TAKE y \in seen \cup {x}
    <3>1. CASE y = x BY <3>1, <1>2
    <3>2. CASE y \in seen
      <4>1. Cardinality(WithKey(key, nodes, y)) <= Cardinality(leaders)
        BY <3>2 DEF Leading
      <4>2. Cardinality(WithKey(key, nodes, y)) \in Nat
        <5>1. WithKey(key, nodes, y) \subseteq nodes BY DEF WithKey
        <5> QED BY <5>1, GroupsAreFinite
      <4> QED BY <4>1, <4>2, <1>2, <1>4 DEF Outnumbers
    <3> QED BY <3>1, <3>2
  <2>2. group \cap (wrong \cup leaders) = {} BY <1>1
  <2>3. group \cup (wrong \cup leaders) = {n \in nodes : key[n] \in seen \cup {x}} BY <1>1
  <2>4. Leading(key, nodes, seen \cup {x}, group, wrong \cup leaders)
    <3>1. x \in seen \cup {x} /\ seen \cup {x} # {} OBVIOUS
    <3> QED BY <2>1, <2>2, <2>3, <3>1 DEF Leading
  <2> QED BY <2>4, <1>4
<1>5. CASE ~ Outnumbers(group, leaders)
  <2>1. Cardinality(group) <= Cardinality(leaders) BY <1>5, <1>2 DEF Outnumbers
  <2>2. leaders # {}
    <3>1. Cardinality(leaders) > 0 BY <2>1, <1>2
    <3> QED BY <3>1, FS_EmptySet
  <2>3. PICK y \in seen : /\ leaders = WithKey(key, nodes, y)
                          /\ \A z \in seen : Cardinality(WithKey(key, nodes, z))
                                                <= Cardinality(leaders)
    BY <2>2 DEF Leading
  <2>4. \A z \in seen \cup {x} : Cardinality(WithKey(key, nodes, z)) <= Cardinality(leaders)
    BY <2>1, <2>3
  <2>5. leaders \cap (wrong \cup group) = {} BY <1>1, <1>3
  <2>6. leaders \cup (wrong \cup group) = {n \in nodes : key[n] \in seen \cup {x}} BY <1>1
  <2>7. y \in seen \cup {x} /\ seen \cup {x} # {} OBVIOUS
  <2>8. Leading(key, nodes, seen \cup {x}, leaders, wrong \cup group)
    BY <2>3, <2>4, <2>5, <2>6, <2>7 DEF Leading
  <2> QED BY <2>8, <1>5
<1> QED BY <1>4, <1>5

-----------------------------------------------------------------------------
NumberKey == [node \in Asked |-> votes[node].number]
HashKey == [node \in Asked |-> votes[node].hash]

NumbersLeading(seen) ==
    Leading(NumberKey, Asked, seen, tally.consensusBlockNum, tally.wrongBlockNum)
HashesLeading(seen) ==
    Leading(HashKey, tally.consensusBlockNum, seen,
            tally.consensusBlockHash, tally.wrongBlockHash)

AllNumbers == NumbersOf(votes, Asked)
AllHashes == HashesOf(votes, tally.consensusBlockNum)

\* The inductive invariant: which loop is being run, and what of it is done.
IInv ==
    /\ TypeOK
    /\ tally.consensusBlockNum \subseteq Asked
    /\ loop = "numbers" =>
          /\ left \subseteq AllNumbers
          /\ NumbersLeading(AllNumbers \ left)
          /\ tally.consensusBlockHash = {} /\ tally.wrongBlockHash = {}
    /\ loop # "numbers" => NumbersLeading(AllNumbers)
    /\ loop = "hashes" => left \subseteq AllHashes /\ HashesLeading(AllHashes \ left)
    /\ loop = "returned" => HashesLeading(AllHashes)

Tallies == [consensusBlockNum : Groups, wrongBlockNum : Groups,
            consensusBlockHash : Groups, wrongBlockHash : Groups]

\* What a ballot is: the votes of finitely many nodes.
LEMMA BallotsAreFinite ==
    ASSUME votes \in Ballots
    PROVE  /\ Asked \subseteq Nodes
           /\ IsFiniteSet(Asked)
           /\ votes \in [Asked -> ClientForkChoice]
           /\ AllNumbers \subseteq Numbers
<1>1. PICK asked \in SUBSET Nodes : votes \in [asked -> ClientForkChoice] BY DEF Ballots
<1>2. Asked = asked BY <1>1 DEF Asked
<1>3. IsFiniteSet(Asked) BY <1>2, NodesAssumption, FS_Subset
<1>4. AllNumbers \subseteq Numbers BY <1>1, <1>2 DEF AllNumbers, NumbersOf, ClientForkChoice
<1> QED BY <1>1, <1>2, <1>3, <1>4

\* The hashes that are counted are hashes.
LEMMA HashesAreHashes ==
    ASSUME votes \in Ballots, tally.consensusBlockNum \subseteq Asked
    PROVE  AllHashes \subseteq Hashes
<1>1. votes \in [Asked -> ClientForkChoice] BY BallotsAreFinite
<1> QED BY <1>1 DEF AllHashes, HashesOf, ClientForkChoice

\* Nothing has been seen, nobody leads.
LEMMA NobodyLeads ==
    ASSUME NEW key, NEW nodes
    PROVE  Leading(key, nodes, {}, {}, {})
BY DEF Leading

LEMMA InitEstablishes == Init => IInv
<1> SUFFICES ASSUME Init PROVE IInv OBVIOUS
<1>1. /\ tally.consensusBlockNum = {} /\ tally.wrongBlockNum = {}
      /\ tally.consensusBlockHash = {} /\ tally.wrongBlockHash = {}
      /\ tally \in Tallies
  BY DEF Init, NobodyAsked, Outcome, Tallies, Groups
<1>2. left = AllNumbers /\ AllNumbers \subseteq Numbers /\ loop = "numbers" /\ votes \in Ballots
  BY BallotsAreFinite DEF Init, AllNumbers
<1>3. TypeOK BY <1>1, <1>2 DEF TypeOK, Tallies
<1>4. NumbersLeading(AllNumbers \ left)
  <2>1. AllNumbers \ left = {} BY <1>2
  <2> QED BY <1>1, <2>1, NobodyLeads DEF NumbersLeading
<1> QED BY <1>1, <1>2, <1>3, <1>4 DEF IInv

LEMMA VisitNumberPreserves ==
    ASSUME IInv, NEW n \in Numbers, VisitNumber(n)
    PROVE  IInv'
<1> DEFINE group == AtNumber(votes, Asked, n)
           seen == AllNumbers \ left
<1>1. /\ votes \in Ballots /\ tally \in Tallies /\ left \subseteq AllNumbers
      /\ loop = "numbers" /\ left \subseteq Numbers /\ n \in left
      /\ tally.consensusBlockNum \subseteq Asked
      /\ NumbersLeading(seen)
      /\ tally.consensusBlockHash = {} /\ tally.wrongBlockHash = {}
  BY DEF IInv, TypeOK, Tallies, VisitNumber
<1>2. IsFiniteSet(Asked) /\ Asked \subseteq Nodes BY <1>1, BallotsAreFinite
<1>3. PICK node \in Asked : NumberKey[node] = n
  BY <1>1 DEF AllNumbers, NumbersOf, NumberKey
<1>4. WithKey(NumberKey, Asked, n) = group BY DEF WithKey, NumberKey, AtNumber
<1>5. /\ votes' = votes /\ loop' = loop /\ left' = left \ {n}
      /\ Asked' = Asked /\ NumberKey' = NumberKey /\ AllNumbers' = AllNumbers
  BY DEF VisitNumber, Asked, NumberKey, AllNumbers
<1>6. (AllNumbers \ left)' = seen \cup {n} BY <1>1, <1>5
<1>7. /\ tally' \in Tallies
      /\ tally'.consensusBlockHash = {} /\ tally'.wrongBlockHash = {}
      /\ tally'.consensusBlockNum \subseteq Asked
      /\ Leading(NumberKey, Asked, seen \cup {n},
                 tally'.consensusBlockNum, tally'.wrongBlockNum)
  <2>1. LET g == WithKey(NumberKey, Asked, n)
        IN  IF Outnumbers(g, tally.consensusBlockNum)
            THEN Leading(NumberKey, Asked, seen \cup {n}, g,
                         tally.wrongBlockNum \cup tally.consensusBlockNum)
            ELSE Leading(NumberKey, Asked, seen \cup {n}, tally.consensusBlockNum,
                         tally.wrongBlockNum \cup g)
    <3>1. n \notin seen BY <1>1
    <3>2. Leading(NumberKey, Asked, seen, tally.consensusBlockNum, tally.wrongBlockNum)
      BY <1>1 DEF NumbersLeading
    <3> HIDE DEF seen
    <3> QED BY <1>1, <1>2, <1>3, <3>1, <3>2, LeadersAfterVisit
  <2>2. group \subseteq Asked /\ group \in Groups BY <1>2 DEF AtNumber, Groups
  <2>3. CASE Outnumbers(group, tally.consensusBlockNum)
    <3>1. tally' = [tally EXCEPT !.wrongBlockNum = @ \cup tally.consensusBlockNum,
                                 !.consensusBlockNum = group]
      BY <2>3 DEF VisitNumber
    <3> HIDE DEF seen, group
    <3>2. /\ tally'.consensusBlockNum = group
          /\ tally'.wrongBlockNum = tally.wrongBlockNum \cup tally.consensusBlockNum
          /\ tally'.consensusBlockHash = {} /\ tally'.wrongBlockHash = {}
          /\ tally' \in Tallies
      BY <1>1, <2>2, <3>1 DEF Tallies, Groups
    <3> QED BY <2>1, <2>2, <2>3, <1>4, <3>2
  <2>4. CASE ~ Outnumbers(group, tally.consensusBlockNum)
    <3>1. tally' = [tally EXCEPT !.wrongBlockNum = @ \cup group] BY <2>4 DEF VisitNumber
    <3> HIDE DEF seen, group
    <3>2. /\ tally'.consensusBlockNum = tally.consensusBlockNum
          /\ tally'.wrongBlockNum = tally.wrongBlockNum \cup group
          /\ tally'.consensusBlockHash = {} /\ tally'.wrongBlockHash = {}
          /\ tally' \in Tallies
      BY <1>1, <2>2, <3>1 DEF Tallies, Groups
    <3> QED BY <1>1, <2>1, <2>4, <1>4, <3>2
  <2> QED BY <2>3, <2>4
<1>8. TypeOK' BY <1>1, <1>5, <1>7 DEF TypeOK, Tallies
<1>9. NumbersLeading(AllNumbers \ left)' BY <1>5, <1>6, <1>7 DEF NumbersLeading
<1>10. left' \subseteq AllNumbers' /\ tally'.consensusBlockNum \subseteq Asked'
  BY <1>1, <1>5, <1>7
<1> QED BY <1>1, <1>5, <1>7, <1>8, <1>9, <1>10 DEF IInv

LEMMA CountHashesPreserves ==
    ASSUME IInv, CountHashes
    PROVE  IInv'
<1>1. /\ votes \in Ballots /\ tally \in Tallies /\ left = {} /\ loop = "numbers"
      /\ tally.consensusBlockNum \subseteq Asked
      /\ NumbersLeading(AllNumbers \ left)
      /\ tally.consensusBlockHash = {} /\ tally.wrongBlockHash = {}
  BY DEF IInv, TypeOK, Tallies, CountHashes
<1>2. /\ votes' = votes /\ tally' = tally /\ loop' = "hashes" /\ left' = AllHashes
      /\ Asked' = Asked /\ NumberKey' = NumberKey /\ HashKey' = HashKey
      /\ AllNumbers' = AllNumbers /\ AllHashes' = AllHashes
  BY DEF CountHashes, Asked, NumberKey, HashKey, AllNumbers, AllHashes
<1>3. AllHashes \subseteq Hashes BY <1>1, HashesAreHashes
<1>4. TypeOK' BY <1>1, <1>2, <1>3 DEF TypeOK, Tallies
<1>5. NumbersLeading(AllNumbers)'
  <2>1. AllNumbers \ left = AllNumbers BY <1>1
  <2> QED BY <1>1, <1>2, <2>1 DEF NumbersLeading
<1>6. HashesLeading(AllHashes \ left)'
  <2>1. (AllHashes \ left)' = {} BY <1>2
  <2> QED BY <1>1, <1>2, <2>1, NobodyLeads DEF HashesLeading
<1> QED BY <1>1, <1>2, <1>4, <1>5, <1>6 DEF IInv

LEMMA VisitHashPreserves ==
    ASSUME IInv, NEW h \in Hashes, VisitHash(h)
    PROVE  IInv'
<1> DEFINE voters == tally.consensusBlockNum
           group == AtHash(votes, voters, h)
           seen == AllHashes \ left
<1>1. /\ votes \in Ballots /\ tally \in Tallies /\ left \subseteq AllHashes
      /\ loop = "hashes" /\ left \subseteq Hashes /\ h \in left
      /\ voters \subseteq Asked
      /\ NumbersLeading(AllNumbers) /\ HashesLeading(seen)
  BY DEF IInv, TypeOK, Tallies, VisitHash
<1>2. IsFiniteSet(Asked) /\ Asked \subseteq Nodes BY <1>1, BallotsAreFinite
<1>3. IsFiniteSet(voters) BY <1>1, <1>2, FS_Subset
<1>4. PICK node \in voters : HashKey[node] = h
  BY <1>1 DEF AllHashes, HashesOf, HashKey
<1>5. WithKey(HashKey, voters, h) = group BY <1>1 DEF WithKey, HashKey, AtHash
<1>6. /\ votes' = votes /\ loop' = loop /\ left' = left \ {h}
      /\ Asked' = Asked /\ HashKey' = HashKey /\ NumberKey' = NumberKey
      /\ AllNumbers' = AllNumbers
  BY DEF VisitHash, Asked, HashKey, NumberKey, AllNumbers
<1>7. tally.consensusBlockHash \subseteq voters
  BY <1>1 DEF HashesLeading, Leading
<1>8. /\ tally' \in Tallies
      /\ tally'.consensusBlockNum = voters /\ tally'.wrongBlockNum = tally.wrongBlockNum
      /\ Leading(HashKey, voters, seen \cup {h},
                 tally'.consensusBlockHash, tally'.wrongBlockHash)
  <2>1. LET g == WithKey(HashKey, voters, h)
        IN  IF Outnumbers(g, tally.consensusBlockHash)
            THEN Leading(HashKey, voters, seen \cup {h}, g,
                         tally.wrongBlockHash \cup tally.consensusBlockHash)
            ELSE Leading(HashKey, voters, seen \cup {h}, tally.consensusBlockHash,
                         tally.wrongBlockHash \cup g)
    <3>1. h \notin seen BY <1>1
    <3>2. Leading(HashKey, voters, seen, tally.consensusBlockHash, tally.wrongBlockHash)
      BY <1>1 DEF HashesLeading
    <3> HIDE DEF seen, voters
    <3> QED BY <1>3, <1>4, <1>7, <3>1, <3>2, LeadersAfterVisit
  <2>2. group \subseteq voters /\ group \in Groups BY <1>1, <1>2 DEF AtHash, Groups
  <2>3. CASE Outnumbers(group, tally.consensusBlockHash)
    <3>1. tally' = [tally EXCEPT !.wrongBlockHash = @ \cup tally.consensusBlockHash,
                                 !.consensusBlockHash = group]
      BY <2>3 DEF VisitHash
    <3> HIDE DEF seen, group
    <3>2. /\ tally'.consensusBlockHash = group
          /\ tally'.wrongBlockHash = tally.wrongBlockHash \cup tally.consensusBlockHash
          /\ tally'.consensusBlockNum = voters /\ tally'.wrongBlockNum = tally.wrongBlockNum
          /\ tally' \in Tallies
      BY <1>1, <2>2, <3>1 DEF Tallies, Groups
    <3> QED BY <2>1, <2>3, <1>5, <3>2
  <2>4. CASE ~ Outnumbers(group, tally.consensusBlockHash)
    <3>1. tally' = [tally EXCEPT !.wrongBlockHash = @ \cup group] BY <2>4 DEF VisitHash
    <3> HIDE DEF seen, group
    <3>2. /\ tally'.consensusBlockHash = tally.consensusBlockHash
          /\ tally'.wrongBlockHash = tally.wrongBlockHash \cup group
          /\ tally'.consensusBlockNum = voters /\ tally'.wrongBlockNum = tally.wrongBlockNum
          /\ tally' \in Tallies
      BY <1>1, <2>2, <3>1 DEF Tallies, Groups
    <3> QED BY <2>1, <2>4, <1>5, <3>2
  <2> QED BY <2>3, <2>4
<1>9. AllHashes' = AllHashes BY <1>6, <1>8 DEF AllHashes
<1>10. (AllHashes \ left)' = seen \cup {h} BY <1>1, <1>6, <1>9
<1>11. TypeOK' BY <1>1, <1>6, <1>8 DEF TypeOK, Tallies
<1>12. NumbersLeading(AllNumbers)' BY <1>1, <1>6, <1>8 DEF NumbersLeading
<1>13. HashesLeading(AllHashes \ left)' BY <1>6, <1>8, <1>10 DEF HashesLeading
<1> QED BY <1>1, <1>6, <1>8, <1>9, <1>11, <1>12, <1>13 DEF IInv

LEMMA ReturnPreserves ==
    ASSUME IInv, Return
    PROVE  IInv'
<1>1. /\ votes' = votes /\ tally' = tally /\ left' = left /\ loop' = "returned" /\ left = {}
      /\ loop = "hashes"
      /\ Asked' = Asked /\ NumberKey' = NumberKey /\ HashKey' = HashKey
      /\ AllNumbers' = AllNumbers /\ AllHashes' = AllHashes
  BY DEF Return, Asked, NumberKey, HashKey, AllNumbers, AllHashes
<1>2. AllHashes \ left = AllHashes BY <1>1
<1> QED BY <1>1, <1>2 DEF IInv, TypeOK, NumbersLeading, HashesLeading

LEMMA StutterPreserves ==
    ASSUME IInv, UNCHANGED vars
    PROVE  IInv'
<1>1. /\ votes' = votes /\ tally' = tally /\ left' = left /\ loop' = loop
      /\ Asked' = Asked /\ NumberKey' = NumberKey /\ HashKey' = HashKey
      /\ AllNumbers' = AllNumbers /\ AllHashes' = AllHashes
  BY DEF vars, Asked, NumberKey, HashKey, AllNumbers, AllHashes
<1> QED BY <1>1 DEF IInv, TypeOK, NumbersLeading, HashesLeading

\* In every state the loops have reached, the leaders of what they have seen lead
\* it and nobody seen is lost.
THEOREM ConsensusInvariance == Spec => []IInv
<1>1. Init => IInv BY InitEstablishes
<1>2. IInv /\ [Next]_vars => IInv'
  BY VisitNumberPreserves, CountHashesPreserves, VisitHashPreserves, ReturnPreserves,
     StutterPreserves DEF Next
<1> QED BY <1>1, <1>2, PTL DEF Spec

\* The types of the two loops (lines 46-95) for every ballot.
THEOREM ConsensusTypeCorrect == Spec => []TypeOK
BY ConsensusInvariance, PTL DEF IInv

-----------------------------------------------------------------------------
\* When every key has been seen, the leaders are a largest group and the others wrong.
LEMMA LeadersAreLargest ==
    ASSUME NEW key, NEW nodes, NEW leaders, NEW wrong,
           Leading(key, nodes, {key[node] : node \in nodes}, leaders, wrong)
    PROVE  /\ wrong = nodes \ leaders
           /\ nodes = {} => leaders = {}
           /\ nodes # {} => /\ leaders # {}
                            /\ \E x \in {key[node] : node \in nodes} :
                                  /\ leaders = WithKey(key, nodes, x)
                                  /\ \A y \in {key[node] : node \in nodes} :
                                        Cardinality(WithKey(key, nodes, y))
                                            <= Cardinality(WithKey(key, nodes, x))
<1> DEFINE keys == {key[node] : node \in nodes}
<1>1. leaders \cup wrong = nodes /\ leaders \cap wrong = {}
  BY DEF Leading
<1>2. CASE nodes = {}
  BY <1>1, <1>2
<1>3. CASE nodes # {}
  <2>1. keys # {} BY <1>3
  <2>2. PICK x \in keys :
            /\ leaders = WithKey(key, nodes, x)
            /\ \A y \in keys : Cardinality(WithKey(key, nodes, y)) <= Cardinality(leaders)
    BY <2>1 DEF Leading
  <2>3. leaders # {} BY <2>2 DEF WithKey
  <2> QED BY <1>1, <1>3, <2>2, <2>3
<1> QED BY <1>2, <1>3

\* The first loop decides the number.
LEMMA NumberDecided ==
    ASSUME NumbersLeading(AllNumbers)
    PROVE  /\ tally.wrongBlockNum = Asked \ tally.consensusBlockNum
           /\ Asked = {} => tally.consensusBlockNum = {}
           /\ Asked # {} => /\ tally.consensusBlockNum # {}
                            /\ tally.consensusBlockNum \in LargestNumberGroups(votes, Asked)
<1>1. AllNumbers = {NumberKey[node] : node \in Asked}
  BY DEF AllNumbers, NumbersOf, NumberKey
<1>2. \A n : WithKey(NumberKey, Asked, n) = AtNumber(votes, Asked, n)
  BY DEF WithKey, NumberKey, AtNumber
<1>3. Leading(NumberKey, Asked, {NumberKey[node] : node \in Asked},
              tally.consensusBlockNum, tally.wrongBlockNum)
  BY <1>1 DEF NumbersLeading
<1>4. /\ tally.wrongBlockNum = Asked \ tally.consensusBlockNum
      /\ Asked = {} => tally.consensusBlockNum = {}
      /\ Asked # {} => /\ tally.consensusBlockNum # {}
                       /\ \E x \in AllNumbers :
                             /\ tally.consensusBlockNum = AtNumber(votes, Asked, x)
                             /\ \A y \in AllNumbers :
                                   Cardinality(AtNumber(votes, Asked, y))
                                       <= Cardinality(AtNumber(votes, Asked, x))
  BY <1>1, <1>2, <1>3, LeadersAreLargest
<1> QED BY <1>4 DEF LargestNumberGroups, AllNumbers

\* The second loop decides the hash, of the nodes at the number.
LEMMA HashDecided ==
    ASSUME HashesLeading(AllHashes), tally.consensusBlockNum \subseteq Asked
    PROVE  /\ tally.wrongBlockHash = tally.consensusBlockNum \ tally.consensusBlockHash
           /\ tally.consensusBlockNum = {} => tally.consensusBlockHash = {}
           /\ tally.consensusBlockNum # {} =>
                tally.consensusBlockHash \in LargestHashGroups(votes, tally.consensusBlockNum)
<1> DEFINE voters == tally.consensusBlockNum
<1>1. AllHashes = {HashKey[node] : node \in voters}
  BY DEF AllHashes, HashesOf, HashKey
<1>2. \A h : WithKey(HashKey, voters, h) = AtHash(votes, voters, h)
  BY DEF WithKey, HashKey, AtHash
<1>3. Leading(HashKey, voters, {HashKey[node] : node \in voters},
              tally.consensusBlockHash, tally.wrongBlockHash)
  BY <1>1 DEF HashesLeading
<1>4. /\ tally.wrongBlockHash = voters \ tally.consensusBlockHash
      /\ voters = {} => tally.consensusBlockHash = {}
      /\ voters # {} => \E x \in AllHashes :
                            /\ tally.consensusBlockHash = AtHash(votes, voters, x)
                            /\ \A y \in AllHashes :
                                  Cardinality(AtHash(votes, voters, y))
                                      <= Cardinality(AtHash(votes, voters, x))
  <2> HIDE DEF voters
  <2> QED BY <1>1, <1>2, <1>3, LeadersAreLargest
<1> QED BY <1>4 DEF LargestHashGroups, AllHashes

\* What the loops return is an outcome the votes allow.
LEMMA TallyIsAnOutcome ==
    ASSUME IInv, NumbersLeading(AllNumbers), HashesLeading(AllHashes)
    PROVE  tally \in Outcomes(votes)
<1> DEFINE numbers == tally.consensusBlockNum
           hashes == tally.consensusBlockHash
<1>1. tally \in Tallies /\ numbers \subseteq Asked BY DEF IInv, TypeOK, Tallies
<1>2. tally.wrongBlockNum = Asked \ numbers /\ tally.wrongBlockHash = numbers \ hashes
  BY <1>1, NumberDecided, HashDecided
<1>3. tally = Outcome(Asked, numbers, hashes)
  BY <1>1, <1>2 DEF Tallies, Outcome
<1>4. CASE Asked = {}
  <2>1. numbers = {} /\ hashes = {} BY <1>1, <1>4, NumberDecided, HashDecided
  <2>2. tally = NobodyAsked BY <1>3, <1>4, <2>1 DEF NobodyAsked
  <2> QED BY <1>4, <2>2 DEF Outcomes, Asked
<1>5. CASE Asked # {}
  <2>1. numbers \in LargestNumberGroups(votes, Asked) BY <1>5, NumberDecided
  <2>2. hashes \in LargestHashGroups(votes, numbers) BY <1>1, <1>5, NumberDecided, HashDecided
  <2>3. tally \in {Outcome(Asked, numbers, atHash) : atHash \in LargestHashGroups(votes, numbers)}
    BY <1>3, <2>2
  <2> HIDE DEF numbers, hashes
  <2> QED BY <1>5, <2>1, <2>3 DEF Outcomes, Asked
<1> QED BY <1>4, <1>5

\* Nobody asked is in a wrong list only if all of them voted for one block.
THEOREM AgreementIsSound == Spec => []AgreementIsUnanimous
<1>1. IInv => AgreementIsUnanimous
  <2> SUFFICES ASSUME IInv, loop = "returned",
                      tally.wrongBlockNum = {}, tally.wrongBlockHash = {},
                      NEW p \in Asked, NEW q \in Asked
               PROVE  votes[p] = votes[q]
    BY DEF AgreementIsUnanimous
  <2>1. /\ NumbersLeading(AllNumbers) /\ HashesLeading(AllHashes)
        /\ tally.consensusBlockNum \subseteq Asked /\ votes \in Ballots
    BY DEF IInv, TypeOK
  <2>2. tally.consensusBlockNum = Asked /\ Asked # {} BY <2>1, NumberDecided
  <2>3. tally.consensusBlockHash = Asked /\ tally.consensusBlockHash \in LargestHashGroups(votes, Asked)
    <3>1. tally.wrongBlockHash = Asked \ tally.consensusBlockHash
      BY <2>1, <2>2, HashDecided
    <3>2. tally.consensusBlockHash \in LargestHashGroups(votes, Asked)
      BY <2>1, <2>2, HashDecided
    <3>3. tally.consensusBlockHash \subseteq Asked
      BY <3>2 DEF LargestHashGroups, AtHash
    <3> QED BY <3>1, <3>2, <3>3
  <2>4. \E n : Asked = AtNumber(votes, Asked, n)
    BY <2>1, <2>2, NumberDecided DEF LargestNumberGroups
  <2>5. \E h : Asked = AtHash(votes, Asked, h)
    BY <2>3 DEF LargestHashGroups
  <2>6. votes[p].number = votes[q].number BY <2>4 DEF AtNumber
  <2>7. votes[p].hash = votes[q].hash BY <2>5 DEF AtHash
  <2>8. votes[p] \in ClientForkChoice /\ votes[q] \in ClientForkChoice
    BY <2>1, BallotsAreFinite
  <2> QED BY <2>6, <2>7, <2>8 DEF ClientForkChoice
<1> QED BY <1>1, ConsensusInvariance, PTL

\* The instance of ForkChoice speaks of the same ballots and outcomes.
LEMMA SameChoice ==
    /\ Choice!Ballots = Ballots
    /\ Choice!Outcomes(votes) = Outcomes(votes)
<1>1. Choice!Ballots = Ballots
  BY DEF Choice!Ballots, Ballots, Choice!ClientForkChoice, ClientForkChoice
<1>2. \A nodes, n : Choice!AtNumber(votes, nodes, n) = AtNumber(votes, nodes, n)
  BY DEF Choice!AtNumber, AtNumber
<1>3. \A nodes, h : Choice!AtHash(votes, nodes, h) = AtHash(votes, nodes, h)
  BY DEF Choice!AtHash, AtHash
<1>0. \A group : Choice!Cardinality(group) = Cardinality(group)
  BY DEF Choice!Cardinality, Cardinality
<1>4. \A nodes : Choice!LargestNumberGroups(votes, nodes) = LargestNumberGroups(votes, nodes)
  BY <1>0, <1>2 DEF Choice!LargestNumberGroups, LargestNumberGroups, Choice!NumbersOf, NumbersOf
<1>5. \A nodes : Choice!LargestHashGroups(votes, nodes) = LargestHashGroups(votes, nodes)
  BY <1>0, <1>3 DEF Choice!LargestHashGroups, LargestHashGroups, Choice!HashesOf, HashesOf
<1>6. \A p, q, r : Choice!Outcome(p, q, r) = Outcome(p, q, r)
  BY DEF Choice!Outcome, Outcome
<1>7. Choice!NobodyAsked = NobodyAsked BY <1>6 DEF Choice!NobodyAsked, NobodyAsked
<1>8. Choice!Outcomes(votes) = Outcomes(votes)
  BY <1>4, <1>5, <1>6, <1>7 DEF Choice!Outcomes, Outcomes
<1> QED BY <1>1, <1>8

\* The two loops decide what ForkChoice decides in one step, at their return.
THEOREM LoopsImplementChoice == Spec => ImplementsForkChoice
<1> DEFINE decided == IF loop = "returned" THEN {tally} ELSE {}
<1>1. Init => Choice!Init
  BY SameChoice DEF Init, Choice!Init
<1>2. IInv /\ [Next]_vars => [Choice!Next]_<<votes, decided>>
  <2> SUFFICES ASSUME IInv, [Next]_vars
               PROVE  [Choice!Next]_<<votes, decided>>
    OBVIOUS
  <2>1. ASSUME NEW n \in Numbers, VisitNumber(n)
        PROVE  UNCHANGED <<votes, decided>>
    BY <2>1 DEF VisitNumber
  <2>2. CASE CountHashes
    BY <2>2 DEF CountHashes
  <2>3. ASSUME NEW h \in Hashes, VisitHash(h)
        PROVE  UNCHANGED <<votes, decided>>
    BY <2>3 DEF VisitHash
  <2>4. CASE Return
    <3>1. loop = "hashes" /\ left = {} /\ loop' = "returned" /\ UNCHANGED <<votes, tally>>
      BY <2>4 DEF Return
    <3>2. NumbersLeading(AllNumbers) /\ HashesLeading(AllHashes)
      <4>1. AllHashes \ left = AllHashes BY <3>1
      <4> QED BY <3>1, <4>1 DEF IInv
    <3>3. tally \in Choice!Outcomes(votes) BY <3>2, TallyIsAnOutcome, SameChoice
    <3>4. decided = {} /\ decided' = {tally} BY <3>1
    <3> QED BY <3>1, <3>3, <3>4 DEF Choice!Next, Choice!Decide
  <2>5. CASE UNCHANGED vars
    BY <2>5 DEF vars
  <2> QED BY <2>1, <2>2, <2>3, <2>4, <2>5 DEF Next
<1> QED BY <1>1, <1>2, ConsensusInvariance, PTL DEF Spec, ImplementsForkChoice, Choice!Spec
=============================================================================
