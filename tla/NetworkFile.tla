----------------------------- MODULE NetworkFile -----------------------------
(***************************************************************************)
(* pkg/plan/serialization.go: the network file of a plan, and the network  *)
(* that is made of it.  The file has no node numbers: a node is its place  *)
(* in the list, and its sidecar is the cpu asked for it.                   *)
(***************************************************************************)
EXTENDS TargetSelection

\* composeConsensusClient gives a sidecar its cpu, and no sidecar none.
SidecarCpuRequired(node) == IF node.consensus \in Sidecars THEN 500 ELSE 0

Participant(node) ==
    [elType |-> node.execution, clType |-> node.consensus,
     valMaxCpu |-> SidecarCpuRequired(node)]

\* Mutant: the bootnode, which has no targets, is put last.
SerializeNodesBootnodeLast(nodes) ==
    [i \in DOMAIN nodes |-> Participant(nodes[(i % Len(nodes)) + 1])]

SerializeNodes(nodes) == [i \in DOMAIN nodes |-> Participant(nodes[i])]

\* Nothing in the program that runs reads a network file back; Kurtosis reads it in
\* this way.
DeserializeNetworkTopology(participants) ==
    [i \in DOMAIN participants |->
        Node(i, participants[i].elType, participants[i].clType)]

PowersOfTen == <<1, 10, 100, 1000>>
Digits(n) == CHOOSE d \in 1 .. 3 : PowersOfTen[d] <= n /\ n < PowersOfTen[d + 1]

\* Kurtosis names the pods of a node after its place, padded to the digits of their number,
\* and a validator "cl-..-validator": test-suites/plan and docs/DOCUMENTATION.md:163 have
\* cl-2-lighthouse-reth-validator, faults.go:240 looks for that ending.
KurtosisPods(participants) ==
    LET read == DeserializeNetworkTopology(participants)
        Clients(i) ==
            {"el", "cl"} \cup IF participants[i].valMaxCpu # 0 THEN {"cl-validator"} ELSE {}
        Pod(i, client) ==
            [client |-> client, width |-> Digits(Len(read)), index |-> read[i].index,
             execution |-> read[i].execution, consensus |-> read[i].consensus]
    IN  UNION {{Pod(i, client) : client \in Clients(i)} : i \in DOMAIN read}
=============================================================================
