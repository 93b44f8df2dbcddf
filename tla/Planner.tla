------------------------------- MODULE Planner -------------------------------
(***************************************************************************)
(* attacknet plan: BuildPlan of pkg/plan, run again and again under one    *)
(* plan name.  It removes the files of the last plan, composes a network   *)
(* and a test suite for it, and writes one file for each.  The steps       *)
(* between are pure, so what can be seen of a plan that fails or is cut    *)
(* short is which of the two files it leaves.                              *)
(***************************************************************************)
EXTENDS FaultSteps, NetworkFile, FiniteSets

CONSTANTS
    Configs,    \* the planner configurations tried
    MaxPlans    \* bound: how many times the planner is run

ASSUME MaxPlansAssumption == MaxPlans \in Nat
\* The types of the fields of a planner file; of the sizes and dimensions those that
\* validatePlannerFaultConfiguration accepts.
ASSUME ConfigsAssumption ==
    \A c \in Configs :
        /\ c.execs \in Seq(Range(c.execs)) /\ c.conss \in Seq(Range(c.conss))
        /\ c.percent \in Int /\ c.multiplier \in Nat
        /\ c.sizes \in Seq(AttackSizes) /\ c.dimensions \in Seq(TargetingSpecs)
        /\ c.faults \in Seq(Range(c.faults))
        /\ c.namespace \in BOOLEAN
\* Networks of fewer than 1000 nodes: up to there the float32 quotients are as modelled,
\* and three digits are enough to number the pods.
ASSUME NetworksAssumption ==
    \A c \in Configs :
        LET targets == Len(NodesToTest(c))
        IN  /\ targets + 1 < 1000
            /\ c.percent \in 1 .. 100 => 100 * targets < 1000 * c.percent

VARIABLES
    config,    \* the planner configuration
    place,     \* where BuildPlan is
    nodes,     \* the nodes of the network composed
    tests,     \* the tests composed for it
    files,     \* the network file and the suite file, one at most of each
    plans      \* how often the planner has been run

vars == <<config, place, nodes, tests, files, plans>>

Places == {"returned", "removeNetwork", "removeSuite", "network", "suite",
           "createNetwork", "writeNetwork", "createSuite", "writeSuite", "picking"}

Init ==
    /\ config \in Configs
    /\ place = "returned"
    /\ nodes = <<>> /\ tests = <<>>
    /\ files = [network |-> {}, suite |-> {}]
    /\ plans = 0

\* The supported fault types: the list that the refusal prints has one more.
FaultTypes == {"ClockSkew", "RestartContainers", "IOLatency", "NetworkLatency"}

\* validatePlannerFaultConfiguration; the dimensions and sizes of Configs are those it
\* accepts.  A file it refuses changes nothing.
Valid(c) ==
    /\ c.type \in FaultTypes
    /\ c.target # "all" => IsTargetExecutionClient(c) \/ IsTargetConsensusClient(c)

LoadPlannerConfig(c) ==
    /\ place = "returned"
    /\ plans < MaxPlans
    /\ Valid(c)
    /\ config' = c
    /\ plans' = plans + 1
    /\ nodes' = <<>> /\ tests' = <<>>
    /\ place' = "removeNetwork"
    /\ UNCHANGED files

\* preparePaths, one file after the other.  A file whose status cannot be read counts
\* as absent there (lines 22, 33): the model's files are readable.
RemoveNetwork ==
    /\ place = "removeNetwork"
    /\ files' = [files EXCEPT !.network = {}]
    /\ place' = "removeSuite"
    /\ UNCHANGED <<config, nodes, tests, plans>>

\* Mutant: the suite of the last plan is not removed, only overwritten.
KeepSuite ==
    /\ place = "removeSuite"
    /\ place' = "network"
    /\ UNCHANGED <<config, nodes, tests, files, plans>>

RemoveSuite ==
    /\ place = "removeSuite"
    /\ files' = [files EXCEPT !.suite = {}]
    /\ place' = "network"
    /\ UNCHANGED <<config, nodes, tests, plans>>

ComposeNetwork ==
    /\ place = "network"
    /\ ~ ComposeNetworkRefuses(config)
    /\ ~ PicksForever(config)
    /\ nodes' = ComposeNetworkTopology(config)
    /\ place' = "suite"
    /\ UNCHANGED <<config, tests, files, plans>>

ComposeNetworkFails ==
    /\ place = "network"
    /\ ComposeNetworkRefuses(config)
    /\ place' = "returned"
    /\ UNCHANGED <<config, nodes, tests, files, plans>>

\* Nodes are added until the program is stopped.
PickForever ==
    /\ place = "network"
    /\ ~ ComposeNetworkRefuses(config)
    /\ PicksForever(config)
    /\ place' = "picking"
    /\ UNCHANGED <<config, nodes, tests, files, plans>>

-----------------------------------------------------------------------------
(* ComposeTestSuite, for the nodes but the bootnode.  Some node is          *)
(* targetable: the target runs next to every client of the other layer, and *)
(* the bootnode has one of those.                                           *)

IsExecClient == IsTargetExecutionClient(config)

\* Mutant: the bootnode is left out of the size of the network too.
NodeCountWithoutBootnode == Len(Tail(nodes))

\* Of the whole network: line 30 counts the bootnode in again.
NodeCount == Len(nodes)

Targetable == FilterNodes(Tail(nodes), config.target, IsExecClient)

\* The sizes that can be met and mean a number of nodes not tested before, after each of
\* those configured.
SizesTested ==
    LET Count(size) == NodesToTarget(size, NodeCount, Len(Targetable))
        tested[i \in 0 .. Len(config.sizes)] ==
            IF i = 0 THEN <<>>
            ELSE LET size == config.sizes[i]
                 IN  IF \/ CannotMeet(size, NodeCount, Len(Targetable))
                        \/ \E s \in Range(tested[i - 1]) : Count(s) = Count(size)
                     THEN tested[i - 1]
                     ELSE Append(tested[i - 1], size)
    IN  tested[Len(config.sizes)]

\* composeTestForFaultType: a plan against as many targets as the size means.
Test(dimension, size, fault) ==
    LET count == NodesToTarget(size, NodeCount, Len(Targetable))
        targets == [i \in 1 .. count |->
                       TargetSelector(dimension, IsExecClient, NodeCount, Targetable[i])]
    IN  [size |-> size, targets |-> targets, plan |-> PlanSteps(config.type, fault, targets)]

\* It refuses a fault that lacks a field, or has one that cannot be read.
SuiteRefused ==
    /\ \E fault \in Range(config.faults) : FaultRefused(config.type, fault)
    /\ SizesTested # <<>> /\ config.dimensions # <<>>

ComposeSuite ==
    /\ place = "suite"
    /\ ~ SuiteRefused
    /\ tests' = FlattenSeq([d \in DOMAIN config.dimensions |->
                    FlattenSeq([s \in DOMAIN SizesTested |->
                        [f \in DOMAIN config.faults |->
                            Test(config.dimensions[d], SizesTested[s], config.faults[f])]])])
    /\ place' = "createNetwork"
    /\ UNCHANGED <<config, nodes, files, plans>>

ComposeSuiteFails ==
    /\ place = "suite"
    /\ SuiteRefused
    /\ place' = "returned"
    /\ UNCHANGED <<config, nodes, tests, files, plans>>

-----------------------------------------------------------------------------
(* writePlans.  A file that is created is empty until it is written.  Of    *)
(* what BuildPlan puts into the suite, the namespace decides the enclave.   *)

Content(whole) == [plan |-> plans, whole |-> whole, namespace |-> config.namespace]

CreateNetwork ==
    /\ place = "createNetwork"
    /\ files' = [files EXCEPT !.network = {Content(FALSE)}]
    /\ place' = "writeNetwork"
    /\ UNCHANGED <<config, nodes, tests, plans>>

WriteNetwork ==
    /\ place = "writeNetwork"
    /\ files' = [files EXCEPT !.network = {Content(TRUE)}]
    /\ place' = "createSuite"
    /\ UNCHANGED <<config, nodes, tests, plans>>

CreateSuite ==
    /\ place = "createSuite"
    /\ files' = [files EXCEPT !.suite = {Content(FALSE)}]
    /\ place' = "writeSuite"
    /\ UNCHANGED <<config, nodes, tests, plans>>

WriteSuite ==
    /\ place = "writeSuite"
    /\ files' = [files EXCEPT !.suite = {Content(TRUE)}]
    /\ place' = "returned"
    /\ UNCHANGED <<config, nodes, tests, plans>>

\* A file operation fails, or the program is stopped.
CutShort ==
    /\ place # "returned"
    /\ place' = "returned"
    /\ UNCHANGED <<config, nodes, tests, files, plans>>

Next ==
    \/ \E c \in Configs : LoadPlannerConfig(c)
    \/ RemoveNetwork \/ RemoveSuite
    \/ ComposeNetwork \/ ComposeNetworkFails \/ PickForever
    \/ ComposeSuite \/ ComposeSuiteFails
    \/ CreateNetwork \/ WriteNetwork \/ CreateSuite \/ WriteSuite
    \/ CutShort

Spec == Init /\ [][Next]_vars

-----------------------------------------------------------------------------
Clients == UNION {Range(c.execs) \cup Range(c.conss) : c \in Configs}
NodeType == [index : Nat \ {0}, execution : Clients, consensus : Clients]
FileType == [plan : 1 .. MaxPlans, whole : BOOLEAN, namespace : BOOLEAN]

TypeOK ==
    /\ config \in Configs
    /\ place \in Places
    /\ plans \in 0 .. MaxPlans
    /\ nodes \in Seq(NodeType)
    /\ \A test \in Range(tests) : test.size \in AttackSizes /\ test.targets # <<>>
    /\ \A f \in {"network", "suite"} :
          Cardinality(files[f]) <= 1 /\ files[f] \subseteq FileType

\* If both files are there, whatever plans failed or were cut short before, they are
\* of one plan and the network is all there: a suite never meets another's network.
FilesAgree ==
    \A network \in files.network, suite \in files.suite :
        network.plan = suite.plan /\ network.whole

InjectSteps(test) == {i \in DOMAIN test.plan : test.plan[i].type = "injectFault"}

\* A fault's selector names pods by text, made from a node in memory; Kurtosis numbers and
\* pads the nodes of the file it is given.  Every client pod a step of a test selects is
\* one that Kurtosis will make of that file, a step selects at least one such pod, and none
\* is of the bootnode, which the network cannot do without.  Validators: see SelectorsMatch.
TargetsWillExist ==
    LET made == KurtosisPods(SerializeNodes(nodes))
    IN  \A test \in Range(tests) : \A i \in InjectSteps(test) :
            LET pods == test.plan[i].pods
            IN  /\ {pod \in pods : pod.client # "val"} \subseteq made
                /\ pods \cap made # {}
                /\ \A pod \in pods : pod.index # 1

\* The executor can run what the planner writes: a generated plan injects into every
\* target, waits at its end for all of it, and waits for no fault that has no readable
\* end.  The duration of a clock skew is the one thing that is not looked at before the
\* fault is created.
PlansCanBeWaitedFor ==
    \A test \in Range(tests) :
        LET steps == InjectSteps(test)
        IN  /\ steps = 1 .. (Len(test.plan) - 1)
            /\ test.plan[Len(test.plan)].type = "waitForFaultCompletion"
            /\ UNION {test.plan[i].pods : i \in steps} = UNION Range(test.targets)
            /\ \A i \in steps :
                  \/ test.plan[i].duration = "duration"
                  \/ test.plan[i].kind = "TimeChaos"

\* "We need to create a plan step for each individual pod because the fault spec has to
\* say the data path" (step_builder.go:101): every pod has a step that selects it and says
\* its path, and there are as many steps as pods.  That no step selects a pod with another
\* path besides is so only where the targets are single pods.
EachPodOnItsPath ==
    config.type = "IOLatency" =>
        \A test \in Range(tests) :
            LET steps == InjectSteps(test)
                pods == UNION Range(test.targets)
            IN  /\ Cardinality(steps) = Cardinality(pods)
                /\ \A pod \in pods : \E i \in steps :
                      pod \in test.plan[i].pods /\ VolumePath(pod) \in test.plan[i].path
                /\ (\A target \in Range(test.targets) : Cardinality(target) = 1) =>
                      \A i \in steps, pod \in pods :
                          pod \in test.plan[i].pods => VolumePath(pod) \in test.plan[i].path

\* The scopes of the comments of suite/types.go, of the whole network with its bootnode.
SizesAsNamed ==
    \A test \in Range(tests) :
        LET k == Len(test.targets)
            n == Len(nodes)
        IN  /\ test.size = "AttackMinority" => 3 * k < n
            /\ test.size = "AttackSuperminority" => 3 * k >= n /\ 2 * k < n
            /\ test.size = "AttackMajority" => 2 * k > n /\ 3 * k < 2 * n
            /\ test.size = "AttackSupermajority" => 3 * k > 2 * n /\ k < n

\* When a share is configured the targets have it, and a network with one more node
\* would not give them more: the float32 quotient may fall just short of a size that is
\* exact (nine targets for 0.6 make 14 nodes, not 15), and never goes past it.
ShareOfTargets ==
    nodes # <<>> /\ config.percent # 0 =>
        LET targets == Len(Targetable)
        IN  /\ 100 * targets >= config.percent * Len(nodes)
            /\ 100 * targets <= config.percent * (Len(nodes) + 1)

-----------------------------------------------------------------------------
(* What the documentation says and the code does not keep.                  *)

\* "kurtosistech.com/id: cl-1-lighthouse-geth-validator" (docs/DOCUMENTATION.md:163): the
\* ids a selector lists are ids of pods, those of validators too.
SelectorsMatch ==
    \A test \in Range(tests) : \A i \in InjectSteps(test) :
        test.plan[i].pods \subseteq KurtosisPods(SerializeNodes(nodes))
=============================================================================
