# A TLA+ model of attacknet

attacknet runs chaos tests against Ethereum devnets: it makes a network with
Kurtosis, injects faults into its pods with Chaos Mesh, waits until the faults
are over and checks that the clients agree on the chain again. This directory
holds TLA+ modules that model the program, TLC configurations that check them
on small instances and TLAPS proofs of every safety and action property that those
configurations check.

Paths such as `session.go` are short for files under `src/pkg`.

## 1. The system

### Components, their state and their operations

| Component | State it keeps | Operations |
|---|---|---|
| fault session (`chaos-mesh/session.go`, `pods.go`) | whether targets are selected, pods under test, pods expected missing, failed recoveries | `GetStatus`, `NewFaultSession` |
| chaos client (`chaos-mesh/client.go`) | Kubernetes client | `StartFault`, `GetPodLabels` |
| test executor (`test_executor/executor.go`) | steps, sessions, `planCompleted` | `RunTestPlan`, `GetPodsUnderTest` |
| fork consensus (`health/ethereum/consensus.go`) | none: a function of the votes | `determineForkConsensus` |
| health checker (`health/checker.go`, `health/ethereum`) | pods under test, the artifacts of the last round | `RunChecks`, `RunAllChecks`, `convertResultToArtifact` |
| port forwarding (`kubernetes/port_forward.go`) | sessions; per attempt two channels and a goroutine | `StartMultiPortForwards`, `openPortForward`, `Close` |
| suite runner (`runtime.go`, `runtime/`, `kurtosis/`, `artifacts/`) | the enclave, the artifacts of the tests so far | `StartTestSuite`, `CreateOrImportContext`, `StartNetwork`, `SerializeTestArtifacts`, `Destroy` |
| planner (`plan/plan.go`, `file.go`, `config.go`) | two files per plan name | `BuildPlan`, `preparePaths`, `writePlans` |
| network topology (`plan/network`) | none | `ComposeNetworkTopology` |
| test suite composition (`plan/suite`) | none | `ComposeTestSuite`, `BuildChaosMeshTargetSelectors`, fault builders |
| network serialisation (`plan/serialization.go`) | none | `SerializeNetworkTopology` |
| project files (`project/`) and command line (`cmd/attacknet/main.go`) | the directories and files of a project | `init`, `plan`, `start` |
| Kubernetes client (`kubernetes/kubernetes.go`) | none | listing pods |

`grafana.go` has no caller and `exploration/explore.go` is commented out.

### How they interact

* `main` runs one of three commands. `plan` writes a suite file and a network file,
  which `start` reads, possibly while another shell plans them anew: processes that
  share files are the third concurrency, beside the two below.
* `StartTestSuite` makes or imports an enclave, and for each test runs a
  `TestExecutor`, takes its pods under test, hands them to a health checker and
  keeps the artifact. The first test that fails ends the suite.
* A `TestExecutor` creates a fault through the chaos client and polls its
  `FaultSession`. The session reads a resource that belongs to Chaos Mesh, whose
  controllers work on it all the while: the first real concurrency.
* A round of health checks forwards a port to each client, asks it for a block and
  counts the answers in `determineForkConsensus`; the artifact of a round is
  computed from that of the round before.
* A forwarded port is a goroutine of its own, and outlives the call that made it:
  the second real concurrency.
* Enclaves outlive a run, and so do the faults that are on in them; the next run finds
  what the one before left.

### What is hard

*Interleaving with Chaos Mesh*: a status is computed from a snapshot, and state of
the session (targets, expected deaths, failed recoveries) is taken from one
snapshot and used with later ones. *Deadlines and retries*: the injection wait, the
retries of a check, the grace period and the retries of a port forward, one inside
the other. *Goroutines and channels* in `openPortForward`. *Partial failure*: a
fault that is created with no session, a label lookup that fails halfway, an error
that ends a suite. *Long runs*: histories carried from round to round by hand,
enclaves and plan files carried from run to run. *Iteration order* of Go maps.
*Rounding* in the planner. `PROJECT.json` lists each of these at its line, under
`hazards`, with the properties that would catch it.

### What makes each component correct

* Fault session: no phase reported before the fault is in it, none after it is over; a
  completed fault is off in each pod; what it expects to lose is what was killed; it does
  not panic.
* Test executor: faults are stacked on injected faults only; a plan that completes
  after waiting leaves no fault on that can be waited for; waits end unless a pod
  fails to recover; what it reports was faulted.
* Fork consensus: everybody asked is in exactly one group of each level, a largest
  group wins, and the order of iteration decides nothing but ties.
* Health checker: the clients in the last artifact are those that failed in any round,
  recovery times are first recoveries, killed pods are not judged, rounds are no more
  than the grace period has seconds and two, and they end.
* Port forwarding: one forwarder per local port, no hole in the list of sessions,
  the call returns, the program does not panic.
* Suite runner: it destroys what it created and was not told to keep, and leaves the
  rest; its tests run on a network that is up and are judged under no fault that was
  to be waited for; its results file can be read alone; it ends.
* Planner: a suite file stands beside its own network file; its tests select client pods
  that Kurtosis will make of that network; their plans inject into every target, wait
  for all of it, and give an I/O fault's pods their paths; attack sizes and shares are
  what they are called.
* Project: the tests that `start` runs meet the network that was planned for them.

## 2. The modules

| Module | Models | Composes |
|---|---|---|
| `ChaosResource` | a Chaos Mesh resource, as far as it is read here (external) | |
| `SessionStatus` | `session.go` as operators on a session and a resource | `ChaosResource` |
| `FaultLifecycle` | abstract: a fault moves forward, an observer sees the phase it is in, until a kill or a failed recovery waives it | |
| `FaultSession` | one session polled while Chaos Mesh works | `SessionStatus`, refines `FaultLifecycle` |
| `PlanRun` | abstract: what a test's plan promises the suite runner | |
| `TestExecutor` | `executor.go`: a plan run step by step over several faults | `SessionStatus`, refines `PlanRun` |
| `ForkVotes` | votes, groups and the outcomes allowed | |
| `ForkChoice` | abstract: one step that picks an allowed outcome | `ForkVotes` |
| `ForkConsensus` | the two loops of `determineForkConsensus` | `ForkVotes`, refines `ForkChoice` |
| `HealthChecker` | rounds of checks | `ForkVotes` |
| `PortForward` | `port_forward.go` with its goroutines | |
| `SuiteRunner` | `StartTestSuite`, run after run, over the promises of `PlanRun` | |
| `NetworkTopology`, `TargetSelection` | `plan/network`, `plan/suite/targeting.go` as operators | |
| `FaultSteps` | `plan/suite/faults.go`, `step_builder.go`, `test_builder.go`: the plan of a test | `TargetSelection` |
| `NetworkFile` | `plan/serialization.go`, and the pods Kurtosis makes of the file | `TargetSelection` |
| `Planner` | `attacknet plan`, run after run under one name | `FaultSteps`, `NetworkFile` |
| `Project` | `init`, `plan` and `start` in one project directory | `Planner` |

The theorems are in a module for each component: `FaultSessionProofs`,
`TestExecutorProofs`, `ForkConsensusProofs`, `HealthCheckerProofs`, `PortForwardProofs`,
`SuiteRunnerProofs`, and `ProjectProofs` for the planner and the project;
`SessionStatusProofs` has the lemmas on `SessionStatus` that the first two share. `MC*`
modules give the constants of a run that a configuration cannot. Definitions named as mutants are variants of the one below them
with a plausible bug, which show that a property can fail.

### State and actions against the code

**ChaosResource, SessionStatus, FaultSession.** `resource` is what `Get` returns:
per pod a record with its phase, its two counters and the messages of its failed
recoveries; the `Selected` condition; and the desired phase. `session` holds the
fields of `FaultSession` that change. A call of `GetStatus` is one step, because
everything in it is computed from one `Get`; what happens between two calls is Chaos
Mesh's. Its parameter is whether the label lookups succeed, and it may fail
altogether. `podsFailingRecovery` is a set of messages, because that is what the map
is keyed by. `StatusOf` is the chain of returns, with the panic as a status.

**TestExecutor.** `pc`, `step` and `waitingFor` are the program counter of the one
goroutine. The two deadlines of the injection wait are two passings of a clock.
`StartFault` fails in two ways, before and after the resource exists. The end of a
fault as the executor estimates it is not tied to the end Chaos Mesh decides on.
`ImplementsPlanRun` maps each resource to how far its fault has got: not yet in the last
of its targets, on, off, without an end of its own, or failing to come off.

**ForkConsensus.** An iteration of either `range` is a step that takes any key left.

**HealthChecker.** A poll is any assignment of answers to the clients of the layer
asked: the chain moves while they are asked one by one, and nothing the checker does
reaches them. An execution client that cannot answer ends the checks; a beacon
client that cannot answer has a vote, `NotAvailable`. `elapsed` counts seconds up to
the bound `MaxElapsed`, which is past every grace period considered. `rounds` counts how
often all clients have been dialed: a round leaves its sessions open.

**PortForward.** Each attempt for each pod has a forwarder. `sent` and `closed` are
the channel it reports to, which the attempt closes when it returns; attempts are
nested calls, so all of one pod's return together.

**SuiteRunner.** One run after the other, each cut short anywhere. `enclaves`, `running`
and `faults` survive a run; `creator`, `disposable` and `failedRuns` are history, which
no run can see. `keeps` is the flag of the enclave's wrapper that `Destroy` looks at,
which is set in one of two ways. The results file is made in one step and filled in the
next. A test is what `PlanRun` promises: its faults go on, Chaos Mesh turns
them off in its own time, also between runs, and the plan ends once its own are off if
it waits for them, or fails anywhere. Its checks are a step with each way they can end.
The stream of a genesis that closes leads to a place that nothing but a signal leaves,
as the loop of `kurtosis.go:137` reads nil for ever.

**NetworkTopology, TargetSelection, FaultSteps, NetworkFile, Planner.** A configuration
is its clients, its target, its bootnode, the share and the multiplier, its fault type
and its three lists of dimensions. A field of a fault is what its text can be read as: a
duration, a number or neither. The pure parts of `BuildPlan` are one step each, the file
operations one step each, any of which may be the last. A file is what it is about: the number of
the plan it belongs to, whether it is all there, and whether the suite names a
namespace. A pod is what its id says, the padded place of its node included, so that a
selector finds a pod only if the planner and Kurtosis count the same nodes. The ids that
Kurtosis gives are stated apart from those of the planner: the digits are as many as the
number of nodes has, and validators are named as in the documentation and the suites
that are checked in. `NetworkSize` is the quotient of `network_builder.go:158` as float32
has it: the share is rounded to 24 bits, and the quotient to the nearest of its last bit.

**Project.** `dirs` is the directories there are, `init` and `start` the last command of
each kind, `devnet` the network file that the enclave of the namespace was made from, whether or
not its genesis then succeeded.
`start` reads two files in two steps, and the steps of a plan may come between them;
`overlapped` is history that says one did.

## 3. The runs

| Run | Instance | Shows |
|---|---|---|
| `session_safety` | 3 pods, 2 messages, every kind of fault | types, no status early, completion true of each pod where failures count pods, expected deaths right, the panic needs a failed recovery, statuses only advance, the session implements `FaultLifecycle` |
| `session_panic` | 2 pods, 1 message | *violated*: the panic that "should be impossible to get here" |
| `session_turned_off` | 2 pods, 1 message, timed faults | *violated*: a fault said to be turned off that is still on in a pod |
| `executor_safety` | 2 pods, 1 message, 6 plans of one and two faults | the executor implements `PlanRun`; the pods reported were faulted |
| `executor_liveness` | 1 pod, 1 message, 3 plans, fairness | the injection wait ends; plans of timed faults end or wait for a pod that failed to recover |
| `consensus` | up to 5 nodes, 3 numbers, 2 hashes | agreement is unanimous; the loops implement `ForkChoice` |
| `health` | 3 nodes on two layers, 2 checks, grace of 0, 2 and none | every failure reported and no other, rounds within the grace period, recovery times kept, the dead not judged, the checks end |
| `port_forward` | 2 pods, 2 retries | one forwarder per port, sessions complete, the call ends |
| `port_forward_panic` | the same | *violated*: a dropped connection panics |
| `planner` | 2 plans out of 107 configurations, networks of 3 to 29 nodes, in a project with `init` and `start` | files agree, client pods exist, plans can be run, paths of I/O faults, sizes as named, shares up to rounding, suites meet their networks |
| `planner_validators` | the same, 1 plan | *violated*: a selector names a validator that no pod is |
| `suite` | 2 tests, 2 runs, fairness | what is destroyed and left, faults under which a network is judged, results file, the network is up, a run ends |

### Bounds, and why they are enough

* Three pods give one not injected, one injected and one recovered at once, which is
  every class `GetStatus` counts; two messages tell "one message twice" from "two
  messages". An experiment is injected and recovered once, as attacknet never pauses
  one.
* Two faults are the fewest that stack, and that a wait and a second wait can
  disagree on. Two timed faults at once are run with one pod, the other plans with
  two. One failing message is enough to have a wait that does not end.
* Five votes have a group overtaken by a later one at each level with losers left.
* Three clients, one of them alone on its layer, allow a tie, a majority and a client
  that is always right. Two checks show that they do not mix; the code makes four,
  with 15 and 3 retries where the run has 1 and 0: a retry changes nothing but the
  clock. A grace period of 2 has up to four rounds.
* Two retries have a first, a middle and a last attempt; the code has five.
* Two runs: one that leaves an enclave and its faults in any way, and one that finds
  them. Two tests: one whose faults the next one meets. The proofs have any number of
  both.
* Three clients of the other layer three times each make nine targets, the fewest for
  which a float32 quotient of a share in hundredths falls short of the exact one.
* Two plans under one name: the second one meets whatever the first one left. `init`
  is run before anything is planned, as later it can only refuse or fail.

### Fairness

* `TestExecutor`: Chaos Mesh's controllers reconcile for ever, so selecting, injecting
  and elapsing are weakly fair, and recovering a pod is while it has not failed to
  recover: nothing promises that a failed recovery ever succeeds, and `PlanEnds` says
  that this is the one thing that can hold up a plan. The executor is a goroutine that
  always takes its next step, and the clock passes. No failure of the API is owed, and
  calls do not fail for ever: weak fairness is on the poll that succeeds.
* `HealthChecker`: every call it makes returns, so weak fairness of the next step.
* `PortForward`: the opener only; its `select` has a timeout, so it is never held up.
  No fairness is asked of forwarders.
* `SuiteRunner`: weak fairness of `Work`, what a run does when every call it makes is
  answered, a genesis included, and of the end of the faults that the plan being run
  waits for: what `executor_liveness` and `health` show of a test. No failure, no signal
  and no further run is owed, and the faults of other tests need never be turned off.
* The other modules claim no liveness.

`CHECK_DEADLOCK FALSE` is set where the modelled program ends.

## 4. What is proved

TLAPS checks these for every value of the constants that meets the named
assumptions.

**`FaultSessionProofs`** (any finite sets of pods and messages, any set of faults).
None of the properties is inductive: they speak of the last status, which was true of
the resource when it was read. `IInv` adds what relates the two over time: records
never lose an injection, counters and the phase go together, the pods under test
were injected, and what a status said then implies about the resource now. The proof
has one step per action of Chaos Mesh and one for the poll; the arithmetic of the four
returns is in lemmas on the cardinalities of the three classes of record, which
partition the pods. `TypeCorrect`, `ProgressIsSound`, `CompletionIsSound`,
`PodsUnderTestAreSound` and `PanicIsGuarded` follow; `StatusOnlyAdvances` and
`SessionImplementsLifecycle` (the refinement, of any fault: a kill and the first recovery
that fails waive the promise, and as long as there is neither the books are empty, so
that the status is the phase) are proved from it step by step.

`CompletionIsSound` holds with failed recoveries too, for faults that kill nothing: the
status says only that two numbers add up, so `FailuresAreTheRest` shows that then every
pod is in one of them. Where failures count pods, the messages on the books map onto the
pods that have failed, which are none of those that have recovered; as many as are
missing are all of them. The books may be behind the resource, which is why the lemma is
of any books whose messages are in the records.

**`ForkConsensusProofs`** (any finite set of nodes, any numbers and hashes). `IInv`
says that the groups of the keys visited are the leaders and the losers, each once,
and that the leaders outnumber no less than each. From it: `ConsensusTypeCorrect`,
`AgreementIsSound` and `LoopsImplementChoice`, the refinement of `ForkChoice`.

**`SessionStatusProofs`** has what these proofs and those of the executor have in
common: a record is in the injected phase from its injection to its recovery
(`SaneRecords`), a session's books are about what happened (`SoundSession`), every move
of Chaos Mesh and every poll keeps both, and what a status is then worth
(`StatusIsWorth`).

**`TestExecutorProofs`** (any plans, pods and messages). The invariant has every resource
and session sane (`ResourcesSane`, `SessionsSound`), one session to each resource but
after a failed start (`EachHasSession`), and says what the place in the plan implies:
which kind of step is under way (`AtPlace`), that every fault but the one being injected
is in (`OneAtATime`), and that those already waited for are not on (`WaitedFor`). The last
two are what the executor knows from statuses it read long ago, and hold because a fault
that is in stays in and one that is over does not come back. From it:
`ReportedPodsAreFaulted`, and `ExecutorImplementsPlanRun`, the refinement of `PlanRun`,
on which `SuiteRunner` is built, step by step: each move of Chaos Mesh moves one fault by
one stage or none, each step of the executor creates a fault, ends the plan or stutters.
It assumes that there is a pod at all: a fault without a target counts as injected as
soon as it is created, where `PlanRun` has a new fault pending.

**`HealthCheckerProofs`** (any nodes, checks, votes and grace periods). The artifacts are
carried from round to round, so the invariant relates three generations of them: what
has failed in any round, the artifact of the round before, and the results that the round
under way has so far, each of which `Continues` the artifact it was given: it loses nobody,
makes nobody up, and repeats first recoveries. `RoundsByClock` ties rounds to seconds.
From it: `EveryFailureReported`, `GraceBoundsRounds`, `KilledPodsNotJudged` and
`FirstRecoveryKept`.

**`PortForwardProofs`** (any number of pods and of retries). What is claimed is of
forwarders that the opener has left behind. `ForwardersInTurn`: an attempt starts only
when those of its pod before it have ended, as the error that leads to it is the last
thing a forwarder does. `SessionsInTurn`: every pod before the current one has just one
session. From them: `RetriesShareThePort` and `NoHoleInSessions`.

**`SuiteRunnerProofs`** (any number of tests and runs). Three invariants. `IInv` relates
the place of a run to the enclave it is on: from the genesis on it exists, if it is not to
be reused this run created it, if its network is not up this run or an earlier one created
it, and what a run made bears its name and its suite's wish. From it:
`DestroysOnlyItsOwn`, `SuiteLeavesBehind`, `NetworkIsUp`. `FInv` speaks of the faults:
one that a plan was to wait for is on only while that plan runs, or its run was given up,
and those of a run are all in its own enclave. `JudgedAlone` is not inductive without
it, as a fault met at the checks was put on by a plan that has ended since. From it:
`SuiteJudgesAlone`. `AInv` lists the artifacts in the order of the tests that had checks,
all but the last of them passed; what the results file says of the suite then depends on
where the run stopped. From it: `SuiteTypeCorrect` and `ResultsSpeakForSuite`.

**`ProjectProofs`** (any configurations, any number of plans). Of the planner's files,
`PlanFilesAgree`: the invariant says which files can be there at each step of a plan and
whose. Of what it composes, the invariant is `Planned`: there are no tests before there
is a network, and then they are tests that can be composed for the network composed for
the configuration. All the rest is about the pure functions between:

* `NetworkComposed`: the bootnode first, the nodes to test next, the extra ones last,
  each with its place for its index, none of the extra ones running the target.
  `PercentAsFloat` bounds what rounding does to a share, `NetworkSizeRounded` what it
  then does to the quotient: for fewer than 1000 nodes at most one node less than the
  exact one, and never more. `ShareLeavesRoom` has that for the nodes to add. So the
  targetable nodes are the nodes 2 to k + 1 (`TargetableNodes`). From it:
  `PlannedShareOfTargets`.
* `SizesMeanTheirNames`: a size that passes `CannotMeet` means a number of the
  targetable nodes, and the share its name says. From it: `PlannedSizesAsNamed`.
* `PodsOfNetwork`: the client pods that Kurtosis names after places, with as many digits
  as the number of nodes has, are those the planner names after indices, with a width
  that it picks from two bounds (`WidthIsDigits`). `PodsOfTarget` has a client in every
  target, and no pod of the bootnode. From them: `PlannedTargetsWillExist`.
* `StepsOfTarget` and `PlanOfTargets`: a plan is the steps of its targets, each of which has
  one, and a wait. From it: `PlannedCanBeWaitedFor`.
* `TargetsDisjoint` and `FlattenCounts`: no pod is in two targets, so the steps of an I/O
  fault are as many as the pods. From it: `PlannedOnTheirPaths`.

The provers cannot unfold a recursive function before it is known to exist, nor see into
the library's `SelectSeq` and folds. So loops over data are recursive functions of the
position (`KeepOnly`, `SizesTested`), `Loop` shows that such a function exists, and
`Induction`, on sets of numbers, what it preserves.

Of a project, with every interleaving of commands: a command is a step of the planner or
leaves it alone (`ProjectPlans`), so `ProjectFilesAgree` and `ProjectPlanned` are
inherited. `SuitesMeetTheirNetworks` adds an invariant for the two reads of `start`:
without a plan step between them, what was read of the suite is still in its file, and
the network file agrees with it.

The assumptions on constants are those named in the modules. `ConfigsAssumption` gives
the fields of a configuration the types of the YAML they are read from: lists of any
names, any share, the sizes and dimensions that validation lets pass.
`NetworksAssumption` keeps networks below 1000 nodes: with more, the planner's three
digits are not enough, and a float32 may be off by more than a node.

### Only model-checked

* Liveness: `InjectionWaitEnds`, `PlanEnds`, `ChecksEnd`, `OpenEnds`, `RunEnds`. The
  prover has no rule for fairness.
* The four properties of the violated runs, which do not hold.
* `ExecutorImplementsPlanRun` and `SessionImplementsLifecycle` are of the safety of the
  abstract specifications; these state no fairness.

## 5. Where the code and what is said of it differ

Shown by a run:

* `session_panic`: a recovery fails once and then succeeds on every pod. The failure
  stays in `podsFailingRecovery`, the sum of `session.go:271` passes the number of
  records and `GetStatus` panics where a comment says it cannot get.
* `session_turned_off`: for the same reason a session can say `Completed` while a pod has
  the fault on: one that failed and then recovered is in two of the numbers that
  `session.go:271` adds, and makes up for it. `DOCUMENTATION.md:181` says that attacknet
  verifies that the fault was turned off.
* `port_forward_panic`: the release notes say a dropped connection no longer panics;
  the goroutine still sends on a channel that its call has closed
  (`port_forward.go:99-110`).
* `planner_validators`: the planner selects validators as `val-<n>-<cl>-<el>`
  (`step_builder.go:37`); `DOCUMENTATION.md:163`, `faults.go:240` and the suites under
  `test-suites/plan` have `cl-<n>-<cl>-<el>-validator`.

Met while modelling, and in the model as the code has them:

* `GetPodsUnderTest` merges `ExpectDeath` into copies that it does not return
  (`executor.go:89-90`). A pod that is faulted and then killed is reported as one that
  is to live, and is health checked, contrary to the comment of
  `health/ethereum/util.go:18`.
* Beacon clients that cannot be queried vote for block 0 with hash `N/A`
  (`beacon_rpc.go:175`). If none can, they agree and the test passes; the comment above
  means such an error to be retried, and adds that this is not done.
* The quotient of `network_builder.go:158` is a float32 that is cut to an integer, and
  falls short of some that are exact: 9 targets at 0.6 make a network of 14 nodes, not
  of 15, so that more of it than was asked for has the target. `ShareOfTargets` allows
  this node, and no more.
* One pod that fails to recover keeps a session `InProgress` for ever
  (`session.go:268`), and the recovery wait has no deadline (`executor.go:190`).
* Failed recoveries are keyed by message (`session.go:173`): two pods that fail with
  one text count once, one pod with two texts twice.
* After one failed label lookup the pods under test stay empty (`session.go:198`).
* A wait for a fault without a duration dereferences nil (`executor.go:116`).
* An execution RPC error ends the suite inside the grace period
  (`execution_rpc.go:134`); no client of a layer to ask panics (`execution_rpc.go:49`).
* A client that moves from a wrong hash to a wrong number is listed as recovered while
  it fails (`network_checker.go:91-101`).
* `RunEnds` and `JudgedAlone` name what a reused devnet costs: only the sessions of a
  test are waited for, so faults of an earlier run that was cut short, or of an earlier
  test that did not wait, are still on while the network is judged (`executor.go:114`).
* A failed plan or check returns before the results are written and the enclave is
  destroyed (`runtime.go:50-72`), contrary to `DOCUMENTATION.md:99`.
* An enclave whose genesis failed is taken for a running network
  (`runtime/runtime.go:53`), contrary to `DOCUMENTATION.md:101`; a stream that ends
  without an event is read for ever (`kurtosis.go:138`).
* `pickExtraNodeClients` does not return when no node is to be added, although the
  message of `network_builder.go:160` allows that share, or when the target is the
  only client of a layer.
* The old plan is removed before the new one is found to be refused (`file.go:22-35`).
* Attack sizes that come to one number of nodes are tested once
  (`suite_builder.go:39-45`), where `DOCUMENTATION.md:111` counts each.
* Every step of an I/O fault selects all pods of its target (`faults.go:265`), although
  it says the data path of one of them and `step_builder.go:101` asks for a step for each
  individual pod: with several pods to a target each gets the paths of the others too.
* `getVolumePathForIOFault` means to refuse validators, but looks for an id that ends in
  `validator` where the ids it gets start with `val` (`faults.go:240`).
* The duration of a clock skew is not parsed (`suite_builder.go:140`), so one that cannot
  be read reaches the executor, after the genesis.
* `init --force` is to "overwrite" a project (`project.go:45`), but `os.Mkdir` fails on
  the directories there are; nor does it complete one that was cut short. The `plan`
  directories that `attacknet plan` writes to are made by nobody.
* With a namespace, a planned suite is run against whatever network the enclave of that
  namespace was made from, another plan's too (`kurtosis.go:92`).
* `FaultTypes` lacks `PacketLoss` (`suite/types.go:63`), so the planner refuses
  `planner-configs/network-packet-drop-geth.yaml`.

## 6. What is not modelled

* The action, mode and amounts of Chaos Mesh manifests, the images, resources and network
  parameters of a network file, the parsing of arguments and YAML: data passed through.
* Float arithmetic beyond networks of 1000 nodes, and shares that are not in hundredths.
* A JSON-RPC answer without a block, which `execution_rpc.go:137` dereferences; the errors
  of writing a step as YAML and reading it back (`executor.go:31-56`); a list of conditions
  without a `Selected` one, as Chaos Mesh writes its conditions together.
* The sizes of channels, and ports lost to other processes between the search for a free
  one and its use (`port_forward.go:75`), which look like a forwarder that fails.
* Two of the four checks of a round, `log.Fatal` of the Kubernetes client's own
  goroutines, and namespaces of fewer than three characters.
* `grafana.go`, `PodExists`, the filter by client combination and
  `RunStarlarkRemotePackageBlocking`, which have no caller, and `exploration/explore.go`,
  which is commented out.
* The sample network configurations, suites and Terraform: data, from which the plans and
  sizes of the runs are taken.

## 7. Plan

Done, in this order: the fault session and its lifecycle; the executor; fork
consensus; the health checker; port forwarding; the suite runner; the planner; the
plans and files it generates; the commands of a project; the executor against what it
promises the suite runner.

Proved, in this order: the fault session, fork consensus, the suite runner's enclaves
and faults, the planner's files and the project; then port forwarding, the results file,
the health checker, the executor and its refinement, and what the planner composes.

Next: read the proofs once more for steps that can be shorter, and state what a test of
the suite runner and a plan of the executor promise together as one theorem.
