---------------------------- MODULE HealthChecker ----------------------------
(***************************************************************************)
(* pkg/health: after a test, rounds of checks until one passes or the grace*)
(* period is over.  Each check of a round (EthNetworkChecker) polls the    *)
(* clients of one layer for one kind of block, again and again while they  *)
(* disagree on its number, and keeps what became of the clients that failed*)
(* the check in an earlier round.                                          *)
(*                                                                         *)
(* The clients are asked one after the other while the chain moves on; as  *)
(* nothing the checker does reaches them, a poll is any set of answers.    *)
(***************************************************************************)
EXTENDS ForkVotes, Integers, Sequences

CONSTANTS
    Layer,         \* the layer of each node: the label client-type of its pod
    Checks,        \* the checks of a round: their layer, block and retries
    NoGrace,       \* a health config without a gracePeriod
    GracePeriods,  \* the grace periods considered, in seconds
    MaxElapsed     \* bound: the clock stops here

Layers == {"execution", "beacon"}
Check == [layer : Layers, block : {"latest", "finalized"}, retries : Nat]

ASSUME LayerAssumption == Layer \in [Nodes -> Layers]
ASSUME ChecksAssumption == Checks \in Seq(Check)
ASSUME HashAssumption == {"None", "N/A"} \subseteq Hashes /\ 0 \in Numbers
ASSUME GraceAssumption ==
    /\ MaxElapsed \in Nat
    /\ GracePeriods \subseteq 0 .. (MaxElapsed - 1) \cup {NoGrace}

VARIABLES
    underTest,    \* the pods GetPodsUnderTest returned
    expectDeath,  \* those of them with ExpectDeath
    gracePeriod,  \* healthCheckConfig.GracePeriod
    pc,           \* where RunChecks is
    elapsed,      \* seconds since RunChecks started
    clients,      \* the pods dialed in this round
    attempts,     \* maxAttempts of the check being run
    results,      \* the artifacts of this round so far
    prev,         \* lastHealthCheckResult: the artifacts of the round before
    rounds,       \* how often all clients have been dialed: nothing closes a session
    failed        \* history: for each check, who failed it in a finished round

input == <<underTest, expectDeath, gracePeriod>>
vars == <<input, pc, elapsed, clients, attempts, results, prev, rounds, failed>>

AllChecks == DOMAIN Checks
Index == Len(results) + 1
Current == Checks[Index]

Init ==
    /\ underTest \in SUBSET Nodes
    /\ expectDeath \in SUBSET underTest
    /\ gracePeriod \in GracePeriods
    /\ pc = "start"
    /\ elapsed = 0
    /\ clients = {}
    /\ attempts = 0
    /\ results = <<>> /\ prev = <<>>
    /\ rounds = 0
    /\ failed = [k \in AllChecks |-> {}]

\* s more seconds on a clock that stops at its bound.
Later(s) == IF elapsed + s > MaxElapsed THEN MaxElapsed ELSE elapsed + s

-----------------------------------------------------------------------------
(* RunChecks, and dialing                                                  *)

\* The grace period is read through a pointer that is nil when the config has none.
Start ==
    /\ pc = "start"
    /\ pc' = IF gracePeriod = NoGrace THEN "panicked" ELSE "dial"
    /\ UNCHANGED <<input, elapsed, clients, attempts, results, prev, rounds, failed>>

\* Mutant: a listed pod is added though it is under test.
PodsToHealthCheckWithDead(listed) == (underTest \ expectDeath) \cup listed

\* getPodsToHealthCheck, with the pods that Kubernetes lists with the layer's label:
\* the pods under test that are to live, listed or not, and the listed bystanders.
PodsToHealthCheck(listed) == (underTest \ expectDeath) \cup (listed \ underTest)

RetriesFrom(k) == IF k \in AllChecks THEN Checks[k].retries ELSE 0

Dial ==
    /\ pc = "dial"
    /\ pc' = "check"
    /\ \E listed \in SUBSET Nodes : clients' = PodsToHealthCheck(listed)
    /\ elapsed' \in {elapsed, Later(1)}
    /\ attempts' = RetriesFrom(1)
    /\ results' = <<>>
    /\ rounds' = rounds + 1
    /\ UNCHANGED <<input, prev, failed>>

\* Listing the pods, forwarding a port or dialing a client fails.
DialFails ==
    /\ pc = "dial"
    /\ pc' = "failed"
    /\ UNCHANGED <<input, elapsed, clients, attempts, results, prev, rounds, failed>>

-----------------------------------------------------------------------------
(* One poll of a check                                                     *)

Asked == {n \in clients : Layer[n] = Current.layer}

\* What a client's RPC can answer: a block, that there is none yet, or an error.
Blocks == [number : Numbers, hash : Hashes \ {"None", "N/A"}]
NoBlock == [number |-> 0, hash |-> "None"]
NotAvailable == [number |-> 0, hash |-> "N/A"]

\* ExecClientRPC.GetLatestBlockBy: an error that does not say "no block yet" ends
\* the health check, see PollFails.  Nobody disagrees on block zero.
ExecVotes == {NoBlock} \cup {b \in Blocks : b.number # 0}

\* BeaconClientRpc.GetLatestBlockBy: every error is a vote.
BeaconVotes(block) ==
    {NotAvailable} \cup
        IF block = "finalized" THEN {NoBlock} \cup {b \in Blocks : b.number # 0} ELSE Blocks

VotesFor(check) ==
    IF check.layer = "execution" THEN ExecVotes ELSE BeaconVotes(check.block)

Polling == pc = "check" /\ Index \in AllChecks

PollFails ==
    /\ Polling
    /\ Current.layer = "execution"
    /\ Asked # {}
    /\ pc' = "failed"
    /\ UNCHANGED <<input, elapsed, clients, attempts, results, prev, rounds, failed>>

\* With nobody to ask, the first of no votes is taken.
PollNobody ==
    /\ Polling
    /\ Asked = {}
    /\ pc' = "panicked"
    /\ UNCHANGED <<input, elapsed, clients, attempts, results, prev, rounds, failed>>

\* Mutant: one retry too many.
PollAgainTooOften(outcome) ==
    /\ outcome.wrongBlockNum # {}
    /\ attempts >= 0
    /\ attempts' = attempts - 1
    /\ elapsed' = Later(1)
    /\ UNCHANGED <<input, pc, clients, results, prev, rounds, failed>>

\* Nodes at other numbers are given a second to catch up; nodes at other hashes
\* are not.
PollAgain(outcome) ==
    /\ outcome.wrongBlockNum # {}
    /\ attempts > 0
    /\ attempts' = attempts - 1
    /\ elapsed' = Later(1)
    /\ UNCHANGED <<input, pc, clients, results, prev, rounds, failed>>

-----------------------------------------------------------------------------
(* convertResultToArtifact                                                 *)

Failing(artifact) == artifact.failingBlock \cup artifact.failingHash
Recovered(artifact) == DOMAIN artifact.recoveryTime

NoRecovery == [n \in {} |-> 0]

\* Mutant: who recovered in an earlier round is forgotten.
RecoveryTimesOfThisRound(before, outcome) ==
    [n \in (before.failingBlock \ outcome.wrongBlockNum)
                \cup (before.failingHash \ outcome.wrongBlockHash) |-> elapsed]

\* Mutant: a recovery overwrites an earlier one.
LatestRecoveryTimes(before, outcome) ==
    LET recoveredNow == (before.failingBlock \ outcome.wrongBlockNum)
                            \cup (before.failingHash \ outcome.wrongBlockHash)
    IN  [n \in recoveredNow \cup Recovered(before) |->
            IF n \in recoveredNow THEN elapsed ELSE before.recoveryTime[n]]

\* Who left either of the failing maps recovers now, unless it did before.
RecoveryTimes(before, outcome) ==
    LET recoveredNow == (before.failingBlock \ outcome.wrongBlockNum)
                            \cup (before.failingHash \ outcome.wrongBlockHash)
    IN  [n \in recoveredNow \cup Recovered(before) |->
            IF n \in Recovered(before) THEN before.recoveryTime[n] ELSE elapsed]

Artifact(vote, outcome, recoveryTime) ==
    [consensus        |-> vote,
     failingBlock     |-> outcome.wrongBlockNum,
     failingHash      |-> outcome.wrongBlockHash,
     recoveryTime     |-> recoveryTime,
     unfaultedFail    |-> ~ (outcome.wrongBlockNum \cup outcome.wrongBlockHash \subseteq underTest),
     unfaultedRecover |-> ~ (DOMAIN recoveryTime \subseteq underTest)]

\* In the first round there is nothing to have recovered from.
ArtifactOf(vote, outcome) ==
    Artifact(vote, outcome,
        IF prev = <<>> THEN NoRecovery ELSE RecoveryTimes(prev[Index], outcome))

Conclude(votes, outcome) ==
    /\ outcome.wrongBlockNum = {} \/ attempts = 0
    /\ \E n \in outcome.consensusBlockHash :
           results' = Append(results, ArtifactOf(votes[n], outcome))
    /\ attempts' = RetriesFrom(Index + 1)
    /\ UNCHANGED <<input, pc, elapsed, clients, prev, rounds, failed>>

Poll ==
    /\ Polling
    /\ Asked # {}
    /\ \E votes \in [Asked -> VotesFor(Current)] : \E outcome \in Outcomes(votes) :
           PollAgain(outcome) \/ Conclude(votes, outcome)

-----------------------------------------------------------------------------
(* The end of a round                                                      *)

Passes(artifacts) == \A k \in DOMAIN artifacts : Failing(artifacts[k]) = {}

RoundEnds ==
    /\ pc = "check"
    /\ Index \notin AllChecks
    /\ prev' = results
    /\ failed' = [k \in AllChecks |-> failed[k] \cup Failing(results[k])]

\* Mutant: the end of the grace period is not looked at.
ReturnOnPass ==
    /\ RoundEnds
    /\ Passes(results)
    /\ pc' = "returned"
    /\ UNCHANGED <<input, elapsed, clients, attempts, results, rounds>>

\* The checks passed, or the grace period is over.
Return ==
    /\ RoundEnds
    /\ Passes(results) \/ elapsed > gracePeriod
    /\ pc' = "returned"
    /\ UNCHANGED <<input, elapsed, clients, attempts, results, rounds>>

\* Mutant: the next round starts at once.
SleepNot ==
    /\ RoundEnds
    /\ ~ Passes(results) /\ elapsed <= gracePeriod
    /\ pc' = "dial"
    /\ UNCHANGED <<input, elapsed, clients, attempts, results, rounds>>

\* Another round, a second later.
Sleep ==
    /\ RoundEnds
    /\ ~ Passes(results) /\ elapsed <= gracePeriod
    /\ pc' = "dial"
    /\ elapsed' = Later(1)
    /\ UNCHANGED <<input, clients, attempts, results, rounds>>

Next ==
    \/ Start
    \/ Dial \/ DialFails
    \/ PollFails \/ PollNobody \/ Poll
    \/ Return \/ Sleep

Spec == Init /\ [][Next]_vars

\* The checker is one goroutine whose every call returns.
FairSpec == Spec /\ WF_vars(Next)

-----------------------------------------------------------------------------
Final == {"returned", "failed", "panicked"}

Times == 0 .. MaxElapsed
RecoveryTimeMaps == UNION {[N -> Times] : N \in SUBSET Nodes}
ArtifactType ==
    [consensus : ClientForkChoice, failingBlock : SUBSET Nodes, failingHash : SUBSET Nodes,
     recoveryTime : RecoveryTimeMaps, unfaultedFail : BOOLEAN, unfaultedRecover : BOOLEAN]

TypeOK ==
    /\ underTest \in SUBSET Nodes
    /\ expectDeath \in SUBSET underTest
    /\ gracePeriod \in GracePeriods
    /\ pc \in {"start", "dial", "check"} \cup Final
    /\ elapsed \in Times
    /\ clients \in SUBSET Nodes
    /\ attempts \in Nat
    /\ results \in Seq(ArtifactType) /\ Len(results) <= Len(Checks)
    /\ prev \in Seq(ArtifactType) /\ Len(prev) \in {0, Len(Checks)}
    /\ rounds \in Nat
    /\ failed \in [AllChecks -> SUBSET Nodes]

\* The artifacts of the last round speak for all of them: they show exactly the nodes
\* that failed a check in some round, as failing still or with the time they recovered
\* at, and one of the two flags is set exactly when one of these was not a target of the
\* test ("we only mark clients as recovered if at some point they were failing",
\* network_checker.go:90).  The failure of a bystander in an early round of a run that
\* passes in the end is what the flags are for.
FailuresReported ==
    /\ prev = <<>> => \A k \in AllChecks : failed[k] = {}
    /\ prev # <<>> => \A k \in AllChecks :
          /\ failed[k] = Failing(prev[k]) \cup Recovered(prev[k])
          /\ failed[k] \subseteq underTest
                <=> ~ (prev[k].unfaultedFail \/ prev[k].unfaultedRecover)

\* The rounds, and with them the sessions to every client that each leaves open, are as
\* many as the grace period has seconds and two more, however fast the clients answer
\* (checker.go:39-59, network_checker.go:35-43).
RoundsWithinGrace == gracePeriod # NoGrace => rounds <= gracePeriod + 2

\* The recovery time of a node is that of its first recovery: a relapse, later
\* rounds and the merge of the two maps neither change nor lose it.
RecoveryTimesKept ==
    [][prev # <<>> =>
        \A k \in AllChecks : \A n \in Recovered(prev[k]) :
            n \in Recovered(prev'[k]) /\ prev'[k].recoveryTime[n] = prev[k].recoveryTime[n]]_vars

\* A pod flagged ExpectDeath is never asked, so it is in no artifact: its silence neither
\* fails the test nor, for an execution client, ends the run.  Not every pod that a test
\* kills is flagged: GetPodsUnderTest loses the flag of one that an earlier fault is on
\* (executor.go:89-90).
DeadNotJudged ==
    prev # <<>> =>
        \A k \in AllChecks : (failed[k] \cup Recovered(prev[k])) \cap expectDeath = {}

\* RunChecks returns: the retries of a check and the rounds are bounded.
ChecksEnd == <>(pc \in Final)
=============================================================================
