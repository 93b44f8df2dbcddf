------------------------- MODULE HealthCheckerProofs -------------------------
(***************************************************************************)
(* What the artifacts of the last round tell, whom they never mention and  *)
(* how many rounds there are, for any nodes, checks, votes and grace       *)
(* periods.                                                                *)
(*                                                                         *)
(* The artifacts are carried from round to round, so the invariant relates *)
(* three generations of them: what failed in any round so far, what the    *)
(* round before says of it, and what the round under way has made of that. *)
(***************************************************************************)
EXTENDS HealthChecker, TLAPS

-----------------------------------------------------------------------------
(* The inductive invariant                                                 *)

ClientsLive == clients \cap expectDeath = {}

\* A round takes a second from its sleep to the next, so that the clock, which stops the
\* rounds, counts them.
RoundsByClock ==
    /\ pc = "start" => rounds = 0 /\ elapsed = 0
    /\ pc \in {"dial", "check"} => gracePeriod # NoGrace
    /\ pc = "dial" => rounds <= elapsed /\ rounds <= gracePeriod + 1
    /\ pc = "check" => rounds <= elapsed + 1

\* An artifact loses nobody of the one before, whose first recoveries it repeats, and
\* makes nobody up.
Continues(artifact, before) ==
    /\ Failing(before) \cup Recovered(before) \subseteq Failing(artifact) \cup Recovered(artifact)
    /\ Recovered(before) \subseteq Recovered(artifact)
    /\ Recovered(artifact) \subseteq Failing(before) \cup Recovered(before)
    /\ \A n \in Recovered(before) : artifact.recoveryTime[n] = before.recoveryTime[n]

Flagged(artifact) ==
    /\ artifact.unfaultedFail <=> ~ (Failing(artifact) \subseteq underTest)
    /\ artifact.unfaultedRecover <=> ~ (Recovered(artifact) \subseteq underTest)

ResultsSoFar ==
    pc = "check" =>
        \A k \in DOMAIN results :
            /\ prev = <<>> => Recovered(results[k]) = {}
            /\ prev # <<>> => Continues(results[k], prev[k])
            /\ Failing(results[k]) \cap expectDeath = {}
            /\ Flagged(results[k])

IInv ==
    /\ TypeOK
    /\ ClientsLive
    /\ RoundsByClock /\ RoundsWithinGrace
    /\ ResultsSoFar
    /\ FailuresReported
    /\ DeadNotJudged

-----------------------------------------------------------------------------
(* Votes and what is decided of them                                       *)

\* Every answer a client of a check can give is a vote.
LEMMA VotesAreChoices ==
    ASSUME NEW check \in Check
    PROVE  VotesFor(check) \subseteq ClientForkChoice
<1>1. Blocks \subseteq ClientForkChoice BY DEF Blocks, ClientForkChoice
<1>2. NoBlock \in ClientForkChoice /\ NotAvailable \in ClientForkChoice
  BY HashAssumption DEF NoBlock, NotAvailable, ClientForkChoice
<1> QED BY <1>1, <1>2 DEF VotesFor, ExecVotes, BeaconVotes

\* Nobody is in a result of determineForkConsensus who was not asked.
LEMMA OutcomesAreOfAsked ==
    ASSUME NEW asked, NEW votes, DOMAIN votes = asked, NEW outcome \in Outcomes(votes)
    PROVE  /\ outcome.wrongBlockNum \subseteq asked
           /\ outcome.wrongBlockHash \subseteq asked
           /\ outcome.consensusBlockHash \subseteq asked
<1>1. CASE asked = {} BY <1>1 DEF Outcomes, NobodyAsked, Outcome
<1>2. CASE asked # {}
  <2>1. PICK atNumber \in LargestNumberGroups(votes, asked) :
               \E atHash \in LargestHashGroups(votes, atNumber) :
                   outcome = Outcome(asked, atNumber, atHash)
    BY <1>2 DEF Outcomes
  <2>2. PICK atHash \in LargestHashGroups(votes, atNumber) :
               outcome = Outcome(asked, atNumber, atHash)
    BY <2>1
  <2>3. atNumber \subseteq asked BY DEF LargestNumberGroups, AtNumber
  <2>4. atHash \subseteq atNumber BY DEF LargestHashGroups, AtHash
  <2> QED BY <2>2, <2>3, <2>4 DEF Outcome
<1> QED BY <1>1, <1>2

-----------------------------------------------------------------------------
(* The artifact of a check                                                 *)

\* convertResultToArtifact continues the artifact of the round before.
LEMMA ArtifactContinues ==
    ASSUME NEW before \in ArtifactType, NEW outcome,
           outcome.wrongBlockNum \in SUBSET Nodes, outcome.wrongBlockHash \in SUBSET Nodes,
           elapsed \in Times, NEW vote \in ClientForkChoice
    PROVE  LET times == RecoveryTimes(before, outcome)
               artifact == Artifact(vote, outcome, times)
           IN  times \in RecoveryTimeMaps /\ Continues(artifact, before)
<1> DEFINE times == RecoveryTimes(before, outcome)
           artifact == Artifact(vote, outcome, times)
           old == Recovered(before)
           now == (before.failingBlock \ outcome.wrongBlockNum)
                      \cup (before.failingHash \ outcome.wrongBlockHash)
<1>1. /\ before.failingBlock \in SUBSET Nodes /\ before.failingHash \in SUBSET Nodes
      /\ before.recoveryTime \in RecoveryTimeMaps
  BY DEF ArtifactType
<1>2. /\ old \in SUBSET Nodes
      /\ \A n \in old : before.recoveryTime[n] \in Times
  <2>1. PICK N \in SUBSET Nodes : before.recoveryTime \in [N -> Times]
    BY <1>1 DEF RecoveryTimeMaps
  <2> QED BY <2>1 DEF Recovered
<1>3. /\ DOMAIN times = now \cup old
      /\ \A n \in now \cup old :
            times[n] = IF n \in old THEN before.recoveryTime[n] ELSE elapsed
  BY DEF RecoveryTimes
<1>4. times \in [now \cup old -> Times]
  <2>1. times = [n \in now \cup old |->
                    IF n \in old THEN before.recoveryTime[n] ELSE elapsed]
    BY DEF RecoveryTimes
  <2>2. \A n \in now \cup old :
            (IF n \in old THEN before.recoveryTime[n] ELSE elapsed) \in Times
    BY <1>2
  <2> HIDE DEF times, now, old
  <2> QED BY <2>1, <2>2
<1>5. times \in RecoveryTimeMaps
  <2>1. now \cup old \in SUBSET Nodes BY <1>1, <1>2
  <2> HIDE DEF times, now, old
  <2> QED BY <1>4, <2>1 DEF RecoveryTimeMaps
<1>6. /\ Failing(artifact) = outcome.wrongBlockNum \cup outcome.wrongBlockHash
      /\ artifact.recoveryTime = times /\ Recovered(artifact) = now \cup old
  BY <1>3 DEF Artifact, Failing, Recovered
<1>7. Failing(before) = before.failingBlock \cup before.failingHash BY DEF Failing
<1> HIDE DEF times, artifact, old
<1>8. Continues(artifact, before)
  <2>1. \A n \in old : artifact.recoveryTime[n] = before.recoveryTime[n] BY <1>3, <1>6
  <2>2. old \subseteq Recovered(artifact) BY <1>6
  <2>3. Recovered(artifact) \subseteq Failing(before) \cup old BY <1>6, <1>7
  <2>4. Failing(before) \cup old \subseteq Failing(artifact) \cup Recovered(artifact)
    BY <1>6, <1>7
  <2> QED BY <2>1, <2>2, <2>3, <2>4 DEF Continues, old
<1> QED BY <1>5, <1>8 DEF times, artifact

\* What ArtifactOf makes of the outcome of a poll.
LEMMA ArtifactOfPoll ==
    ASSUME TypeOK, Polling, NEW votes \in [Asked -> VotesFor(Current)],
           NEW outcome \in Outcomes(votes), NEW n \in outcome.consensusBlockHash
    PROVE  LET artifact == ArtifactOf(votes[n], outcome)
           IN  /\ artifact \in ArtifactType
               /\ Failing(artifact) \subseteq clients
               /\ prev = <<>> => Recovered(artifact) = {}
               /\ prev # <<>> => Continues(artifact, prev[Index])
               /\ Flagged(artifact)
<1> DEFINE vote == votes[n]
           times == IF prev = <<>> THEN NoRecovery ELSE RecoveryTimes(prev[Index], outcome)
           artifact == Artifact(vote, outcome, times)
<1>1. Index \in AllChecks /\ Current \in Check /\ Index \in Nat
  BY ChecksAssumption DEF Polling, Current, AllChecks
<1>2. Asked \subseteq clients /\ clients \subseteq Nodes BY DEF Asked, TypeOK
<1>3. DOMAIN votes = Asked OBVIOUS
<1>4. /\ outcome.wrongBlockNum \subseteq Asked /\ outcome.wrongBlockHash \subseteq Asked
      /\ outcome.consensusBlockHash \subseteq Asked
  BY <1>3, OutcomesAreOfAsked
<1>5. vote \in ClientForkChoice BY <1>1, <1>4, VotesAreChoices
<1>6. elapsed \in Times BY DEF TypeOK
<1>7. times \in RecoveryTimeMaps /\ (prev # <<>> => Continues(artifact, prev[Index]))
  <2>1. CASE prev = <<>>
    <3>1. NoRecovery \in [{} -> Times] BY DEF NoRecovery
    <3>2. {} \in SUBSET Nodes OBVIOUS
    <3> QED BY <2>1, <3>1, <3>2 DEF RecoveryTimeMaps
  <2>2. CASE prev # <<>>
    <3>1. prev[Index] \in ArtifactType BY <2>2, <1>1 DEF TypeOK, AllChecks
    <3>2. times = RecoveryTimes(prev[Index], outcome) BY <2>2
    <3> HIDE DEF times, vote
    <3> DEFINE past == prev[Index]
    <3>3. past \in ArtifactType BY <3>1
    <3>4. times = RecoveryTimes(past, outcome) BY <3>2
    <3>5. outcome.wrongBlockNum \in SUBSET Nodes /\ outcome.wrongBlockHash \in SUBSET Nodes
      BY <1>2, <1>4
    <3> HIDE DEF past
    <3>6. times \in RecoveryTimeMaps /\ Continues(artifact, past)
      BY <3>3, <3>4, <3>5, <1>5, <1>6, ArtifactContinues
    <3> QED BY <3>6 DEF past
  <2> QED BY <2>1, <2>2
<1>8. ArtifactOf(votes[n], outcome) = artifact BY DEF ArtifactOf
<1>9. Failing(artifact) = outcome.wrongBlockNum \cup outcome.wrongBlockHash
  BY DEF Failing, Artifact
<1>10. Recovered(artifact) = DOMAIN times BY DEF Recovered, Artifact
<1>11. prev = <<>> => Recovered(artifact) = {}
  <2>1. DOMAIN NoRecovery = {} BY DEF NoRecovery
  <2> QED BY <1>10, <2>1
<1>12. Flagged(artifact)
  <2>1. /\ artifact.unfaultedFail
               = ~ (outcome.wrongBlockNum \cup outcome.wrongBlockHash \subseteq underTest)
        /\ artifact.unfaultedRecover = ~ (DOMAIN times \subseteq underTest)
    BY DEF Artifact
  <2> QED BY <2>1, <1>9, <1>10 DEF Flagged
<1>13. artifact \in ArtifactType
  <2>1. outcome.wrongBlockNum \in SUBSET Nodes /\ outcome.wrongBlockHash \in SUBSET Nodes
    BY <1>2, <1>4
  <2> HIDE DEF times, vote
  <2> QED BY <2>1, <1>5, <1>7 DEF Artifact, ArtifactType
<1>14. Failing(artifact) \subseteq clients BY <1>2, <1>4, <1>9
<1> HIDE DEF artifact
<1> QED BY <1>7, <1>8, <1>11, <1>12, <1>13, <1>14

-----------------------------------------------------------------------------
(* The steps                                                               *)

\* Before the first round there is no client, no artifact and no failure.
LEMMA InitEstablishes == Init => IInv
<1> SUFFICES ASSUME Init PROVE IInv OBVIOUS
<1> USE DEF Init
<1>1. <<>> \in Seq(ArtifactType) /\ Len(<<>>) = 0 /\ DOMAIN <<>> = {} OBVIOUS
<1>2. Len(Checks) \in Nat BY ChecksAssumption
<1>3. TypeOK BY <1>1, <1>2, GraceAssumption DEF TypeOK, Final, Times
<1>4. RoundsWithinGrace BY GraceAssumption DEF RoundsWithinGrace
<1>5. FailuresReported BY DEF FailuresReported
<1> QED BY <1>3, <1>4, <1>5 DEF IInv, ClientsLive, RoundsByClock, ResultsSoFar, DeadNotJudged

\* The clock stands still or goes on.
LEMMA ClockGoesOn ==
    ASSUME TypeOK
    PROVE  /\ Later(1) \in Times /\ elapsed <= Later(1)
           /\ elapsed < MaxElapsed => Later(1) = elapsed + 1
BY GraceAssumption DEF TypeOK, Times, Later

\* A check's retries are a number, and so are those of the check after the last.
LEMMA RetriesAreNumbers == \A k : RetriesFrom(k) \in Nat
<1> SUFFICES ASSUME NEW k PROVE RetriesFrom(k) \in Nat OBVIOUS
<1>1. CASE k \in AllChecks
  <2>1. Checks[k] \in Check BY <1>1, ChecksAssumption DEF AllChecks
  <2> QED BY <1>1, <2>1 DEF RetriesFrom, Check
<1>2. CASE k \notin AllChecks BY <1>2 DEF RetriesFrom
<1> QED BY <1>1, <1>2

\* The checks are known by their place in the round.
LEMMA ChecksByIndex == Len(Checks) \in Nat /\ AllChecks = 1 .. Len(Checks)
BY ChecksAssumption DEF AllChecks

\* RunChecks reads the grace period: whoever dials has one.
LEMMA StartKeeps == ASSUME IInv, Start PROVE IInv'
<1> USE DEF IInv, Start, input
<1>1. pc' # "check" /\ pc' # "start" /\ pc' \in {"dial", "panicked"} OBVIOUS
<1>2. TypeOK' BY <1>1 DEF TypeOK, AllChecks, Final
<1>3. RoundsByClock'
  <2>1. pc' = "dial" => gracePeriod # NoGrace OBVIOUS
  <2> QED BY <1>1, <2>1, GraceAssumption DEF RoundsByClock, TypeOK
<1> QED
  BY <1>1, <1>2, <1>3 DEF ClientsLive, RoundsWithinGrace, ResultsSoFar, FailuresReported,
     DeadNotJudged, AllChecks

\* The arithmetic of a round that begins.
LEMMA OneRoundMore ==
    \A r, now, then, grace \in Nat :
        r <= now /\ now <= then /\ r <= grace + 1 => r + 1 <= then + 1 /\ r + 1 <= grace + 2
OBVIOUS

\* Dialing opens a round, with clients that are to live.
LEMMA DialKeeps == ASSUME IInv, Dial PROVE IInv'
<1> USE DEF IInv, Dial, input
<1>1. PICK listed \in SUBSET Nodes : clients' = PodsToHealthCheck(listed) OBVIOUS
<1>2. clients' \subseteq Nodes /\ clients' \cap expectDeath = {}
  BY <1>1 DEF PodsToHealthCheck, TypeOK
<1>3. elapsed' \in Times /\ elapsed <= elapsed' BY ClockGoesOn, GraceAssumption DEF TypeOK, Times
<1>4. RetriesFrom(1) \in Nat BY RetriesAreNumbers
<1>5. TypeOK'
  <2>1. results' \in Seq(ArtifactType) /\ Len(results') <= Len(Checks) BY ChecksAssumption
  <2> QED BY <1>2, <1>3, <1>4, <2>1 DEF TypeOK, AllChecks, Final
<1>6. gracePeriod \in Nat BY GraceAssumption DEF TypeOK, RoundsByClock
<1>7. RoundsByClock' /\ RoundsWithinGrace'
  <2>1. rounds \in Nat /\ elapsed \in Nat /\ elapsed' \in Nat
    BY <1>3, GraceAssumption DEF TypeOK, Times
  <2>2. rounds <= elapsed /\ rounds <= gracePeriod + 1 BY DEF RoundsByClock
  <2>3. rounds' <= elapsed' + 1 /\ rounds' <= gracePeriod + 2
    <3>1. rounds' = rounds + 1 OBVIOUS
    <3> HIDE DEF IInv, Dial
    <3> QED BY <1>3, <1>6, <2>1, <2>2, <3>1, OneRoundMore
  <2>4. gracePeriod # NoGrace BY DEF RoundsByClock
  <2> QED BY <2>3, <2>4 DEF RoundsByClock, RoundsWithinGrace
<1>8. ResultsSoFar' BY DEF ResultsSoFar
<1> QED
  BY <1>2, <1>5, <1>7, <1>8 DEF ClientsLive, FailuresReported, DeadNotJudged, AllChecks

\* An error or a panic ends the health check in the middle of whatever it did.
LEMMA StopKeeps ==
    ASSUME IInv, pc' \in Final,
           UNCHANGED <<input, elapsed, clients, attempts, results, prev, rounds, failed>>
    PROVE  IInv'
<1> USE DEF IInv, input
<1>1. pc' \notin {"start", "dial", "check"} BY DEF Final
<1>2. TypeOK' BY DEF TypeOK, AllChecks
<1> QED
  BY <1>1, <1>2 DEF ClientsLive, RoundsByClock, RoundsWithinGrace, ResultsSoFar,
     FailuresReported, DeadNotJudged, AllChecks

\* A retry takes a second and leaves the artifacts alone.
LEMMA PollAgainKeeps ==
    ASSUME IInv, Polling, NEW outcome, PollAgain(outcome)
    PROVE  IInv'
<1> USE DEF IInv, PollAgain, input
<1>1. elapsed' \in Times /\ elapsed <= elapsed' BY ClockGoesOn
<1>2. attempts' \in Nat BY DEF TypeOK
<1>3. TypeOK' BY <1>1, <1>2 DEF TypeOK, AllChecks
<1>4. RoundsByClock'
  <2>1. rounds \in Nat /\ elapsed \in Nat /\ elapsed' \in Nat
    BY <1>1, GraceAssumption DEF TypeOK, Times
  <2>2. pc = "check" /\ pc' = "check" BY DEF Polling
  <2> QED BY <1>1, <2>1, <2>2 DEF RoundsByClock
<1> QED
  BY <1>3, <1>4 DEF ClientsLive, RoundsWithinGrace, ResultsSoFar, FailuresReported,
     DeadNotJudged, Flagged, AllChecks

\* A check's artifact joins those of its round.
LEMMA ConcludeKeeps ==
    ASSUME IInv, Polling, NEW votes \in [Asked -> VotesFor(Current)],
           NEW outcome \in Outcomes(votes), Conclude(votes, outcome)
    PROVE  IInv'
<1> USE DEF IInv, Conclude, input
<1>1. PICK n \in outcome.consensusBlockHash :
          results' = Append(results, ArtifactOf(votes[n], outcome))
  OBVIOUS
<1> DEFINE artifact == ArtifactOf(votes[n], outcome)
<1>2. /\ artifact \in ArtifactType
      /\ Failing(artifact) \subseteq clients
      /\ prev = <<>> => Recovered(artifact) = {}
      /\ prev # <<>> => Continues(artifact, prev[Index])
      /\ Flagged(artifact)
  BY ArtifactOfPoll
<1>3. results' = Append(results, artifact) BY <1>1
<1> HIDE DEF artifact
<1>4. /\ results' \in Seq(ArtifactType) /\ Len(results') = Index
      /\ DOMAIN results' = DOMAIN results \cup {Index}
      /\ \A k \in DOMAIN results : results'[k] = results[k]
      /\ results'[Index] = artifact
  <2>1. results \in Seq(ArtifactType) BY DEF TypeOK
  <2> HIDE DEF Conclude, IInv
  <2> QED BY <1>2, <1>3, <2>1 DEF Index
<1>5. Len(results') <= Len(Checks) BY <1>4, ChecksAssumption DEF Polling, AllChecks
<1>6. RetriesFrom(Index + 1) \in Nat BY RetriesAreNumbers
<1>7. TypeOK' BY <1>4, <1>5, <1>6 DEF TypeOK, AllChecks
<1>8. ResultsSoFar'
  <2> SUFFICES ASSUME NEW k \in DOMAIN results'
               PROVE  /\ prev = <<>> => Recovered(results'[k]) = {}
                      /\ prev # <<>> => Continues(results'[k], prev[k])
                      /\ Failing(results'[k]) \cap expectDeath = {}
                      /\ Flagged(results'[k])
    BY DEF ResultsSoFar, Flagged
  <2>1. CASE k \in DOMAIN results
    <3>1. results'[k] = results[k] BY <2>1, <1>4
    <3>2. /\ prev = <<>> => Recovered(results[k]) = {}
          /\ prev # <<>> => Continues(results[k], prev[k])
          /\ Failing(results[k]) \cap expectDeath = {}
          /\ Flagged(results[k])
      BY <2>1 DEF ResultsSoFar, Polling
    <3> QED BY <3>1, <3>2
  <2>2. CASE k = Index
    <3>1. results'[k] = artifact BY <2>2, <1>4
    <3>2. Failing(artifact) \cap expectDeath = {} BY <1>2 DEF ClientsLive
    <3> QED BY <1>2, <2>2, <3>1, <3>2
  <2> QED BY <1>4, <2>1, <2>2
<1> QED
  BY <1>7, <1>8 DEF ClientsLive, RoundsByClock, RoundsWithinGrace, FailuresReported,
     DeadNotJudged, AllChecks

\* At the end of a round its artifacts become those of the round before.
LEMMA RoundKeepsHistory ==
    ASSUME IInv, RoundEnds, UNCHANGED input
    PROVE  /\ FailuresReported' /\ DeadNotJudged'
           /\ prev' \in Seq(ArtifactType) /\ Len(prev') = Len(Checks)
           /\ failed' \in [AllChecks -> SUBSET Nodes]
<1> USE DEF IInv, RoundEnds, input
<1>1. Len(results) = Len(Checks) /\ DOMAIN results = AllChecks
  <2>1. /\ results \in Seq(ArtifactType) /\ Len(results) <= Len(Checks)
        /\ Index \notin 1 .. Len(Checks)
    BY ChecksByIndex DEF TypeOK
  <2> HIDE DEF RoundEnds, IInv
  <2>2. Len(results) \in Nat /\ DOMAIN results = 1 .. Len(results) BY <2>1
  <2> QED BY <2>1, <2>2, ChecksByIndex DEF Index
<1>2. \A k \in AllChecks : results[k] \in ArtifactType BY <1>1 DEF TypeOK
<1>3. \A k \in AllChecks : Failing(results[k]) \subseteq Nodes /\ Recovered(results[k]) \subseteq Nodes
  <2> SUFFICES ASSUME NEW a \in ArtifactType PROVE Failing(a) \subseteq Nodes /\ Recovered(a) \subseteq Nodes
    BY <1>2
  <2>1. PICK N \in SUBSET Nodes : a.recoveryTime \in [N -> Times] BY DEF ArtifactType, RecoveryTimeMaps
  <2> QED BY <2>1 DEF ArtifactType, Failing, Recovered
<1>4. failed' \in [AllChecks -> SUBSET Nodes]
  <2>1. failed \in [AllChecks -> SUBSET Nodes] BY DEF TypeOK
  <2> QED BY <1>3, <2>1
<1>5. /\ prev' = results
      /\ \A k \in AllChecks : failed'[k] = failed[k] \cup Failing(results[k])
  OBVIOUS
<1>6. \A k \in AllChecks : failed'[k] = Failing(results[k]) \cup Recovered(results[k])
  <2> SUFFICES ASSUME NEW k \in AllChecks
               PROVE  failed[k] \cup Failing(results[k])
                          = Failing(results[k]) \cup Recovered(results[k])
    BY <1>5
  <2>1. CASE prev = <<>>
    <3>1. failed[k] = {} BY <2>1 DEF FailuresReported
    <3>2. Recovered(results[k]) = {} BY <1>1, <2>1 DEF ResultsSoFar
    <3> QED BY <3>1, <3>2
  <2>2. CASE prev # <<>>
    <3>1. failed[k] = Failing(prev[k]) \cup Recovered(prev[k])
      BY <2>2 DEF FailuresReported
    <3>2. Continues(results[k], prev[k]) BY <1>1, <2>2 DEF ResultsSoFar
    <3> QED BY <3>1, <3>2 DEF Continues
  <2> QED BY <2>1, <2>2
<1>7. \A k \in AllChecks :
          failed'[k] \subseteq underTest
              <=> ~ (results[k].unfaultedFail \/ results[k].unfaultedRecover)
  <2> SUFFICES ASSUME NEW k \in AllChecks
               PROVE  failed'[k] \subseteq underTest
                          <=> ~ (results[k].unfaultedFail \/ results[k].unfaultedRecover)
    OBVIOUS
  <2>1. Flagged(results[k]) BY <1>1 DEF ResultsSoFar
  <2>2. failed'[k] = Failing(results[k]) \cup Recovered(results[k]) BY <1>6
  <2> QED BY <2>1, <2>2 DEF Flagged
<1>8. FailuresReported'
  <2>1. prev' = <<>> => AllChecks = {} BY <1>1, <1>5
  <2> QED BY <1>5, <1>6, <1>7, <2>1 DEF FailuresReported, Failing, Recovered, AllChecks
<1>9. DeadNotJudged'
  <2> SUFFICES ASSUME NEW k \in AllChecks
               PROVE  (Failing(results[k]) \cup Recovered(results[k])) \cap expectDeath = {}
    BY <1>5, <1>6 DEF DeadNotJudged, Recovered, AllChecks
  <2>1. Failing(results[k]) \cap expectDeath = {} BY <1>1 DEF ResultsSoFar
  <2>2. CASE prev = <<>>
    BY <2>1, <2>2, <1>1 DEF ResultsSoFar
  <2>3. CASE prev # <<>>
    <3>1. Continues(results[k], prev[k]) BY <1>1, <2>3 DEF ResultsSoFar
    <3>2. (failed[k] \cup Recovered(prev[k])) \cap expectDeath = {} BY <2>3 DEF DeadNotJudged
    <3>3. failed[k] = Failing(prev[k]) \cup Recovered(prev[k]) BY <2>3 DEF FailuresReported
    <3> QED BY <2>1, <3>1, <3>2, <3>3 DEF Continues
  <2> QED BY <2>2, <2>3
<1> QED BY <1>1, <1>4, <1>5, <1>8, <1>9 DEF TypeOK

\* The last round's artifacts are what is returned.
LEMMA ReturnKeeps == ASSUME IInv, Return PROVE IInv'
<1> USE DEF IInv, Return
<1>1. RoundEnds /\ UNCHANGED input OBVIOUS
<1>2. /\ FailuresReported' /\ DeadNotJudged'
      /\ prev' \in Seq(ArtifactType) /\ Len(prev') = Len(Checks)
      /\ failed' \in [AllChecks -> SUBSET Nodes]
  BY <1>1, RoundKeepsHistory
<1>3. TypeOK' BY <1>2 DEF TypeOK, AllChecks, Final, input
<1> QED
  BY <1>2, <1>3 DEF ClientsLive, RoundsByClock, RoundsWithinGrace, ResultsSoFar, input

\* A sleep takes its second: the clock is not at its bound yet.
LEMMA SleepKeeps == ASSUME IInv, Sleep PROVE IInv'
<1> USE DEF IInv, Sleep
<1>1. RoundEnds /\ UNCHANGED input OBVIOUS
<1>2. /\ FailuresReported' /\ DeadNotJudged'
      /\ prev' \in Seq(ArtifactType) /\ Len(prev') = Len(Checks)
      /\ failed' \in [AllChecks -> SUBSET Nodes]
  BY <1>1, RoundKeepsHistory
<1>3. TypeOK' BY <1>2, ClockGoesOn DEF TypeOK, AllChecks, input
<1>4. pc = "check" /\ pc' = "dial" /\ gracePeriod # NoGrace BY DEF RoundEnds, RoundsByClock
<1>5. gracePeriod \in 0 .. (MaxElapsed - 1) BY <1>4, GraceAssumption DEF TypeOK
<1>6. elapsed \in Nat /\ rounds \in Nat /\ elapsed <= gracePeriod
  BY GraceAssumption DEF TypeOK, Times
<1>7. elapsed' = elapsed + 1 BY <1>5, <1>6, ClockGoesOn, GraceAssumption
<1>8. RoundsByClock' /\ RoundsWithinGrace'
  <2>1. rounds <= elapsed + 1 BY <1>4 DEF RoundsByClock
  <2>2. rounds' <= elapsed' /\ rounds' <= gracePeriod + 1
    BY <1>5, <1>6, <1>7, <2>1, GraceAssumption
  <2> QED BY <1>4, <1>5, <2>2, GraceAssumption DEF RoundsByClock, RoundsWithinGrace, input, TypeOK
<1> QED BY <1>2, <1>3, <1>4, <1>8 DEF ClientsLive, ResultsSoFar, input

\* The invariant is inductive.
LEMMA NextKeeps == IInv /\ [Next]_vars => IInv'
<1> SUFFICES ASSUME IInv, [Next]_vars PROVE IInv' OBVIOUS
<1>1. CASE Start BY <1>1, StartKeeps
<1>2. CASE Dial BY <1>2, DialKeeps
<1>3. CASE DialFails BY <1>3, StopKeeps DEF DialFails, Final
<1>4. CASE PollFails BY <1>4, StopKeeps DEF PollFails, Final
<1>5. CASE PollNobody BY <1>5, StopKeeps DEF PollNobody, Final
<1>6. CASE Poll BY <1>6, PollAgainKeeps, ConcludeKeeps DEF Poll
<1>7. CASE Return BY <1>7, ReturnKeeps
<1>8. CASE Sleep BY <1>8, SleepKeeps
<1>9. CASE UNCHANGED vars
  BY <1>9 DEF vars, input, IInv, TypeOK, ClientsLive, RoundsByClock, RoundsWithinGrace,
     ResultsSoFar, FailuresReported, DeadNotJudged, Flagged, AllChecks
<1> QED BY <1>1, <1>2, <1>3, <1>4, <1>5, <1>6, <1>7, <1>8, <1>9 DEF Next

\* The three generations of artifacts agree, and the clock counts the rounds, throughout
\* RunChecks.
THEOREM HealthInvariance == Spec => []IInv
<1> QED BY InitEstablishes, NextKeeps, PTL DEF Spec

\* Every variable of the health checker has its type: in particular a finished round has
\* an artifact for every check, and every recovery has a time on the clock.
THEOREM HealthTypeCorrect == Spec => []TypeOK
<1>1. IInv => TypeOK BY DEF IInv
<1> QED BY <1>1, HealthInvariance, PTL

\* The artifacts of the last round show exactly the nodes that failed a check in any
\* round, and flag exactly the failures of bystanders (convertResultToArtifact).
THEOREM EveryFailureReported == Spec => []FailuresReported
<1>1. IInv => FailuresReported BY DEF IInv
<1> QED BY <1>1, HealthInvariance, PTL

\* However fast the clients answer, there are at most two rounds more than the grace
\* period has seconds: each leaves its port-forward sessions open (RunChecks).
THEOREM GraceBoundsRounds == Spec => []RoundsWithinGrace
<1>1. IInv => RoundsWithinGrace BY DEF IInv
<1> QED BY <1>1, HealthInvariance, PTL

\* A pod under test that is expected to die is in no artifact (getPodsToHealthCheck).
THEOREM KilledPodsNotJudged == Spec => []DeadNotJudged
<1>1. IInv => DeadNotJudged BY DEF IInv
<1> QED BY <1>1, HealthInvariance, PTL

\* No later round changes or loses the time at which a node first recovered.
THEOREM FirstRecoveryKept == Spec => RecoveryTimesKept
<1> DEFINE Kept == prev # <<>> =>
                     \A k \in AllChecks : \A n \in Recovered(prev[k]) :
                        n \in Recovered(prev'[k])
                        /\ prev'[k].recoveryTime[n] = prev[k].recoveryTime[n]
<1>1. ASSUME IInv, Next PROVE Kept
  <2>1. CASE prev' = prev BY <2>1
  <2>2. CASE RoundEnds
    <3> SUFFICES ASSUME prev # <<>>, NEW k \in AllChecks, NEW n \in Recovered(prev[k])
                 PROVE  /\ n \in Recovered(results[k])
                        /\ results[k].recoveryTime[n] = prev[k].recoveryTime[n]
      BY <2>2 DEF RoundEnds
    <3>1. k \in DOMAIN results
      <4>1. /\ results \in Seq(ArtifactType) /\ Len(results) <= Len(Checks)
            /\ Index \notin 1 .. Len(Checks)
        BY <1>1, <2>2, ChecksByIndex DEF IInv, TypeOK, RoundEnds
      <4>2. DOMAIN results = 1 .. Len(Checks) BY <4>1, ChecksByIndex DEF Index
      <4> QED BY <4>2, ChecksByIndex
    <3>2. Continues(results[k], prev[k]) BY <1>1, <2>2, <3>1 DEF IInv, ResultsSoFar, RoundEnds
    <3> QED BY <3>2 DEF Continues
  <2> QED
    BY <1>1, <2>1, <2>2 DEF Next, Start, Dial, DialFails, PollFails, PollNobody, Poll,
       PollAgain, Conclude, Return, Sleep
<1>2. IInv /\ [Next]_vars => [Kept]_vars BY <1>1
<1> QED BY <1>2, HealthInvariance, PTL DEF Spec, RecoveryTimesKept
=============================================================================
