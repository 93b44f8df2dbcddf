--------------------------- MODULE SessionStatus ---------------------------
(***************************************************************************)
(* pkg/chaos-mesh/session.go: what one GetStatus call does to a            *)
(* FaultSession and what it returns, as operators on the session and the   *)
(* resource the call read.  A pod lookup that fails is the parameter       *)
(* labelsOk.                                                               *)
(***************************************************************************)
EXTENDS ChaosResource

Statuses == {"Starting", "InProgress", "Stopping", "Completed", "Error", "Panic"}

\* podsFailingRecovery is its set of keys; podsUnderTest maps a pod's name to
\* ExpectDeath.
Session ==
    [targetSelectionCompleted : BOOLEAN,
     checkedForMissingPods : BOOLEAN,
     podsExpectedMissing : 0..Cardinality(Pods),
     podsFailingRecovery : SUBSET Messages,
     podsUnderTest : UNION {[S -> BOOLEAN] : S \in SUBSET Pods}]

NoPods == [p \in {} |-> FALSE]

NewSession ==
    [targetSelectionCompleted |-> FALSE,
     checkedForMissingPods |-> FALSE,
     podsExpectedMissing |-> 0,
     podsFailingRecovery |-> {},
     podsUnderTest |-> NoPods]

-----------------------------------------------------------------------------
(* checkTargetSelectionCompleted, getFaultRecords                          *)

SelectionUnreadable(s, r) ==
    ~s.targetSelectionCompleted /\ r.condition = "nil"

\* The value returned: the Selected condition is present, whatever its status.
TargetsSelected(s, r) ==
    ~s.targetSelectionCompleted /\ r.condition # "nil"

SelectionChecked(s, r) ==
    [s EXCEPT !.targetSelectionCompleted = @ \/ r.condition = "True"]

Populates(s, r) == TargetsSelected(s, r) /\ r.recordsPresent

-----------------------------------------------------------------------------
(* populatePodsUnderTest, filterInjectedPods, buildPodsUnderTestSlice      *)

\* Mutant: every record counts, whatever its phase.
InjectedPodsAnyPhase(r) == Pods

InjectedPods(r) == {p \in Pods : r.records[p].phase = "Injected"}

IdsUnreadable(f, r) == InjectedPods(r) # {} /\ ~f.wellFormedIds

PopulationFails(f, s, r, labelsOk) ==
    /\ Populates(s, r)
    /\ ~s.checkedForMissingPods
    /\ IdsUnreadable(f, r) \/ (InjectedPods(r) # {} /\ ~labelsOk)

ExpectedMissing(f, s, r) ==
    IF f.podKill /\ ~IdsUnreadable(f, r) THEN Cardinality(InjectedPods(r))
                                         ELSE s.podsExpectedMissing

\* checkedForMissingPods is set before the steps that can fail.
PodsPopulated(f, s, r, labelsOk) ==
    IF s.checkedForMissingPods
    THEN s   \* logs "this code is supposed to be unreachable"
    ELSE [s EXCEPT
            !.checkedForMissingPods = TRUE,
            !.podsExpectedMissing = ExpectedMissing(f, s, r),
            !.podsUnderTest =
                IF PopulationFails(f, s, r, labelsOk) THEN @
                ELSE [p \in InjectedPods(r) |-> ExpectedMissing(f, s, r) > 0]]

RecordsRead(f, s, r, labelsOk) ==
    SelectionChecked(IF Populates(s, r) THEN PodsPopulated(f, s, r, labelsOk)
                                        ELSE s, r)

-----------------------------------------------------------------------------
(* GetStatus                                                               *)

\* Mutant: decides by the phase, not by the count of injections.
NotInjectedByPhase(r) == {p \in Pods : r.records[p].phase = "NotInjected"}

NotInjected(r) == {p \in Pods : r.records[p].injectedCount = 0}

InjectedAndRecovered(r) ==
    {p \in Pods : /\ r.records[p].injectedCount # 0
                  /\ r.records[p].injectedCount = r.records[p].recoveredCount}

InjectedNotRecovered(r) ==
    {p \in Pods : /\ r.records[p].injectedCount # 0
                  /\ r.records[p].injectedCount # r.records[p].recoveredCount}

\* checkForFailedRecovery on every injected record that has not recovered.
FailuresNoted(s, r) ==
    [s EXCEPT !.podsFailingRecovery =
        @ \cup UNION {r.records[p].failures : p \in InjectedNotRecovered(r)}]

NotRecovered(r) == Cardinality(InjectedNotRecovered(r))
Accounted(s, r) ==
    Cardinality(InjectedAndRecovered(r)) + Cardinality(s.podsFailingRecovery)
        + s.podsExpectedMissing

\* Mutants: forgets the records that are not injected; completes at the first
\* recovery; leaves the missing pods out of the sum; reports progress after
\* recoveries have begun; counts one too few.
StatusIgnoringNotInjected(s, r) ==
    IF NotRecovered(r) > s.podsExpectedMissing /\ InjectedAndRecovered(r) = {}
    THEN "InProgress" ELSE "Starting"
StatusEarlyCompletion(s, r) ==
    IF NotInjected(r) # {} THEN "Starting"
    ELSE IF InjectedAndRecovered(r) # {} THEN "Completed" ELSE "InProgress"
StatusWithoutMissing(s, r) ==
    IF NotInjected(r) # {} THEN "Starting"
    ELSE IF NotRecovered(r) > s.podsExpectedMissing /\ InjectedAndRecovered(r) = {}
         THEN "InProgress"
    ELSE IF Accounted(s, r) - s.podsExpectedMissing = Cardinality(Pods)
         THEN "Completed"
    ELSE IF NotRecovered(r) > 0 /\ InjectedAndRecovered(r) # {} THEN "Stopping"
    ELSE "Panic"
StatusAlwaysInProgress(s, r) ==
    IF NotInjected(r) # {} THEN "Starting"
    ELSE IF NotRecovered(r) > s.podsExpectedMissing THEN "InProgress"
    ELSE "Completed"
StatusOneTooFew(s, r) ==
    IF NotInjected(r) # {} THEN "Starting"
    ELSE IF InjectedAndRecovered(r) = {} THEN "InProgress"
    ELSE IF Accounted(s, r) = Cardinality(Pods) + 1 THEN "Completed"
    ELSE "Stopping"

\* The returns of GetStatus in their order; the last one is its panic.
StatusOf(s, r) ==
    IF NotInjected(r) # {} THEN "Starting"
    ELSE IF NotRecovered(r) > s.podsExpectedMissing /\ InjectedAndRecovered(r) = {}
         THEN "InProgress"
    ELSE IF Accounted(s, r) = Cardinality(Pods) THEN "Completed"
    ELSE IF NotRecovered(r) > 0 /\ InjectedAndRecovered(r) # {} THEN "Stopping"
    ELSE "Panic"

\* The session after a GetStatus whose Get succeeded, its status and its error.
GetStatusFails(f, s, r, labelsOk) ==
    SelectionUnreadable(s, r) \/ PopulationFails(f, s, r, labelsOk)

SessionAfter(f, s, r, labelsOk) ==
    LET read == RecordsRead(f, s, r, labelsOk)
    IN  IF GetStatusFails(f, s, r, labelsOk) \/ ~r.recordsPresent
        THEN read
        ELSE FailuresNoted(read, r)

StatusAfter(f, s, r, labelsOk) ==
    IF GetStatusFails(f, s, r, labelsOk) THEN "Error"
    ELSE IF ~r.recordsPresent THEN "Starting"
    ELSE StatusOf(SessionAfter(f, s, r, labelsOk), r)
=============================================================================
