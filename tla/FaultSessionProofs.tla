------------------------ MODULE FaultSessionProofs ------------------------
(***************************************************************************)
(* Theorems about FaultSession for any finite sets of pods and messages    *)
(* and any kinds of fault, with their proofs.                              *)
(***************************************************************************)
EXTENDS FaultSession, SessionStatusProofs, FunctionTheorems

-----------------------------------------------------------------------------
(* The inductive invariant                                                 *)

RecordsSane == SaneRecords(fault, resource)

\* The session, with the pods under test that PodsUnderTestSound is about.
SessionSane == SoundSession(fault, resource, session)

\* What the last status says of the records, which later steps keep true.
StatusSane ==
    /\ status # "Starting" =>
          session.checkedForMissingPods /\ resource.recordsPresent
    /\ status = "Stopping" => InjectedAndRecovered(resource) # {}
    /\ (status = "Completed" /\ session.podsFailingRecovery = {}) =>
          IF fault.podKill THEN session.podsExpectedMissing = Cardinality(Pods)
                           ELSE InjectedAndRecovered(resource) = Pods

IInv ==
    /\ TypeOK
    /\ RecordsSane
    /\ SessionSane
    /\ StatusSane
    /\ ProgressMeansInjected
    /\ CompletedMeansRecovered
    /\ PanicNeedsFailedRecovery

-----------------------------------------------------------------------------
(* A sum that says which pods are wrong                                    *)

\* As long as the failures count pods, recovered pods and messages that together are as
\* many as the pods leave no pod out: the messages are no more than the pods that failed,
\* and those are among the pods that have not recovered.
LEMMA FailuresAreTheRest ==
    ASSUME NEW r \in Resource, FailuresCountPods(r),
           NEW books \in SUBSET Messages,
           \A m \in books : \E p \in Pods : m \in r.records[p].failures,
           Cardinality(InjectedAndRecovered(r)) + Cardinality(books) = Cardinality(Pods)
    PROVE  \A p \in Pods : p \in InjectedAndRecovered(r) \/ r.records[p].failures # {}
<1> DEFINE failing == {p \in Pods : r.records[p].failures # {}}
           rest == Pods \ InjectedAndRecovered(r)
           podOf == [m \in books |-> CHOOSE p \in Pods : m \in r.records[p].failures]
<1>1. \A p \in Pods : r.records[p].failures \in SUBSET Messages
  BY DEF Resource, Record
<1>2. \A p \in Pods : \A m, n \in r.records[p].failures : m = n
  <2> TAKE p \in Pods
  <2>1. IsFiniteSet(r.records[p].failures)
    BY <1>1, FiniteAssumption, FS_Subset
  <2>2. Cardinality(r.records[p].failures) \in Nat
    BY <2>1, FS_CardinalityType
  <2>3. Cardinality(r.records[p].failures) \in {0, 1}
    BY <2>2 DEF FailuresCountPods
  <2> QED BY <2>1, <2>3, FS_EmptySet, FS_Singleton
<1>3. \A m \in books : podOf[m] \in Pods /\ m \in r.records[podOf[m]].failures
  OBVIOUS
<1>4. podOf \in [books -> failing]
  BY <1>3
<1>5. \A m, n \in books : podOf[m] = podOf[n] => m = n
  <2> TAKE m, n \in books
  <2> HIDE DEF podOf
  <2> QED BY <1>2, <1>3
<1>6. podOf \in Injection(books, failing)
  BY <1>4, <1>5, Fun_IsInj
<1>7. IsFiniteSet(rest) /\ Cardinality(rest) = Cardinality(books)
  <2>1. InjectedAndRecovered(r) \subseteq Pods /\ IsFiniteSet(Pods)
    BY FiniteAssumption DEF InjectedAndRecovered
  <2>2. /\ IsFiniteSet(rest)
        /\ Cardinality(rest) = Cardinality(Pods) - Cardinality(InjectedAndRecovered(r))
    <3> DEFINE S == InjectedAndRecovered(r)
    <3>1. Pods \cap S = S
      BY <2>1
    <3>2. /\ IsFiniteSet(Pods \ S)
          /\ Cardinality(Pods \ S) = Cardinality(Pods) - Cardinality(Pods \cap S)
      <4> HIDE DEF S
      <4> QED BY <2>1, FS_Difference
    <3> QED BY <3>1, <3>2
  <2>3. /\ Cardinality(Pods) \in Nat /\ Cardinality(InjectedAndRecovered(r)) \in Nat
        /\ Cardinality(books) \in Nat
    BY <2>1, FiniteAssumption, FS_Subset, FS_CardinalityType
  <2> QED BY <2>2, <2>3
<1>8. failing \in SUBSET rest
  BY DEF FailuresCountPods
<1>9. IsFiniteSet(failing) /\ Cardinality(failing) <= Cardinality(rest)
  BY <1>7, <1>8, FS_Subset
<1>10. Cardinality(books) <= Cardinality(failing)
  BY <1>6, <1>9, FS_Injection
<1>11. Cardinality(failing) = Cardinality(rest)
  <2>1. Cardinality(failing) \in Nat /\ Cardinality(rest) \in Nat
    BY <1>7, <1>9, FS_CardinalityType
  <2> HIDE DEF failing, rest
  <2> QED BY <1>7, <1>9, <1>10, <2>1
<1>12. rest = failing
  BY <1>7, <1>8, <1>11, FS_Subset
<1> QED
  BY <1>12

-----------------------------------------------------------------------------
(* The steps of Chaos Mesh                                                 *)

ChaosStep ==
    \/ SelectPods
    \/ SetConditions
    \/ \E p \in Pods : Inject(p)
    \/ Elapse
    \/ \E p \in Pods : Recover(p)
    \/ \E p \in Pods, m \in Messages : FailRecovery(p, m)

\* Chaos Mesh never takes an injection or a recovery back.
LEMMA ChaosMonotone ==
    ASSUME IInv, ChaosStep
    PROVE  /\ resource' \in Resource
           /\ RecordsSane' /\ SessionSane'
           /\ resource.recordsPresent => resource'.recordsPresent
           /\ NotInjected(resource') \subseteq NotInjected(resource)
           /\ InjectedAndRecovered(resource) \subseteq InjectedAndRecovered(resource')
           /\ \A p \in Pods :
                 resource.records[p].failures \subseteq resource'.records[p].failures
           /\ UNCHANGED <<fault, session, status, erred>>
<1>1. /\ fault \in AllFaults /\ resource \in Resource
      /\ SaneRecords(fault, resource) /\ SoundSession(fault, resource, session)
  BY FaultsAssumption DEF IInv, TypeOK, RecordsSane, SessionSane
<1>2. UNCHANGED <<fault, session, status, erred>> /\ ChaosMoves(fault, resource, resource')
  BY DEF ChaosStep, SelectPods, SetConditions, Inject, Elapse, Recover, FailRecovery,
     Becomes, ChaosMoves
<1>3. /\ resource' \in Resource /\ SaneRecords(fault, resource')
      /\ GoesForward(resource, resource')
  BY <1>1, <1>2, MovesGoForward
<1>4. SoundSession(fault, resource', session) BY <1>1, <1>3, SoundnessStays
<1> QED BY <1>2, <1>3, <1>4 DEF RecordsSane, SessionSane, GoesForward

LEMMA ChaosPreserves ==
    ASSUME IInv, ChaosStep
    PROVE  IInv'
<1>1. /\ resource' \in Resource
      /\ RecordsSane' /\ SessionSane'
      /\ resource.recordsPresent => resource'.recordsPresent
      /\ NotInjected(resource') \subseteq NotInjected(resource)
      /\ InjectedAndRecovered(resource) \subseteq InjectedAndRecovered(resource')
      /\ \A p \in Pods :
            resource.records[p].failures \subseteq resource'.records[p].failures
      /\ UNCHANGED <<fault, session, status, erred>>
  BY ChaosMonotone
<1>2. InjectedAndRecovered(resource') \subseteq Pods
  BY DEF InjectedAndRecovered
<1>3. TypeOK'
  BY <1>1 DEF IInv, TypeOK
<1>4. SessionSane' /\ PanicNeedsFailedRecovery'
  BY <1>1 DEF IInv, PanicNeedsFailedRecovery
<1>5. StatusSane'
  <2>1. status' = "Completed" /\ ~fault'.podKill /\ session'.podsFailingRecovery = {}
           => InjectedAndRecovered(resource') = Pods
    BY <1>1, <1>2 DEF IInv, StatusSane
  <2>2. status' = "Stopping" => InjectedAndRecovered(resource') # {}
    BY <1>1 DEF IInv, StatusSane
  <2> QED
    BY <1>1, <2>1, <2>2 DEF IInv, StatusSane
<1>6. ProgressMeansInjected'
  BY <1>1 DEF IInv, ProgressMeansInjected
<1>7. CompletedMeansRecovered'
  <2>1. FailuresCountPods(resource') => FailuresCountPods(resource)
    <3> SUFFICES ASSUME FailuresCountPods(resource'), NEW p \in Pods
                 PROVE  /\ Cardinality(resource.records[p].failures) <= 1
                        /\ p \in InjectedAndRecovered(resource) =>
                              resource.records[p].failures = {}
      BY DEF FailuresCountPods
    <3>1. /\ resource.records[p].failures \subseteq resource'.records[p].failures
          /\ resource'.records[p].failures \in SUBSET Messages
      BY <1>1 DEF Resource, Record
    <3>2. /\ Cardinality(resource'.records[p].failures) <= 1
          /\ p \in InjectedAndRecovered(resource) => resource'.records[p].failures = {}
      BY <1>1 DEF FailuresCountPods
    <3>3. IsFiniteSet(resource'.records[p].failures)
      BY <3>1, FiniteAssumption, FS_Subset
    <3>4. /\ IsFiniteSet(resource.records[p].failures)
          /\ Cardinality(resource.records[p].failures)
                <= Cardinality(resource'.records[p].failures)
      BY <3>1, <3>3, FS_Subset
    <3>5. /\ Cardinality(resource.records[p].failures) \in Nat
          /\ Cardinality(resource'.records[p].failures) \in Nat
      BY <3>3, <3>4, FS_CardinalityType
    <3> QED BY <3>1, <3>2, <3>4, <3>5
  <2> QED
    BY <1>1, <2>1 DEF IInv, CompletedMeansRecovered
<1> QED
  BY <1>1, <1>3, <1>4, <1>5, <1>6, <1>7 DEF IInv

-----------------------------------------------------------------------------
(* GetStatus                                                               *)

\* What one call leaves in the session.
LEMMA PollSession ==
    ASSUME IInv, NEW labelsOk \in BOOLEAN, GetStatus(labelsOk)
    PROVE  /\ session' \in Session
           /\ UNCHANGED <<fault, resource>>
           /\ SessionSane'
           /\ session.podsFailingRecovery \subseteq session'.podsFailingRecovery
           /\ session.checkedForMissingPods =>
                 /\ session'.checkedForMissingPods
                 /\ session'.podsExpectedMissing = session.podsExpectedMissing
           /\ ~GetStatusFails(fault, session, resource, labelsOk)
                 /\ resource.recordsPresent => session'.checkedForMissingPods
<1>1. /\ fault \in AllFaults /\ session \in Session /\ resource \in Resource
      /\ session' = SessionAfter(fault, session, resource, labelsOk)
      /\ UNCHANGED <<fault, resource>>
      /\ SaneRecords(fault, resource) /\ SoundSession(fault, resource, session)
  BY FaultsAssumption DEF IInv, TypeOK, GetStatus, RecordsSane, SessionSane
<1> QED BY <1>1, PollKeepsSound DEF SessionSane

\* What a status is worth when it is returned.
LEMMA PollStatus ==
    ASSUME IInv, NEW labelsOk \in BOOLEAN, GetStatus(labelsOk),
           ~GetStatusFails(fault, session, resource, labelsOk)
    PROVE  /\ status' \in Statuses \ {"Error"}
           /\ status' # "Starting" => resource.recordsPresent /\ NotInjected(resource) = {}
           /\ status' = "Stopping" => InjectedAndRecovered(resource) # {}
           /\ (status' = "Completed" /\ session'.podsFailingRecovery = {}) =>
                 IF fault.podKill THEN session'.podsExpectedMissing = Cardinality(Pods)
                                  ELSE InjectedAndRecovered(resource) = Pods
           /\ status' = "Completed" =>
                 Accounted(session', resource) = Cardinality(Pods)
           /\ status' = "Panic" => session'.podsFailingRecovery # {}
<1>1. /\ fault \in AllFaults /\ session \in Session /\ resource \in Resource
      /\ session' = SessionAfter(fault, session, resource, labelsOk)
      /\ status' = StatusAfter(fault, session, resource, labelsOk)
      /\ SaneRecords(fault, resource) /\ SoundSession(fault, resource, session)
  BY FaultsAssumption DEF IInv, TypeOK, GetStatus, RecordsSane, SessionSane
<1> QED BY <1>1, StatusIsWorth

LEMMA PollPreserves ==
    ASSUME IInv, NEW labelsOk \in BOOLEAN, GetStatus(labelsOk)
    PROVE  IInv'
<1>1. /\ session' \in Session
      /\ UNCHANGED <<fault, resource>>
      /\ SessionSane'
      /\ session.podsFailingRecovery \subseteq session'.podsFailingRecovery
      /\ session.checkedForMissingPods =>
            /\ session'.checkedForMissingPods
            /\ session'.podsExpectedMissing = session.podsExpectedMissing
  BY PollSession
<1>2. RecordsSane'
  BY <1>1 DEF IInv, RecordsSane
<1>3. CASE GetStatusFails(fault, session, resource, labelsOk)
  <2>1. erred' = TRUE /\ status' = status /\ status # "Panic"
    BY <1>3 DEF GetStatus, Running
  <2>2. TypeOK'
    BY <1>1, <2>1 DEF IInv, TypeOK
  <2>3. StatusSane'
    BY <1>1, <2>1 DEF IInv, StatusSane
  <2>4. ProgressMeansInjected' /\ PanicNeedsFailedRecovery'
    BY <1>1, <2>1 DEF IInv, ProgressMeansInjected, PanicNeedsFailedRecovery
  <2>5. CompletedMeansRecovered'
    BY <1>1, <2>1 DEF IInv, CompletedMeansRecovered
  <2> QED
    BY <1>1, <1>2, <2>2, <2>3, <2>4, <2>5 DEF IInv
<1>4. CASE ~GetStatusFails(fault, session, resource, labelsOk)
  <2>1. erred' = FALSE
    BY <1>4 DEF GetStatus
  <2>2. /\ status' \in Statuses \ {"Error"}
        /\ status' # "Starting" => resource.recordsPresent /\ NotInjected(resource) = {}
        /\ status' = "Stopping" => InjectedAndRecovered(resource) # {}
        /\ (status' = "Completed" /\ session'.podsFailingRecovery = {}) =>
              IF fault.podKill THEN session'.podsExpectedMissing = Cardinality(Pods)
                               ELSE InjectedAndRecovered(resource) = Pods
        /\ status' = "Completed" =>
              Accounted(session', resource) = Cardinality(Pods)
        /\ status' = "Panic" => session'.podsFailingRecovery # {}
    BY <1>4, PollStatus
  <2>3. status' # "Starting" => session'.checkedForMissingPods
    BY <1>4, <2>2, PollSession
  <2>4. TypeOK'
    BY <1>1, <2>1, <2>2 DEF IInv, TypeOK
  <2>5. StatusSane'
    BY <1>1, <2>2, <2>3 DEF StatusSane
  <2>6. ProgressMeansInjected' /\ PanicNeedsFailedRecovery'
    BY <1>1, <2>2 DEF ProgressMeansInjected, PanicNeedsFailedRecovery
  <2>7. CompletedMeansRecovered'
    <3> SUFFICES ASSUME status' = "Completed", ~fault.podKill, FailuresCountPods(resource)
                 PROVE  \A p \in Pods : \/ p \in InjectedAndRecovered(resource)
                                        \/ resource.records[p].failures # {}
      BY <1>1 DEF CompletedMeansRecovered
    <3>1. session'.podsExpectedMissing = 0
      BY <1>1, BooksAreFinite DEF SessionSane, SoundSession
    <3>2. Cardinality(InjectedAndRecovered(resource))
             + Cardinality(session'.podsFailingRecovery) = Cardinality(Pods)
      <4>1. resource \in Resource
        BY DEF IInv, TypeOK
      <4>2. Accounted(session', resource) = Cardinality(Pods)
        BY <2>2
      <4>3. /\ Cardinality(InjectedAndRecovered(resource)) \in Nat
            /\ Cardinality(session'.podsFailingRecovery) \in Nat
        BY <1>1, <4>1, RecordsPartition, BooksAreFinite
      <4> QED BY <3>1, <4>2, <4>3 DEF Accounted
    <3>3. \A m \in session'.podsFailingRecovery :
             \E p \in Pods : m \in resource.records[p].failures
      BY <1>1 DEF SessionSane, SoundSession
    <3> QED
      BY <1>1, <3>2, <3>3, FailuresAreTheRest DEF IInv, TypeOK, Session
  <2> QED
    BY <1>1, <1>2, <2>4, <2>5, <2>6, <2>7 DEF IInv
<1> QED
  BY <1>3, <1>4

-----------------------------------------------------------------------------
(* Invariance                                                              *)

\* IInv holds initially and every step keeps it.
THEOREM Invariance == Spec => []IInv
<1>1. Init => IInv
  <2> SUFFICES ASSUME Init PROVE IInv
    OBVIOUS
  <2>1. fault \in AllFaults BY FaultsAssumption DEF Init
  <2>2. /\ resource \in Resource /\ session \in Session /\ RecordsSane /\ SessionSane
    BY <2>1, NewIsSane DEF Init, RecordsSane, SessionSane
  <2>3. TypeOK
    BY <2>2 DEF Init, TypeOK, Statuses
  <2>4. StatusSane /\ ProgressMeansInjected /\ PanicNeedsFailedRecovery
    BY DEF Init, StatusSane, ProgressMeansInjected, PanicNeedsFailedRecovery
  <2>5. CompletedMeansRecovered
    BY DEF Init, CompletedMeansRecovered
  <2> QED
    BY <2>2, <2>3, <2>4, <2>5 DEF IInv
<1>2. IInv /\ [Next]_vars => IInv'
  <2> SUFFICES ASSUME IInv, [Next]_vars PROVE IInv'
    OBVIOUS
  <2>1. CASE ChaosStep
    BY <2>1, ChaosPreserves
  <2>2. ASSUME NEW labelsOk \in BOOLEAN, GetStatus(labelsOk)
        PROVE  IInv'
    BY <2>2, PollPreserves
  <2>3. CASE GetStatusUnreachable
    BY <2>3 DEF GetStatusUnreachable, IInv, TypeOK, RecordsSane, SessionSane, StatusSane,
         ProgressMeansInjected, CompletedMeansRecovered, PanicNeedsFailedRecovery
  <2>4. CASE UNCHANGED vars
    BY <2>4 DEF vars, IInv, TypeOK, RecordsSane, SessionSane, StatusSane,
         ProgressMeansInjected, CompletedMeansRecovered, PanicNeedsFailedRecovery
  <2> QED
    BY <2>1, <2>2, <2>3, <2>4 DEF Next, ChaosStep
<1> QED
  BY <1>1, <1>2, PTL DEF Spec

\* Every variable keeps its type.
THEOREM TypeCorrect == Spec => []TypeOK
<1>1. IInv => TypeOK
  BY DEF IInv
<1> QED
  BY <1>1, Invariance, PTL

\* No status past "Starting" is early: every target was injected.
THEOREM ProgressIsSound == Spec => []ProgressMeansInjected
<1>1. IInv => ProgressMeansInjected
  BY DEF IInv
<1> QED
  BY <1>1, Invariance, PTL

\* A completed fault is off in every pod whose recovery did not fail.
THEOREM CompletionIsSound == Spec => []CompletedMeansRecovered
<1>1. IInv => CompletedMeansRecovered
  BY DEF IInv
<1> QED
  BY <1>1, Invariance, PTL

\* The pods under test were injected, and die exactly when the fault kills.
THEOREM PodsUnderTestAreSound == Spec => []PodsUnderTestSound
<1>1. IInv => PodsUnderTestSound
  BY DEF IInv, SessionSane, SoundSession, PodsUnderTestSound
<1> QED
  BY <1>1, Invariance, PTL

\* GetStatus cannot panic before a failed recovery was recorded.
THEOREM PanicIsGuarded == Spec => []PanicNeedsFailedRecovery
<1>1. IInv => PanicNeedsFailedRecovery
  BY DEF IInv
<1> QED
  BY <1>1, Invariance, PTL

-----------------------------------------------------------------------------
(* The statuses go forward                                                 *)

\* Classifying again, after the records have only moved on.
LEMMA PollForward ==
    ASSUME IInv, NEW labelsOk \in BOOLEAN, GetStatus(labelsOk),
           session'.podsFailingRecovery = {}, status # status', status # "Starting"
    PROVE  \/ status = "InProgress" /\ status' \in {"Stopping", "Completed"}
           \/ status = "Stopping" /\ status' = "Completed"
<1>1. ~GetStatusFails(fault, session, resource, labelsOk)
  BY DEF GetStatus
<1>2. /\ session' \in Session /\ resource \in Resource /\ SessionSane'
      /\ fault' = fault
      /\ session.podsFailingRecovery = {}
      /\ session'.podsExpectedMissing = session.podsExpectedMissing
      /\ resource.recordsPresent
  BY PollSession DEF IInv, StatusSane, TypeOK
<1>3. status' = StatusOf(session', resource)
  BY <1>1, <1>2 DEF GetStatus, StatusAfter
<1>4. status' \in Statuses \ {"Error"} /\ status' # "Panic"
  BY <1>1, PollStatus
<1>5. status \in {"InProgress", "Stopping", "Completed"}
  BY DEF IInv, TypeOK, Statuses, GetStatus, Running
<1>6. NotInjected(resource) = {}
  BY <1>5 DEF IInv, ProgressMeansInjected
<1>7. status' # "Starting"
  BY <1>3, <1>6 DEF StatusOf
<1>8. CASE status = "InProgress"
  BY <1>4, <1>7, <1>8 DEF Statuses
<1>9. CASE status = "Stopping"
  <2>1. InjectedAndRecovered(resource) # {}
    BY <1>9 DEF IInv, StatusSane
  <2>2. status' # "InProgress"
    BY <1>3, <1>6, <2>1 DEF StatusOf
  <2> QED
    BY <1>4, <1>7, <1>9, <2>2 DEF Statuses
<1>10. CASE status = "Completed"
  <2> DEFINE E == session'.podsExpectedMissing
             R == Cardinality(InjectedAndRecovered(resource))
             N == NotRecovered(resource)
             C == Cardinality(Pods)
  <2>1. /\ C \in Nat /\ R \in 0..C /\ N \in 0..C /\ E \in 0..C
        /\ R + N = C
        /\ R = 0 <=> InjectedAndRecovered(resource) = {}
        /\ R = C <=> InjectedAndRecovered(resource) = Pods
    BY <1>2, <1>6, RecordsPartition DEF Session
  <2>2. Cardinality(session'.podsFailingRecovery) = 0
    BY FS_EmptySet
  <2>3. \/ fault.podKill /\ E = C /\ R = 0
        \/ ~fault.podKill /\ E = 0 /\ R = C
    <3>1. IF fault.podKill THEN session.podsExpectedMissing = C
                           ELSE InjectedAndRecovered(resource) = Pods
      BY <1>2, <1>10 DEF IInv, StatusSane
    <3>2. E > 0 => fault.podKill
      BY <1>2 DEF SessionSane, SoundSession
    <3>3. fault.podKill => InjectedAndRecovered(resource) = {}
      BY DEF IInv, RecordsSane, SaneRecords, InjectedAndRecovered
    <3> HIDE DEF C, R, E
    <3>4. CASE fault.podKill
      BY <1>2, <2>1, <3>1, <3>3, <3>4 DEF E
    <3>5. CASE ~fault.podKill
      BY <2>1, <3>1, <3>2, <3>5
    <3> QED
      BY <3>4, <3>5
  <2>4. ~(N > E /\ R = 0) /\ R + 0 + E = C
    <3> HIDE DEF C, R, E, N
    <3> QED
      BY <2>1, <2>3
  <2>5. Accounted(session', resource) = C
    BY <2>2, <2>4 DEF Accounted
  <2>6. ~(N > E /\ InjectedAndRecovered(resource) = {})
    BY <2>1, <2>4
  <2>7. status' = "Completed"
    BY <1>3, <1>6, <2>5, <2>6 DEF StatusOf
  <2> QED
    BY <1>10, <2>7
<1> QED
  BY <1>5, <1>8, <1>9, <1>10

\* While no recovery has failed, no poll reports an earlier phase than the one
\* before it.
THEOREM StatusOnlyAdvances == Spec => StatusGoesForward
<1> DEFINE forward ==
        (session'.podsFailingRecovery = {} /\ status # status')
        => \/ status = "Starting"
           \/ status = "InProgress" /\ status' \in {"Stopping", "Completed"}
           \/ status = "Stopping" /\ status' = "Completed"
<1>1. IInv /\ [Next]_vars => [forward]_vars
  <2> SUFFICES ASSUME IInv, [Next]_vars PROVE forward
    OBVIOUS
  <2>1. CASE ChaosStep
    BY <2>1, ChaosMonotone
  <2>2. ASSUME NEW labelsOk \in BOOLEAN, GetStatus(labelsOk)
        PROVE  forward
    BY <2>2, PollForward
  <2>3. CASE GetStatusUnreachable \/ UNCHANGED vars
    BY <2>3 DEF GetStatusUnreachable, vars
  <2> QED
    BY <2>1, <2>2, <2>3 DEF Next, ChaosStep
<1> QED
  BY <1>1, Invariance, PTL DEF Spec, StatusGoesForward

-----------------------------------------------------------------------------
(* Refinement                                                              *)

\* Without failed recoveries and missing pods the status is the phase.
LEMMA StatusIsPhase ==
    ASSUME NEW s \in Session, NEW r \in Resource, r.recordsPresent,
           s.podsFailingRecovery = {}, s.podsExpectedMissing = 0
    PROVE  StatusOf(s, r) = PhaseOf(r)
<1> DEFINE R == Cardinality(InjectedAndRecovered(r))
           N == NotRecovered(r)
           C == Cardinality(Pods)
<1>1. CASE NotInjected(r) # {}
  BY <1>1 DEF StatusOf, PhaseOf
<1>2. CASE NotInjected(r) = {}
  <2>1. /\ C \in Nat /\ R \in 0..C /\ N \in 0..C
        /\ R + N = C
        /\ R = 0 <=> InjectedAndRecovered(r) = {}
        /\ R = C <=> InjectedAndRecovered(r) = Pods
    BY <1>2, RecordsPartition
  <2>2. Accounted(s, r) = R + 0 + 0
    BY FS_EmptySet DEF Accounted
  <2> HIDE DEF R, C, N
  <2>3. Accounted(s, r) = C <=> InjectedAndRecovered(r) = Pods
    BY <2>1, <2>2
  <2>4. (N > 0 /\ InjectedAndRecovered(r) = {})
           <=> (InjectedAndRecovered(r) = {} /\ InjectedAndRecovered(r) # Pods)
    BY <2>1
  <2>5. InjectedAndRecovered(r) # Pods => N > 0
    BY <2>1
  <2> QED
    BY <1>2, <2>3, <2>4, <2>5 DEF StatusOf, PhaseOf, C, N
<1> QED
  BY <1>1, <1>2

\* The phase of the fault never goes back.
LEMMA PhaseForward ==
    ASSUME IInv, ChaosStep
    PROVE  \/ PhaseOf(resource') = PhaseOf(resource)
           \/ Lifecycle!Rank[PhaseOf(resource')] > Lifecycle!Rank[PhaseOf(resource)]
<1>1. /\ resource.recordsPresent => resource'.recordsPresent
      /\ NotInjected(resource') \subseteq NotInjected(resource)
      /\ InjectedAndRecovered(resource) \subseteq InjectedAndRecovered(resource')
  BY ChaosMonotone
<1>2. InjectedAndRecovered(resource') \subseteq Pods
  BY DEF InjectedAndRecovered
<1>3. /\ Lifecycle!Rank["Starting"] = 0 /\ Lifecycle!Rank["InProgress"] = 1
      /\ Lifecycle!Rank["Stopping"] = 2 /\ Lifecycle!Rank["Completed"] = 3
  BY DEF Lifecycle!Rank, Lifecycle!Phases
<1>4. CASE PhaseOf(resource) = "Starting"
  BY <1>3, <1>4 DEF PhaseOf
<1>5. CASE PhaseOf(resource) = "InProgress"
  <2>1. PhaseOf(resource') # "Starting"
    BY <1>1, <1>5 DEF PhaseOf
  <2> QED
    BY <1>3, <1>5, <2>1 DEF PhaseOf
<1>6. CASE PhaseOf(resource) = "Stopping"
  <2>1. PhaseOf(resource') \in {"Stopping", "Completed"}
    BY <1>1, <1>6 DEF PhaseOf
  <2> QED
    BY <1>3, <1>6, <2>1
<1>7. CASE PhaseOf(resource) = "Completed"
  <2>1. resource.recordsPresent /\ NotInjected(resource) = {}
        /\ InjectedAndRecovered(resource) = Pods
    BY <1>7 DEF PhaseOf
  <2>2. resource'.recordsPresent /\ NotInjected(resource') = {}
        /\ InjectedAndRecovered(resource') = Pods
    BY <1>1, <1>2, <2>1
  <2>3. PhaseOf(resource') = "Completed"
    BY <2>2 DEF PhaseOf
  <2> QED
    BY <1>7, <2>3
<1> QED
  BY <1>4, <1>5, <1>6, <1>7 DEF PhaseOf

\* A promise that is waived stays so.
LEMMA WaivedForGood ==
    ASSUME IInv, [Next]_vars, Waived
    PROVE  Waived'
<1>1. CASE ChaosStep
  BY <1>1, ChaosMonotone DEF Waived
<1>2. CASE UNCHANGED <<fault, resource>>
  BY <1>2 DEF Waived
<1> QED
  BY <1>1, <1>2 DEF Next, ChaosStep, GetStatus, GetStatusUnreachable, vars

\* What a poll returns is the phase of the fault, unless the promise is waived.
LEMMA PollSeesPhase ==
    ASSUME IInv, NEW labelsOk \in BOOLEAN, GetStatus(labelsOk), ~Waived,
           ~GetStatusFails(fault, session, resource, labelsOk)
    PROVE  status' = PhaseOf(resource)
<1>1. /\ status' = StatusAfter(fault, session, resource, labelsOk)
      /\ session' = SessionAfter(fault, session, resource, labelsOk)
  BY DEF GetStatus
<1>2. /\ session' \in Session /\ resource \in Resource /\ SessionSane'
      /\ UNCHANGED <<fault, resource>>
  BY PollSession DEF IInv, TypeOK
<1>3. session'.podsFailingRecovery = {}
  <2>1. \A m \in session'.podsFailingRecovery :
           \E p \in Pods : m \in resource.records[p].failures
    BY <1>2 DEF SessionSane, SoundSession
  <2> QED BY <2>1 DEF Waived
<1>4. session'.podsExpectedMissing = 0
  BY <1>2, BooksAreFinite DEF SessionSane, SoundSession, Waived
<1>5. CASE ~resource.recordsPresent
  BY <1>1, <1>5 DEF StatusAfter, PhaseOf
<1>6. CASE resource.recordsPresent
  BY <1>1, <1>2, <1>3, <1>4, <1>6, StatusIsPhase DEF StatusAfter
<1> QED
  BY <1>5, <1>6

\* Every session implements the abstract lifecycle, whatever faults and failed recoveries
\* it meets: what it promises ends with the first of these, and not before.
THEOREM SessionImplementsLifecycle == Spec => ImplementsLifecycle
<1>1. Init => Lifecycle!Init
  BY DEF Init, NewResource, NewRecord, Lifecycle!Init, PhaseOf, Waived
<1>2. IInv /\ [Next]_vars => [Lifecycle!Next]_(Lifecycle!vars)
  <2> SUFFICES ASSUME IInv, [Next]_vars
               PROVE  [Lifecycle!Next]_(Lifecycle!vars)
    OBVIOUS
  <2>1. CASE Waived'
    BY <2>1 DEF Lifecycle!Next, Lifecycle!Waive
  <2>2. CASE ~Waived'
    <3> USE DEF Lifecycle!Next, Lifecycle!vars
    <3>1. ~Waived
      BY <2>2, WaivedForGood
    <3>2. CASE ChaosStep
      <4>1. status' = status
        BY <3>2, ChaosMonotone
      <4>2. /\ PhaseOf(resource') \in Lifecycle!Phases
            /\ PhaseOf(resource) # "Waived"
        BY DEF PhaseOf, Lifecycle!Phases
      <4> QED
        BY <2>2, <3>1, <3>2, <4>1, <4>2, PhaseForward DEF Lifecycle!Advance
    <3>3. ASSUME NEW labelsOk \in BOOLEAN, GetStatus(labelsOk)
          PROVE  [Lifecycle!Next]_(Lifecycle!vars)
      <4>1. resource' = resource
        BY <3>3 DEF GetStatus
      <4>2. CASE GetStatusFails(fault, session, resource, labelsOk)
        BY <2>2, <3>1, <3>3, <4>1, <4>2 DEF GetStatus
      <4>3. CASE ~GetStatusFails(fault, session, resource, labelsOk)
        BY <2>2, <3>1, <3>3, <4>1, <4>3, PollSeesPhase DEF Lifecycle!Observe
      <4> QED
        BY <4>2, <4>3
    <3>4. CASE GetStatusUnreachable \/ UNCHANGED vars
      BY <2>2, <3>1, <3>4 DEF GetStatusUnreachable, vars
    <3> QED
      BY <3>2, <3>3, <3>4 DEF Next, ChaosStep
  <2> QED
    BY <2>1, <2>2
<1> QED
  BY <1>1, <1>2, Invariance, PTL DEF Spec, ImplementsLifecycle, Lifecycle!Spec
=============================================================================
