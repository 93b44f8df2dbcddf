------------------------- MODULE SessionStatusProofs -------------------------
(***************************************************************************)
(* What Chaos Mesh does to the resource of one fault, what one GetStatus   *)
(* makes of it, and what its status is worth: lemmas on the operators of   *)
(* ChaosResource and SessionStatus, for the modules with one session and   *)
(* with several.                                                           *)
(***************************************************************************)
EXTENDS SessionStatus, FiniteSetTheorems, TLAPS

-----------------------------------------------------------------------------
(* A resource and a session in the states they can be in                   *)

\* A record is in the injected phase from its injection to its recovery.  Nothing
\* recovers, or fails to, while the fault is to run; it is for ever when the fault kills
\* its pods or has no duration.
SaneRecords(f, r) ==
    /\ \A p \in Pods :
          LET c == r.records[p]
          IN  /\ c.recoveredCount <= c.injectedCount
              /\ c.phase = "Injected" <=> c.injectedCount = 1 /\ c.recoveredCount = 0
              /\ r.desired = "Run" => c.recoveredCount = 0 /\ c.failures = {}
    /\ r.condition = "True" => r.recordsPresent
    /\ f.podKill \/ ~f.duration => r.desired = "Run"

\* The selection is complete only after the pods were looked for once; those found were
\* injected, and die exactly when the fault kills; and every failure noted is in a record.
SoundSession(f, r, s) ==
    LET under == DOMAIN s.podsUnderTest
    IN  /\ s.targetSelectionCompleted => s.checkedForMissingPods
        /\ ~s.checkedForMissingPods => under = {}
        /\ s.podsExpectedMissing > 0 => f.podKill
        /\ under \cap NotInjected(r) = {}
        /\ \A p \in under : s.podsUnderTest[p] = f.podKill
        /\ under # {} /\ f.podKill => s.podsExpectedMissing = Cardinality(under)
        /\ \A m \in s.podsFailingRecovery : \E p \in Pods : m \in r.records[p].failures

\* What Chaos Mesh can make of a resource in one step.
ChaosMoves(f, r, t) ==
    \/ CanSelect(r) /\ t = Selected(r)
    \/ CanSetConditions(r) /\ t = ConditionsSet(r)
    \/ \E p \in Pods : CanInject(r, p) /\ t = Injected(r, p)
    \/ CanElapse(f, r) /\ t = Elapsed(r)
    \/ \E p \in Pods : CanRecover(r, p) /\ t = Recovered(r, p)
    \/ \E p \in Pods, m \in Messages : CanRecover(r, p) /\ t = RecoveryFailed(r, p, m)

\* A resource keeps its injections, its recoveries and its failures.
GoesForward(r, t) ==
    /\ r.recordsPresent => t.recordsPresent
    /\ NotInjected(t) \subseteq NotInjected(r)
    /\ InjectedAndRecovered(r) \subseteq InjectedAndRecovered(t)
    /\ \A p \in Pods : r.records[p].failures \subseteq t.records[p].failures

-----------------------------------------------------------------------------
(* Counting the records                                                    *)

\* The three ways GetStatus counts a record partition the pods, and the counts
\* are those of finite sets (session.go:247-261).
LEMMA RecordsPartition ==
    ASSUME NEW r \in Resource
    PROVE  /\ Cardinality(Pods) \in Nat
           /\ Cardinality(InjectedAndRecovered(r)) \in 0..Cardinality(Pods)
           /\ NotRecovered(r) \in 0..Cardinality(Pods)
           /\ Cardinality(InjectedPods(r)) \in 0..Cardinality(Pods)
           /\ NotInjected(r) = {} =>
                 Cardinality(InjectedAndRecovered(r)) + NotRecovered(r)
                    = Cardinality(Pods)
           /\ Cardinality(InjectedAndRecovered(r)) = 0 <=> InjectedAndRecovered(r) = {}
           /\ Cardinality(InjectedAndRecovered(r)) = Cardinality(Pods)
                 <=> InjectedAndRecovered(r) = Pods
<1> DEFINE IR == InjectedAndRecovered(r)
           INR == InjectedNotRecovered(r)
<1>1. IsFiniteSet(Pods)
  BY FiniteAssumption
<1>2. IR \in SUBSET Pods /\ INR \in SUBSET Pods /\ InjectedPods(r) \in SUBSET Pods
  BY DEF InjectedAndRecovered, InjectedNotRecovered, InjectedPods
<1>3. /\ IsFiniteSet(IR) /\ IsFiniteSet(INR)
      /\ Cardinality(IR) <= Cardinality(Pods)
      /\ Cardinality(INR) <= Cardinality(Pods)
      /\ Cardinality(InjectedPods(r)) <= Cardinality(Pods)
      /\ IsFiniteSet(InjectedPods(r))
      /\ Cardinality(Pods) = Cardinality(IR) => Pods = IR
  BY <1>1, <1>2, FS_Subset
<1>4. /\ Cardinality(Pods) \in Nat /\ Cardinality(IR) \in Nat
      /\ Cardinality(INR) \in Nat /\ Cardinality(InjectedPods(r)) \in Nat
  BY <1>1, <1>3, FS_CardinalityType
<1>5. Cardinality(IR) = 0 <=> IR = {}
  BY <1>3, FS_EmptySet
<1>6. ASSUME NotInjected(r) = {}
      PROVE  Cardinality(IR) + Cardinality(INR) = Cardinality(Pods)
  <2>1. IR \cup INR = Pods /\ IR \cap INR = {}
    BY <1>6 DEF NotInjected, InjectedAndRecovered, InjectedNotRecovered
  <2>2. Cardinality(IR \cup INR)
           = Cardinality(IR) + Cardinality(INR) - Cardinality(IR \cap INR)
    BY <1>3, FS_Union
  <2>3. Cardinality(IR \cap INR) = 0
    BY <2>1, FS_EmptySet
  <2>4. Cardinality(IR \cup INR) = Cardinality(Pods)
    BY <2>1
  <2> HIDE DEF IR, INR
  <2> QED
    BY <2>2, <2>3, <2>4, <1>4
<1> HIDE DEF IR, INR
<1> QED
  BY <1>3, <1>4, <1>5, <1>6 DEF IR, INR, NotRecovered

\* What getFaultRecords makes of a session is one.
LEMMA RecordsReadType ==
    ASSUME NEW f \in AllFaults, NEW s \in Session, NEW r \in Resource,
           NEW labelsOk \in BOOLEAN
    PROVE  /\ PodsPopulated(f, s, r, labelsOk) \in Session
           /\ RecordsRead(f, s, r, labelsOk) \in Session
<1>1. ExpectedMissing(f, s, r) \in 0..Cardinality(Pods)
  BY RecordsPartition DEF ExpectedMissing, Session
<1>2. [p \in InjectedPods(r) |-> ExpectedMissing(f, s, r) > 0]
         \in UNION {[S -> BOOLEAN] : S \in SUBSET Pods}
  <2> DEFINE S == InjectedPods(r)
             e == ExpectedMissing(f, s, r) > 0
  <2>1. e \in BOOLEAN
    OBVIOUS
  <2>2. S \in SUBSET Pods
    BY DEF InjectedPods
  <2> HIDE DEF S, e
  <2>3. [p \in S |-> e] \in [S -> BOOLEAN]
    BY <2>1
  <2>4. [S -> BOOLEAN] \in {[T -> BOOLEAN] : T \in SUBSET Pods}
    BY <2>2
  <2>5. [p \in S |-> e] \in UNION {[T -> BOOLEAN] : T \in SUBSET Pods}
    BY <2>3, <2>4
  <2> QED
    BY <2>5 DEF S, e
<1>3. PodsPopulated(f, s, r, labelsOk) \in Session
  BY <1>1, <1>2 DEF PodsPopulated, Session
<1> QED
  BY <1>3 DEF RecordsRead, SelectionChecked, Session

\* Noting failures keeps everything of the session but its failing pods.
LEMMA SessionAfterFields ==
    ASSUME NEW f \in AllFaults, NEW s \in Session, NEW r \in Resource,
           NEW labelsOk \in BOOLEAN
    PROVE  LET t == SessionAfter(f, s, r, labelsOk)
           IN  /\ t \in Session
               /\ t.targetSelectionCompleted =
                     (s.targetSelectionCompleted \/ r.condition = "True")
               /\ t.checkedForMissingPods =
                     (s.checkedForMissingPods \/ Populates(s, r))
               /\ ~(Populates(s, r) /\ ~s.checkedForMissingPods) =>
                     /\ t.podsExpectedMissing = s.podsExpectedMissing
                     /\ t.podsUnderTest = s.podsUnderTest
               /\ Populates(s, r) /\ ~s.checkedForMissingPods =>
                     /\ t.podsExpectedMissing = ExpectedMissing(f, s, r)
                     /\ t.podsUnderTest =
                          IF PopulationFails(f, s, r, labelsOk) THEN s.podsUnderTest
                          ELSE [p \in InjectedPods(r) |-> ExpectedMissing(f, s, r) > 0]
               /\ s.podsFailingRecovery \subseteq t.podsFailingRecovery
<1>3. PodsPopulated(f, s, r, labelsOk) \in Session
  BY RecordsReadType
<1>4. RecordsRead(f, s, r, labelsOk) \in Session
  BY RecordsReadType
<1>5. UNION {r.records[p].failures : p \in InjectedNotRecovered(r)} \in SUBSET Messages
  <2>1. \A p \in Pods : r.records[p].failures \subseteq Messages
    BY DEF Resource, Record
  <2>2. InjectedNotRecovered(r) \subseteq Pods
    BY DEF InjectedNotRecovered
  <2> QED
    BY <2>1, <2>2
<1>6. SessionAfter(f, s, r, labelsOk) \in Session
  BY <1>4, <1>5 DEF SessionAfter, FailuresNoted, Session
<1> DEFINE t == SessionAfter(f, s, r, labelsOk)
           q == RecordsRead(f, s, r, labelsOk)
<1>7. /\ t.targetSelectionCompleted = q.targetSelectionCompleted
      /\ t.checkedForMissingPods = q.checkedForMissingPods
      /\ t.podsExpectedMissing = q.podsExpectedMissing
      /\ t.podsUnderTest = q.podsUnderTest
      /\ q.podsFailingRecovery \subseteq t.podsFailingRecovery
  BY <1>4 DEF SessionAfter, FailuresNoted, Session
<1>8. /\ q.targetSelectionCompleted =
            (s.targetSelectionCompleted \/ r.condition = "True")
      /\ q.checkedForMissingPods = (s.checkedForMissingPods \/ Populates(s, r))
      /\ q.podsFailingRecovery = s.podsFailingRecovery
  BY <1>3 DEF RecordsRead, SelectionChecked, PodsPopulated, Session
<1>9. ~(Populates(s, r) /\ ~s.checkedForMissingPods) =>
         /\ q.podsExpectedMissing = s.podsExpectedMissing
         /\ q.podsUnderTest = s.podsUnderTest
  BY DEF RecordsRead, SelectionChecked, PodsPopulated, Session
<1>10. ASSUME Populates(s, r), ~s.checkedForMissingPods
       PROVE  /\ q.podsExpectedMissing = ExpectedMissing(f, s, r)
              /\ q.podsUnderTest =
                   IF PopulationFails(f, s, r, labelsOk) THEN s.podsUnderTest
                   ELSE [p \in InjectedPods(r) |-> ExpectedMissing(f, s, r) > 0]
  BY <1>10 DEF RecordsRead, SelectionChecked, PodsPopulated, Session
<1> HIDE DEF t, q
<1>11. t \in Session
  BY <1>6 DEF t
<1> QED
  BY <1>7, <1>8, <1>9, <1>10, <1>11 DEF t

\* A status past "Starting" has every target injected; "Stopping" has one that
\* recovered; "Completed" accounts for every record.
LEMMA StatusOfFacts ==
    ASSUME NEW s \in Session, NEW r \in Resource
    PROVE  /\ StatusOf(s, r) \in Statuses \ {"Error"}
           /\ StatusOf(s, r) # "Starting" => NotInjected(r) = {}
           /\ StatusOf(s, r) = "Stopping" => InjectedAndRecovered(r) # {}
           /\ StatusOf(s, r) = "Completed" =>
                 Accounted(s, r) = Cardinality(Pods)
  BY DEF StatusOf, Statuses

\* The panic needs a failed recovery, or missing pods among recovered ones.
LEMMA NoFailureNoPanic ==
    ASSUME NEW s \in Session, NEW r \in Resource,
           s.podsFailingRecovery = {},
           s.podsExpectedMissing = 0 \/ InjectedAndRecovered(r) = {}
    PROVE  StatusOf(s, r) # "Panic"
<1>1. Cardinality(s.podsFailingRecovery) = 0
  BY FS_EmptySet
<1>2. s.podsExpectedMissing \in 0..Cardinality(Pods)
  BY DEF Session
<1> QED
  BY <1>1, <1>2, RecordsPartition DEF StatusOf, Accounted

\* The failures on the books and the pods expected missing can be counted.
LEMMA BooksAreFinite ==
    ASSUME NEW s \in Session
    PROVE  /\ IsFiniteSet(s.podsFailingRecovery)
           /\ Cardinality(s.podsFailingRecovery) \in Nat
           /\ s.podsExpectedMissing \in Nat
<1>1. IsFiniteSet(s.podsFailingRecovery)
  BY FiniteAssumption, FS_Subset DEF Session
<1>2. Cardinality(s.podsFailingRecovery) \in Nat
  BY <1>1, FS_CardinalityType
<1> QED
  BY <1>1, <1>2 DEF Session

-----------------------------------------------------------------------------
(* The steps of Chaos Mesh                                                 *)

\* The records of a new resource are sane, and a new session is sound.
LEMMA NewIsSane ==
    ASSUME NEW f \in AllFaults
    PROVE  /\ NewResource \in Resource /\ NewSession \in Session
           /\ SaneRecords(f, NewResource)
           /\ \A r : SoundSession(f, r, NewSession)
<1>1. NewRecord \in Record BY DEF NewRecord, Record
<1>2. NewResource \in Resource BY <1>1 DEF NewResource, Resource
<1>3. SaneRecords(f, NewResource) BY DEF NewResource, NewRecord, SaneRecords
<1>4. NewSession \in Session
  <2>1. Cardinality(Pods) \in Nat BY FiniteAssumption, FS_CardinalityType
  <2>2. NoPods \in [{} -> BOOLEAN] BY DEF NoPods
  <2>3. [{} -> BOOLEAN] \in {[S -> BOOLEAN] : S \in SUBSET Pods} OBVIOUS
  <2>4. NoPods \in UNION {[S -> BOOLEAN] : S \in SUBSET Pods} BY <2>2, <2>3
  <2> QED BY <2>1, <2>4 DEF NewSession, Session
<1>5. DOMAIN NoPods = {} BY DEF NoPods
<1>6. \A r : SoundSession(f, r, NewSession) BY <1>5 DEF NewSession, SoundSession
<1> QED BY <1>2, <1>3, <1>4, <1>6

\* A step on one record that keeps it sane and takes nothing back.
LEMMA RecordStep ==
    ASSUME NEW f \in AllFaults, NEW r \in Resource, SaneRecords(f, r),
           NEW p \in Pods, NEW c \in Record,
           NEW t, t = [r EXCEPT !.records = [@ EXCEPT ![p] = c]],
           c.recoveredCount <= c.injectedCount,
           c.phase = "Injected" <=> c.injectedCount = 1 /\ c.recoveredCount = 0,
           r.desired = "Run" => c.recoveredCount = 0 /\ c.failures = {},
           r.records[p].injectedCount <= c.injectedCount,
           r.records[p].recoveredCount <= c.recoveredCount,
           r.records[p].failures \subseteq c.failures
    PROVE  t \in Resource /\ SaneRecords(f, t) /\ GoesForward(r, t)
<1>2. /\ t \in Resource
      /\ t.desired = r.desired
      /\ t.condition = r.condition
      /\ t.recordsPresent = r.recordsPresent
  BY DEF Resource
<1>3. \A q \in Pods : t.records[q] = IF q = p THEN c ELSE r.records[q]
  BY DEF Resource
<1>4. \A q \in Pods :
        /\ r.records[q].injectedCount \in 0..1
        /\ r.records[q].recoveredCount \in 0..1
        /\ t.records[q].injectedCount \in 0..1
        /\ t.records[q].recoveredCount \in 0..1
  <2>1. \A q \in Pods : r.records[q] \in Record /\ t.records[q] \in Record
    BY <1>2 DEF Resource
  <2> QED BY <2>1 DEF Record
<1>5. \A q \in Pods :
        /\ r.records[q].injectedCount <= t.records[q].injectedCount
        /\ r.records[q].recoveredCount <= t.records[q].recoveredCount
        /\ r.records[q].failures \subseteq t.records[q].failures
  <2> SUFFICES ASSUME NEW q \in Pods
               PROVE  /\ r.records[q].injectedCount <= t.records[q].injectedCount
                      /\ r.records[q].recoveredCount <= t.records[q].recoveredCount
                      /\ r.records[q].failures \subseteq t.records[q].failures
    OBVIOUS
  <2>1. CASE q = p BY <2>1, <1>3
  <2>2. CASE q # p
    <3>1. t.records[q] = r.records[q] BY <2>2, <1>3
    <3> QED BY <3>1, <1>4
  <2> QED BY <2>1, <2>2
<1>6. SaneRecords(f, t) BY <1>2, <1>3 DEF SaneRecords
<1>7. NotInjected(t) \subseteq NotInjected(r) BY <1>4, <1>5 DEF NotInjected
<1>8. InjectedAndRecovered(r) \subseteq InjectedAndRecovered(t)
  <2>1. \A q \in Pods : t.records[q].recoveredCount <= t.records[q].injectedCount
    BY <1>6 DEF SaneRecords
  <2> QED BY <1>4, <1>5, <2>1 DEF InjectedAndRecovered
<1> QED BY <1>2, <1>5, <1>6, <1>7, <1>8 DEF GoesForward

\* What an injection, a recovery and a failed one do to their record.
LEMMA InjectedRecord ==
    ASSUME NEW f \in AllFaults, NEW r \in Resource, SaneRecords(f, r),
           NEW p \in Pods, CanInject(r, p)
    PROVE  /\ Injected(r, p) \in Resource /\ SaneRecords(f, Injected(r, p))
           /\ GoesForward(r, Injected(r, p))
<1> DEFINE c == [r.records[p] EXCEPT !.phase = "Injected", !.injectedCount = 1]
<1>1. r.records[p] \in Record BY DEF Resource
<1>2. /\ c \in Record
      /\ c.phase = "Injected" /\ c.injectedCount = 1
      /\ c.recoveredCount = r.records[p].recoveredCount
      /\ c.failures = r.records[p].failures
  <2>1. 1 \in 0..1 OBVIOUS
  <2>2. c \in Record BY <1>1, <2>1 DEF Record
  <2> QED BY <1>1, <2>2 DEF Record
<1>3. r.records[p].injectedCount = 0 /\ r.desired = "Run" BY DEF CanInject
<1>4. r.records[p].recoveredCount = 0 /\ r.records[p].failures = {}
  BY <1>3 DEF SaneRecords
<1>5. Injected(r, p) = [r EXCEPT !.records = [@ EXCEPT ![p] = c]]
  BY DEF Injected, Resource, Record
<1> HIDE DEF c
<1>6. /\ c.recoveredCount <= c.injectedCount
      /\ c.phase = "Injected" <=> c.injectedCount = 1 /\ c.recoveredCount = 0
      /\ r.desired = "Run" => c.recoveredCount = 0 /\ c.failures = {}
      /\ r.records[p].injectedCount <= c.injectedCount
      /\ r.records[p].recoveredCount <= c.recoveredCount
      /\ r.records[p].failures \subseteq c.failures
  BY <1>2, <1>3, <1>4
<1> QED BY <1>2, <1>5, <1>6, RecordStep

LEMMA RecoveredRecord ==
    ASSUME NEW f \in AllFaults, NEW r \in Resource, SaneRecords(f, r),
           NEW p \in Pods, CanRecover(r, p)
    PROVE  /\ Recovered(r, p) \in Resource /\ SaneRecords(f, Recovered(r, p))
           /\ GoesForward(r, Recovered(r, p))
<1> DEFINE c == [r.records[p] EXCEPT !.phase = "NotInjected",
                     !.recoveredCount = r.records[p].injectedCount]
<1>1. r.records[p] \in Record BY DEF Resource
<1>2. r.records[p].phase = "Injected" /\ r.desired # "Run" BY DEF CanRecover
<1>3. r.records[p].injectedCount = 1 /\ r.records[p].recoveredCount = 0
  BY <1>2 DEF SaneRecords
<1>4. c \in Record BY <1>1, <1>3 DEF Record
<1>5. /\ c.phase = "NotInjected" /\ c.injectedCount = 1 /\ c.recoveredCount = 1
      /\ c.failures = r.records[p].failures
  BY <1>1, <1>3 DEF Record
<1>6. Recovered(r, p) = [r EXCEPT !.records = [@ EXCEPT ![p] = c]]
  BY DEF Recovered, Resource, Record
<1> HIDE DEF c
<1>7. /\ c.recoveredCount <= c.injectedCount
      /\ c.phase = "Injected" <=> c.injectedCount = 1 /\ c.recoveredCount = 0
      /\ r.desired = "Run" => c.recoveredCount = 0 /\ c.failures = {}
      /\ r.records[p].injectedCount <= c.injectedCount
      /\ r.records[p].recoveredCount <= c.recoveredCount
      /\ r.records[p].failures \subseteq c.failures
  BY <1>2, <1>3, <1>5
<1> QED BY <1>4, <1>6, <1>7, RecordStep

LEMMA FailedRecord ==
    ASSUME NEW f \in AllFaults, NEW r \in Resource, SaneRecords(f, r),
           NEW p \in Pods, NEW m \in Messages, CanRecover(r, p)
    PROVE  /\ RecoveryFailed(r, p, m) \in Resource
           /\ SaneRecords(f, RecoveryFailed(r, p, m))
           /\ GoesForward(r, RecoveryFailed(r, p, m))
<1> DEFINE c == [r.records[p] EXCEPT !.failures = @ \cup {m}]
<1>1. r.records[p] \in Record /\ r.desired # "Run" BY DEF Resource, CanRecover
<1>2. /\ c \in Record
      /\ c.phase = r.records[p].phase
      /\ c.injectedCount = r.records[p].injectedCount
      /\ c.recoveredCount = r.records[p].recoveredCount
      /\ r.records[p].failures \subseteq c.failures
  BY <1>1 DEF Record
<1>3. RecoveryFailed(r, p, m) = [r EXCEPT !.records = [@ EXCEPT ![p] = c]]
  BY DEF RecoveryFailed, Resource, Record
<1> HIDE DEF c
<1>4. /\ c.recoveredCount <= c.injectedCount
      /\ c.phase = "Injected" <=> c.injectedCount = 1 /\ c.recoveredCount = 0
      /\ r.desired = "Run" => c.recoveredCount = 0 /\ c.failures = {}
  BY <1>1, <1>2 DEF SaneRecords
<1>5. /\ r.records[p].injectedCount \in 0..1 /\ r.records[p].recoveredCount \in 0..1
  BY <1>1 DEF Record
<1>6. /\ r.records[p].injectedCount <= c.injectedCount
      /\ r.records[p].recoveredCount <= c.recoveredCount
  BY <1>2, <1>5
<1> QED BY <1>2, <1>3, <1>4, <1>6, RecordStep

\* Chaos Mesh never takes an injection, a recovery or a failure back.
LEMMA MovesGoForward ==
    ASSUME NEW f \in AllFaults, NEW r \in Resource, SaneRecords(f, r),
           NEW t, ChaosMoves(f, r, t)
    PROVE  t \in Resource /\ SaneRecords(f, t) /\ GoesForward(r, t)
<1>1. CASE CanSelect(r) /\ t = Selected(r)
  BY <1>1 DEF Selected, SaneRecords, GoesForward, Resource, NotInjected, InjectedAndRecovered
<1>2. CASE CanSetConditions(r) /\ t = ConditionsSet(r)
  BY <1>2 DEF ConditionsSet, CurrentCondition, SaneRecords, GoesForward, Resource,
     NotInjected, InjectedAndRecovered
<1>3. CASE CanElapse(f, r) /\ t = Elapsed(r)
  BY <1>3 DEF CanElapse, Elapsed, SaneRecords, GoesForward, Resource, NotInjected,
     InjectedAndRecovered, AllFaults
<1> QED
  BY <1>1, <1>2, <1>3, InjectedRecord, RecoveredRecord, FailedRecord DEF ChaosMoves

\* A session stays sound while its resource goes forward.
LEMMA SoundnessStays ==
    ASSUME NEW f, NEW r, NEW t, NEW s, GoesForward(r, t), SoundSession(f, r, s)
    PROVE  SoundSession(f, t, s)
BY DEF GoesForward, SoundSession

-----------------------------------------------------------------------------
(* GetStatus                                                               *)

\* What one call leaves in the session.
LEMMA PollKeepsSound ==
    ASSUME NEW f \in AllFaults, NEW r \in Resource, NEW s \in Session,
           SaneRecords(f, r), SoundSession(f, r, s), NEW labelsOk \in BOOLEAN,
           NEW t, t = SessionAfter(f, s, r, labelsOk)
    PROVE  /\ t \in Session /\ SoundSession(f, r, t)
           /\ s.podsFailingRecovery \subseteq t.podsFailingRecovery
           /\ s.checkedForMissingPods =>
                 /\ t.checkedForMissingPods
                 /\ t.podsExpectedMissing = s.podsExpectedMissing
           /\ ~GetStatusFails(f, s, r, labelsOk) /\ r.recordsPresent
                 => t.checkedForMissingPods
<1> DEFINE first == Populates(s, r) /\ ~s.checkedForMissingPods
           missing == ExpectedMissing(f, s, r)
           injected == InjectedPods(r)
<1>1. /\ t \in Session
      /\ t.targetSelectionCompleted = (s.targetSelectionCompleted \/ r.condition = "True")
      /\ t.checkedForMissingPods = (s.checkedForMissingPods \/ Populates(s, r))
      /\ ~first => /\ t.podsExpectedMissing = s.podsExpectedMissing
                   /\ t.podsUnderTest = s.podsUnderTest
      /\ first => /\ t.podsExpectedMissing = missing
                  /\ t.podsUnderTest =
                       IF PopulationFails(f, s, r, labelsOk) THEN s.podsUnderTest
                       ELSE [p \in injected |-> missing > 0]
      /\ s.podsFailingRecovery \subseteq t.podsFailingRecovery
  BY SessionAfterFields
<1>2. missing > 0 => f.podKill BY DEF ExpectedMissing, SoundSession
<1>3. /\ s.targetSelectionCompleted \in BOOLEAN /\ s.checkedForMissingPods \in BOOLEAN
      /\ t.checkedForMissingPods \in BOOLEAN /\ f.podKill \in BOOLEAN
  BY <1>1 DEF Session, AllFaults
<1>4. ~s.targetSelectionCompleted /\ r.condition = "True" => Populates(s, r)
  BY DEF SaneRecords, Populates, TargetsSelected
<1>5. t.targetSelectionCompleted => t.checkedForMissingPods
  BY <1>1, <1>3, <1>4 DEF SoundSession
<1>6. ~t.checkedForMissingPods => DOMAIN t.podsUnderTest = {}
  BY <1>1, <1>3 DEF SoundSession
<1>7. t.podsExpectedMissing > 0 => f.podKill
  <2>1. CASE first BY <1>1, <1>2, <2>1
  <2>2. CASE ~first BY <1>1, <2>2 DEF SoundSession
  <2> QED BY <2>1, <2>2
<1>8. \A m \in t.podsFailingRecovery : \E p \in Pods : m \in r.records[p].failures
  <2>1. RecordsRead(f, s, r, labelsOk).podsFailingRecovery = s.podsFailingRecovery
    BY DEF RecordsRead, SelectionChecked, PodsPopulated, Session
  <2>2. t.podsFailingRecovery \subseteq s.podsFailingRecovery
            \cup UNION {r.records[p].failures : p \in InjectedNotRecovered(r)}
    <3> DEFINE q == RecordsRead(f, s, r, labelsOk)
    <3>1. q \in Session BY RecordsReadType
    <3>2. t = q \/ t = FailuresNoted(q, r) BY DEF SessionAfter
    <3> HIDE DEF q
    <3>3. t = FailuresNoted(q, r) => t.podsFailingRecovery = q.podsFailingRecovery
            \cup UNION {r.records[p].failures : p \in InjectedNotRecovered(r)}
      BY <3>1 DEF FailuresNoted, Session
    <3> QED BY <2>1, <3>2, <3>3 DEF q
  <2>3. InjectedNotRecovered(r) \subseteq Pods BY DEF InjectedNotRecovered
  <2> QED BY <2>2, <2>3 DEF SoundSession
<1>9. /\ DOMAIN t.podsUnderTest \cap NotInjected(r) = {}
      /\ \A p \in DOMAIN t.podsUnderTest : t.podsUnderTest[p] = f.podKill
      /\ DOMAIN t.podsUnderTest # {} /\ f.podKill =>
            t.podsExpectedMissing = Cardinality(DOMAIN t.podsUnderTest)
  <2>1. CASE ~first BY <1>1, <2>1 DEF SoundSession
  <2>2. CASE first /\ PopulationFails(f, s, r, labelsOk)
    <3>1. DOMAIN t.podsUnderTest = {} BY <1>1, <2>2 DEF SoundSession
    <3> QED BY <3>1
  <2>3. CASE first /\ ~PopulationFails(f, s, r, labelsOk)
    <3>1. t.podsUnderTest = [p \in injected |-> missing > 0] BY <1>1, <2>3
    <3>2. DOMAIN t.podsUnderTest = injected BY <3>1
    <3>3. injected \cap NotInjected(r) = {} BY DEF InjectedPods, NotInjected, SaneRecords
    <3>4. injected # {} /\ f.podKill => missing = Cardinality(injected)
      BY <2>3 DEF ExpectedMissing, PopulationFails
    <3>5. injected # {} => Cardinality(injected) > 0
      <4>1. IsFiniteSet(injected) BY FiniteAssumption, FS_Subset DEF InjectedPods
      <4>2. Cardinality(injected) \in Nat BY <4>1, FS_CardinalityType
      <4>3. Cardinality(injected) = 0 <=> injected = {} BY <4>1, FS_EmptySet
      <4> QED BY <4>2, <4>3
    <3>6. \A p \in injected : t.podsUnderTest[p] = f.podKill
      <4>1. injected # {} => ((missing > 0) = f.podKill) BY <1>2, <1>3, <3>4, <3>5
      <4> QED BY <3>1, <4>1
    <3>7. t.podsExpectedMissing = missing BY <1>1, <2>3
    <3> QED BY <3>2, <3>3, <3>4, <3>6, <3>7
  <2> QED BY <2>1, <2>2, <2>3
<1>10. ~GetStatusFails(f, s, r, labelsOk) /\ r.recordsPresent => t.checkedForMissingPods
  BY <1>1, <1>3 DEF GetStatusFails, SelectionUnreadable, Populates, TargetsSelected,
     SoundSession
<1>11. SoundSession(f, r, t)
  <2> HIDE DEF first, missing, injected
  <2> QED BY <1>5, <1>6, <1>7, <1>8, <1>9 DEF SoundSession
<1>12. s.checkedForMissingPods => /\ t.checkedForMissingPods
                                  /\ t.podsExpectedMissing = s.podsExpectedMissing
  BY <1>1, <1>3
<1> QED BY <1>1, <1>10, <1>11, <1>12

\* What a status is worth when it is returned.
LEMMA StatusIsWorth ==
    ASSUME NEW f \in AllFaults, NEW r \in Resource, NEW s \in Session,
           SaneRecords(f, r), SoundSession(f, r, s), NEW labelsOk \in BOOLEAN,
           NEW t, t = SessionAfter(f, s, r, labelsOk),
           NEW status, status = StatusAfter(f, s, r, labelsOk),
           ~GetStatusFails(f, s, r, labelsOk)
    PROVE  /\ status \in Statuses \ {"Error"}
           /\ status # "Starting" => r.recordsPresent /\ NotInjected(r) = {}
           /\ status = "Stopping" => InjectedAndRecovered(r) # {}
           /\ (status = "Completed" /\ t.podsFailingRecovery = {}) =>
                 IF f.podKill THEN t.podsExpectedMissing = Cardinality(Pods)
                              ELSE InjectedAndRecovered(r) = Pods
           /\ status = "Completed" => Accounted(t, r) = Cardinality(Pods)
           /\ status = "Panic" => t.podsFailingRecovery # {}
<1>1. t \in Session /\ SoundSession(f, r, t) BY PollKeepsSound
<1>2. CASE ~r.recordsPresent BY <1>2 DEF StatusAfter, Statuses
<1>3. CASE r.recordsPresent
  <2>1. status = StatusOf(t, r) BY <1>3 DEF StatusAfter
  <2>2. f.podKill => InjectedAndRecovered(r) = {} BY DEF SaneRecords, InjectedAndRecovered
  <2>3. t.podsExpectedMissing = 0 \/ InjectedAndRecovered(r) = {}
    <3>1. t.podsExpectedMissing \in Nat BY <1>1 DEF Session
    <3> QED BY <1>1, <2>2, <3>1 DEF SoundSession
  <2>4. /\ Cardinality(Pods) \in Nat
        /\ Cardinality(InjectedAndRecovered(r)) \in Nat
        /\ Cardinality(InjectedAndRecovered(r)) = 0 <=> InjectedAndRecovered(r) = {}
        /\ Cardinality(InjectedAndRecovered(r)) = Cardinality(Pods)
              <=> InjectedAndRecovered(r) = Pods
        /\ Cardinality(t.podsFailingRecovery) \in Nat
        /\ t.podsExpectedMissing \in Nat
    BY <1>1, RecordsPartition, BooksAreFinite
  <2>5. ASSUME status = "Completed", t.podsFailingRecovery = {}
        PROVE  IF f.podKill THEN t.podsExpectedMissing = Cardinality(Pods)
                            ELSE InjectedAndRecovered(r) = Pods
    <3>1. Cardinality(t.podsFailingRecovery) = 0 BY <2>5, FS_EmptySet
    <3>2. Cardinality(InjectedAndRecovered(r)) + 0 + t.podsExpectedMissing
             = Cardinality(Pods)
      BY <1>1, <2>1, <2>5, <3>1, StatusOfFacts DEF Accounted
    <3>3. CASE f.podKill BY <2>2, <2>4, <3>2, <3>3
    <3>4. CASE ~f.podKill
      <4>1. t.podsExpectedMissing = 0 BY <1>1, <2>4, <3>4 DEF SoundSession
      <4> QED BY <2>4, <3>2, <3>4, <4>1
    <3> QED BY <3>3, <3>4
  <2>6. status = "Panic" => t.podsFailingRecovery # {}
    BY <1>1, <2>1, <2>3, NoFailureNoPanic
  <2>7. status = "Completed" => Accounted(t, r) = Cardinality(Pods)
    BY <1>1, <2>1, StatusOfFacts
  <2> QED BY <1>1, <1>3, <2>1, <2>5, <2>6, <2>7, StatusOfFacts
<1> QED BY <1>2, <1>3
=============================================================================
