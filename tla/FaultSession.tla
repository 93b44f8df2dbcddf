--------------------------- MODULE FaultSession ---------------------------
(***************************************************************************)
(* One FaultSession (pkg/chaos-mesh/session.go) polled with GetStatus      *)
(* while Chaos Mesh works on its resource.                                 *)
(*                                                                         *)
(* A GetStatus call is one step, taken when its Get reads the resource:    *)
(* everything it returns is computed from that snapshot, and the resource  *)
(* moves on between two calls.  The Get may fail, and so may the lookup of *)
(* the labels of a pod (a killed pod may be gone by then).                 *)
(***************************************************************************)
EXTENDS SessionStatus

CONSTANT Faults   \* the kinds of fault considered

ASSUME FaultsAssumption == Faults \subseteq AllFaults

VARIABLES
    fault,     \* the spec the session was made from
    resource,  \* the custom resource, owned by Chaos Mesh
    session,   \* the FaultSession
    status,    \* what GetStatus last returned with no error, "Starting" before
    erred      \* whether the last GetStatus returned an error

vars == <<fault, resource, session, status, erred>>

Init ==
    /\ fault \in Faults
    /\ resource = NewResource
    /\ session = NewSession
    /\ status = "Starting"
    /\ erred = FALSE

-----------------------------------------------------------------------------
(* Chaos Mesh                                                              *)

Becomes(r) == resource' = r /\ UNCHANGED <<fault, session, status, erred>>

SelectPods == CanSelect(resource) /\ Becomes(Selected(resource))

SetConditions ==
    CanSetConditions(resource) /\ Becomes(ConditionsSet(resource))

Inject(p) == CanInject(resource, p) /\ Becomes(Injected(resource, p))

Elapse == CanElapse(fault, resource) /\ Becomes(Elapsed(resource))

Recover(p) == CanRecover(resource, p) /\ Becomes(Recovered(resource, p))

FailRecovery(p, m) ==
    CanRecover(resource, p) /\ Becomes(RecoveryFailed(resource, p, m))

-----------------------------------------------------------------------------
(* GetStatus                                                               *)

Running == status # "Panic"

\* Mutant: the error is not looked at and its status is taken as it is.
GetStatusErrorSwallowed(labelsOk) ==
    /\ Running
    /\ session' = SessionAfter(fault, session, resource, labelsOk)
    /\ status' = StatusAfter(fault, session, resource, labelsOk)
    /\ UNCHANGED <<fault, resource, erred>>

GetStatus(labelsOk) ==
    /\ Running
    /\ session' = SessionAfter(fault, session, resource, labelsOk)
    /\ IF GetStatusFails(fault, session, resource, labelsOk)
       THEN erred' = TRUE /\ UNCHANGED status
       ELSE /\ erred' = FALSE
            /\ status' = StatusAfter(fault, session, resource, labelsOk)
    /\ UNCHANGED <<fault, resource>>

\* The Get of the resource fails before anything is looked at.
GetStatusUnreachable ==
    /\ Running
    /\ erred' = TRUE
    /\ UNCHANGED <<fault, resource, session, status>>

Next ==
    \/ SelectPods
    \/ SetConditions
    \/ \E p \in Pods : Inject(p)
    \/ Elapse
    \/ \E p \in Pods : Recover(p)
    \/ \E p \in Pods, m \in Messages : FailRecovery(p, m)
    \/ \E labelsOk \in BOOLEAN : GetStatus(labelsOk)
    \/ GetStatusUnreachable

Spec == Init /\ [][Next]_vars

-----------------------------------------------------------------------------
(* Properties                                                              *)

\* Every variable has its type.
TypeOK ==
    /\ fault \in Faults
    /\ resource \in Resource
    /\ session \in Session
    /\ status \in Statuses \ {"Error"}
    /\ erred \in BOOLEAN

\* A status past "Starting" is never early: once the session has said that the
\* fault is in progress, stopping or completed, every targeted pod has been
\* injected (session.go:263).
ProgressMeansInjected ==
    status \in {"InProgress", "Stopping", "Completed"} => NotInjected(resource) = {}

\* One message per failed pod, and none of a pod that has recovered: a record may have
\* several, keeps them when a later attempt recovers its pod, and the books of the session
\* count messages (session.go:157-176).
FailuresCountPods(r) ==
    \A p \in Pods :
        /\ Cardinality(r.records[p].failures) <= 1
        /\ p \in InjectedAndRecovered(r) => r.records[p].failures = {}

\* "Completed" is true of every pod, not only of a sum: as long as the failures can be
\* told apart by pod, a completed fault has left each of its targets recovered, or with a
\* recovery that failed and is in its record; no other pod still has the fault on.  It
\* stays so while Chaos Mesh goes on, and when two pods fail with one message
\* (session.go:271, over polls that add to the books of line 173).
CompletedMeansRecovered ==
    status = "Completed" /\ ~fault.podKill /\ FailuresCountPods(resource) =>
        \A p \in Pods :
            p \in InjectedAndRecovered(resource) \/ resource.records[p].failures # {}

\* The pods under test were really injected, they are expected to die exactly
\* when the fault kills pods, and the missing pods GetStatus discounts are those
\* (session.go:208-222).
PodsUnderTestSound ==
    LET under == DOMAIN session.podsUnderTest
    IN  /\ under \cap NotInjected(resource) = {}
        /\ \A p \in under : session.podsUnderTest[p] = fault.podKill
        /\ session.podsExpectedMissing > 0 => fault.podKill
        /\ under # {} /\ fault.podKill =>
              session.podsExpectedMissing = Cardinality(under)

\* The panic of session.go:277-279 takes a failed recovery: as long as none has
\* been recorded the four returns above it are exhaustive.
PanicNeedsFailedRecovery ==
    status = "Panic" => session.podsFailingRecovery # {}

\* The statuses go forward: while no recovery has failed, a later poll never
\* reports an earlier phase (session.go:263-276).
StatusGoesForward ==
    [][(session'.podsFailingRecovery = {} /\ status # status')
        => \/ status = "Starting"
           \/ status = "InProgress" /\ status' \in {"Stopping", "Completed"}
           \/ status = "Stopping" /\ status' = "Completed"]_vars

-----------------------------------------------------------------------------
(* The session implements its abstract specification, which promises       *)
(* nothing of a fault that kills its pods or has failed to recover one.    *)

PhaseOf(r) ==
    IF ~r.recordsPresent \/ NotInjected(r) # {} THEN "Starting"
    ELSE IF InjectedAndRecovered(r) = Pods THEN "Completed"
    ELSE IF InjectedAndRecovered(r) = {} THEN "InProgress"
    ELSE "Stopping"

Waived == fault.podKill \/ \E p \in Pods : resource.records[p].failures # {}

Lifecycle ==
    INSTANCE FaultLifecycle WITH phase <- IF Waived THEN "Waived" ELSE PhaseOf(resource),
                                 seen <- IF Waived THEN "Waived" ELSE status

\* What GetStatus reports is the phase of the fault when it was read, up to the first
\* recovery that fails (session.go:233-280 against the records it classifies).
ImplementsLifecycle == Lifecycle!Spec

-----------------------------------------------------------------------------
(* What the documentation and a comment say and the code does not keep.    *)

\* "Once the `duration` has elapsed, it checks all outstanding fault manifests and
\* verifies Chaos Mesh was able to turn off the fault properly" (docs/DOCUMENTATION.md:181):
\* a completed fault is off everywhere, save where a recovery is known to have failed.  A
\* pod that fails and then recovers is counted twice (session.go:271), and covers for one
\* that has the fault on.
CompletedMeansTurnedOff ==
    status = "Completed" /\ ~fault.podKill =>
        \A p \in Pods :
            p \in InjectedAndRecovered(resource) \/ resource.records[p].failures # {}

\* "should be impossible to get here" (session.go:277).
NeverPanics == status # "Panic"
=============================================================================
