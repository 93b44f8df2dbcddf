--------------------------- MODULE TestExecutor ---------------------------
(***************************************************************************)
(* pkg/test_executor/executor.go: one test's plan run step by step, against*)
(* the faults it creates in Chaos Mesh.                                    *)
(*                                                                         *)
(* The executor is one goroutine; what runs beside it is Chaos Mesh and the*)
(* clock.  Each GetStatus call of its polling loops is one step, as in     *)
(* FaultSession.  Of the clock only the two deadlines of                   *)
(* waitForInjectionCompleted matter; the end of a fault as the executor    *)
(* estimates it (TestEndTime) and as Chaos Mesh decides it are unrelated.  *)
(***************************************************************************)
EXTENDS SessionStatus, Sequences

CONSTANT Plans   \* the test plans considered, sequences of steps

StepTypes == {"injectFault", "waitForFaultCompletion", "waitForDuration"}

\* A step of any other type is refused when it is reached.
Steps ==
    [type : {"injectFault"}, fault : AllFaults]
        \cup [type : (StepTypes \ {"injectFault"}) \cup {"unknown"}]

ASSUME PlansAssumption == Plans \subseteq Seq(Steps)

VARIABLES
    plan,       \* te.planSteps
    step,       \* the position of the step being run
    pc,         \* where the executor is
    faults,     \* the spec of each fault created
    resources,  \* the resource of each fault created, owned by Chaos Mesh
    sessions,   \* te.faultSessions
    statuses,   \* what GetStatus last returned for each session with no error
    deadline,   \* the deadline of waitForInjectionCompleted that has passed
    waitingFor  \* the session runWaitForFaultCompletion has come to

vars == <<plan, step, pc, faults, resources, sessions, statuses, deadline, waitingFor>>

Places == {"step", "injecting", "completing", "recovering", "done", "error", "panic"}
Final == {"done", "error", "panic"}

Init ==
    /\ plan \in Plans
    /\ step = 1
    /\ pc = "step"
    /\ faults = <<>> /\ resources = <<>> /\ sessions = <<>> /\ statuses = <<>>
    /\ deadline = "none"
    /\ waitingFor = 1

-----------------------------------------------------------------------------
(* Chaos Mesh                                                              *)

Becomes(i, r) ==
    /\ resources' = [resources EXCEPT ![i] = r]
    /\ UNCHANGED <<plan, step, pc, faults, sessions, statuses, deadline, waitingFor>>

SelectPods(i) == CanSelect(resources[i]) /\ Becomes(i, Selected(resources[i]))

SetConditions(i) ==
    CanSetConditions(resources[i]) /\ Becomes(i, ConditionsSet(resources[i]))

Inject(i, p) == CanInject(resources[i], p) /\ Becomes(i, Injected(resources[i], p))

Elapse(i) == CanElapse(faults[i], resources[i]) /\ Becomes(i, Elapsed(resources[i]))

Recover(i, p) == CanRecover(resources[i], p) /\ Becomes(i, Recovered(resources[i], p))

FailRecovery(i, p, m) ==
    CanRecover(resources[i], p) /\ Becomes(i, RecoveryFailed(resources[i], p, m))

ChaosMesh ==
    \E i \in DOMAIN resources :
        \/ SelectPods(i)
        \/ SetConditions(i)
        \/ \E p \in Pods : Inject(i, p) \/ Recover(i, p)
        \/ Elapse(i)
        \/ \E p \in Pods, m \in Messages : FailRecovery(i, p, m)

-----------------------------------------------------------------------------
(* The steps of the plan                                                   *)

AtStep(type) == pc = "step" /\ step <= Len(plan) /\ plan[step].type = type

NextStep == pc' = "step" /\ step' = step + 1
Stop(at) == pc' = at /\ UNCHANGED step

\* ChaosClient.StartFault refuses the spec, or Create fails: nothing is created.
StartFaultFails ==
    /\ AtStep("injectFault")
    /\ Stop("error")
    /\ UNCHANGED <<plan, faults, resources, sessions, statuses, deadline, waitingFor>>

CreateFault ==
    /\ faults' = Append(faults, plan[step].fault)
    /\ resources' = Append(resources, NewResource)

\* Mutant: the error is dropped.
NewFaultSessionErrorDropped ==
    /\ AtStep("injectFault")
    /\ CreateFault
    /\ NextStep
    /\ UNCHANGED <<plan, sessions, statuses, deadline, waitingFor>>

\* The resource is created, but NewFaultSession cannot read it back: the fault
\* runs with no session.
NewFaultSessionFails ==
    /\ AtStep("injectFault")
    /\ CreateFault
    /\ Stop("error")
    /\ UNCHANGED <<plan, sessions, statuses, deadline, waitingFor>>

StartFault ==
    /\ AtStep("injectFault")
    /\ CreateFault
    /\ sessions' = Append(sessions, NewSession)
    /\ statuses' = Append(statuses, "Starting")
    /\ deadline' = "none"
    /\ Stop("injecting")
    /\ UNCHANGED <<plan, waitingFor>>

RunWaitForDuration ==
    /\ AtStep("waitForDuration")
    /\ NextStep
    /\ UNCHANGED <<plan, faults, resources, sessions, statuses, deadline, waitingFor>>

UnknownStep ==
    /\ AtStep("unknown")
    /\ Stop("error")
    /\ UNCHANGED <<plan, faults, resources, sessions, statuses, deadline, waitingFor>>

CompletePlan ==
    /\ pc = "step" /\ step > Len(plan)
    /\ Stop("done")
    /\ UNCHANGED <<plan, faults, resources, sessions, statuses, deadline, waitingFor>>

-----------------------------------------------------------------------------
(* GetStatus on session i                                                  *)

StatusOfPoll(i, labelsOk) == StatusAfter(faults[i], sessions[i], resources[i], labelsOk)

Poll(i, labelsOk) ==
    /\ sessions' = [sessions EXCEPT
            ![i] = SessionAfter(faults[i], sessions[i], resources[i], labelsOk)]
    /\ statuses' = [statuses EXCEPT
            ![i] = IF StatusOfPoll(i, labelsOk) = "Error" THEN @
                   ELSE StatusOfPoll(i, labelsOk)]
    /\ UNCHANGED <<plan, faults, resources, deadline>>

-----------------------------------------------------------------------------
(* waitForInjectionCompleted: polls until the fault is in, for ten seconds,*)
(* and for five seconds until its targets are selected.                    *)

\* The clock: five seconds, then ten.
PassDeadline ==
    /\ pc = "injecting"
    /\ \/ deadline = "none" /\ deadline' = "targeting"
       \/ deadline = "targeting" /\ deadline' = "injection"
    /\ UNCHANGED <<plan, step, pc, faults, resources, sessions, statuses, waitingFor>>

\* Mutant: the deadline is only looked at once the targets are selected.
InjectionTimesOutIfSelected ==
    /\ pc = "injecting" /\ deadline = "injection"
    /\ sessions[Len(sessions)].targetSelectionCompleted
    /\ Stop("error")
    /\ UNCHANGED <<plan, faults, resources, sessions, statuses, deadline, waitingFor>>

InjectionTimesOut ==
    /\ pc = "injecting" /\ deadline = "injection"
    /\ Stop("error")
    /\ UNCHANGED <<plan, faults, resources, sessions, statuses, deadline, waitingFor>>

\* The targets are still not selected when the grace period for it is over.
TargetingOverdue(i) ==
    ~sessions'[i].targetSelectionCompleted /\ deadline = "targeting"

PollInjection(labelsOk) ==
    LET i == Len(sessions)
        status == StatusOfPoll(i, labelsOk)
    IN  /\ pc = "injecting" /\ deadline # "injection"
        /\ Poll(i, labelsOk)
        /\ UNCHANGED waitingFor
        /\ \/ status \in {"InProgress", "Stopping", "Completed"} /\ NextStep
           \/ status = "Starting" /\ TargetingOverdue(i) /\ Stop("error")
           \/ status = "Starting" /\ ~TargetingOverdue(i) /\ Stop(pc)
           \/ status = "Error" /\ Stop(pc)
           \/ status = "Panic" /\ Stop("panic")

\* The Get of the resource fails: the loop sleeps and tries again.  (Nothing
\* changes but the clock, which is PassDeadline.)

-----------------------------------------------------------------------------
(* runWaitForFaultCompletion: for every session, sleep until its           *)
(* TestEndTime, then waitForFaultRecovery polls until it has completed.    *)

\* Mutant: starts one session too early.
RunWaitFromNone ==
    /\ AtStep("waitForFaultCompletion")
    /\ waitingFor' = 0
    /\ Stop("completing")
    /\ UNCHANGED <<plan, faults, resources, sessions, statuses, deadline>>

RunWaitForFaultCompletion ==
    /\ AtStep("waitForFaultCompletion")
    /\ waitingFor' = 1
    /\ Stop("completing")
    /\ UNCHANGED <<plan, faults, resources, sessions, statuses, deadline>>

AllWaitedFor ==
    /\ pc = "completing" /\ waitingFor > Len(sessions)
    /\ NextStep
    /\ UNCHANGED <<plan, faults, resources, sessions, statuses, deadline, waitingFor>>

\* A fault without a duration has no TestEndTime to dereference.
SleepUntilEnd ==
    /\ pc = "completing" /\ waitingFor <= Len(sessions)
    /\ IF faults[waitingFor].duration THEN Stop("recovering") ELSE Stop("panic")
    /\ UNCHANGED <<plan, faults, resources, sessions, statuses, deadline, waitingFor>>

\* Mutant: a fault that is stopping is taken for one that has stopped.
PollRecoveryStoppingIsEnough(labelsOk) ==
    LET status == StatusOfPoll(waitingFor, labelsOk)
    IN  /\ pc = "recovering"
        /\ Poll(waitingFor, labelsOk)
        /\ waitingFor' = waitingFor + 1
        /\ Stop("completing")
        /\ status \in {"Stopping", "Completed"}

PollRecovery(labelsOk) ==
    LET status == StatusOfPoll(waitingFor, labelsOk)
    IN  /\ pc = "recovering"
        /\ Poll(waitingFor, labelsOk)
        /\ waitingFor' = IF status = "Completed" THEN waitingFor + 1 ELSE waitingFor
        /\ \/ status = "Completed" /\ Stop("completing")
           \/ status \in {"InProgress", "Stopping"} /\ Stop(pc)
           \/ status \in {"Starting", "Error"} /\ Stop("error")
           \/ status = "Panic" /\ Stop("panic")

\* Any failed call ends the wait, and the plan with it.
RecoveryUnreachable ==
    /\ pc = "recovering"
    /\ Stop("error")
    /\ UNCHANGED <<plan, faults, resources, sessions, statuses, deadline, waitingFor>>

-----------------------------------------------------------------------------

RunTestPlan ==
    \/ StartFaultFails \/ NewFaultSessionFails \/ StartFault
    \/ RunWaitForDuration \/ UnknownStep \/ CompletePlan
    \/ PassDeadline \/ InjectionTimesOut
    \/ \E labelsOk \in BOOLEAN : PollInjection(labelsOk)
    \/ RunWaitForFaultCompletion \/ AllWaitedFor \/ SleepUntilEnd
    \/ \E labelsOk \in BOOLEAN : PollRecovery(labelsOk)
    \/ RecoveryUnreachable

Next == RunTestPlan \/ ChaosMesh

Spec == Init /\ [][Next]_vars

Failed(r, p) == r.records[p].failures # {}

\* The goroutine keeps running, the clock keeps going and Chaos Mesh reconciles; no
\* failure is ever owed, nor the recovery of a pod that has once failed to recover.
Positions == UNION {DOMAIN s : s \in Plans}

Fairness ==
    /\ WF_vars(StartFault) /\ WF_vars(RunWaitForDuration) /\ WF_vars(UnknownStep)
    /\ WF_vars(CompletePlan)
    /\ WF_vars(PassDeadline) /\ WF_vars(InjectionTimesOut)
    /\ WF_vars(RunWaitForFaultCompletion) /\ WF_vars(AllWaitedFor)
    /\ WF_vars(SleepUntilEnd) /\ WF_vars(PollRecovery(TRUE))
    /\ \A i \in Positions :
          LET created == i \in DOMAIN resources
          IN  /\ WF_vars(created /\ SelectPods(i))
              /\ WF_vars(created /\ SetConditions(i))
              /\ WF_vars(created /\ Elapse(i))
              /\ \A p \in Pods :
                    /\ WF_vars(created /\ Inject(i, p))
                    /\ WF_vars(created /\ ~ Failed(resources[i], p) /\ Recover(i, p))

FairSpec == Spec /\ Fairness

-----------------------------------------------------------------------------
(* GetPodsUnderTest: the pods of all sessions, each as the first session   *)
(* that has it describes it.  The merge of ExpectDeath in the code is done *)
(* on copies that are not the pods returned, so that a pod faulted first   *)
(* and killed later is reported as one that should live.                   *)

PodsOf(i) == DOMAIN sessions[i].podsUnderTest

\* Mutant: every pod is expected to die once any session kills one.
DeathIfAnySessionKills ==
    [p \in UNION {PodsOf(i) : i \in DOMAIN sessions} |->
        \E i \in DOMAIN sessions : \E q \in PodsOf(i) : sessions[i].podsUnderTest[q]]

GetPodsUnderTest ==
    [p \in UNION {PodsOf(i) : i \in DOMAIN sessions} |->
        LET first == CHOOSE i \in DOMAIN sessions :
                        /\ p \in PodsOf(i)
                        /\ \A j \in 1..(i - 1) : p \notin PodsOf(j)
        IN  sessions[first].podsUnderTest[p]]

-----------------------------------------------------------------------------
(* Properties                                                              *)

\* Every variable has its type; there is a session, or at the end of a plan that
\* failed none, for each resource.
TypeOK ==
    /\ plan \in Plans
    /\ step \in 1..(Len(plan) + 1)
    /\ pc \in Places
    /\ faults \in Seq(AllFaults)
    /\ resources \in Seq(Resource) /\ Len(resources) = Len(faults)
    /\ sessions \in Seq(Session)
    /\ statuses \in Seq(Statuses \ {"Error"}) /\ Len(statuses) = Len(sessions)
    /\ Len(sessions) <= Len(resources)
    /\ deadline \in {"none", "targeting", "injection"}
    /\ waitingFor \in 1..(Len(sessions) + 1)

\* A pod reported as under test was injected by a fault of the plan that says the
\* same of its death (executor.go:70-99).
ReportedPodsFaulted ==
    pc = "done" => \A p \in DOMAIN GetPodsUnderTest :
                      \E i \in DOMAIN sessions :
                          /\ p \in PodsOf(i)
                          /\ p \notin NotInjected(resources[i])
                          /\ GetPodsUnderTest[p] = faults[i].podKill

\* waitForInjectionCompleted returns whatever Chaos Mesh and the API do: it has a
\* deadline (executor.go:150-153).
InjectionWaitEnds == pc = "injecting" ~> pc # "injecting"

\* A plan of timed faults ends, unless it waits for ever for a pod that has failed to
\* recover: the wait has no deadline, and reports progress or a stop meanwhile
\* (executor.go:189-213, session.go:268).
WaitsForFailedPod ==
    /\ pc = "recovering"
    /\ \E p \in Pods : /\ Failed(resources[waitingFor], p)
                       /\ p \notin InjectedAndRecovered(resources[waitingFor])
PlanEnds == <>(pc \in Final) \/ <>[]WaitsForFailedPod

-----------------------------------------------------------------------------
(* The executor implements PlanRun.                                        *)

EndsByWaiting == plan # <<>> /\ plan[Len(plan)].type = "waitForFaultCompletion"

Stage(f, r) ==
    IF NotInjected(r) # {} THEN "pending"
    ELSE IF f.podKill \/ ~f.duration THEN "endless"
    ELSE IF \E p \in Pods : Failed(r, p) THEN "failing"
    ELSE IF InjectedAndRecovered(r) = Pods THEN "off"
    ELSE "on"

PlanOfTest == INSTANCE PlanRun WITH
    waits <- EndsByWaiting,
    place <- IF pc \in Final THEN pc ELSE "running",
    faults <- [i \in DOMAIN resources |-> Stage(faults[i], resources[i])]

\* Every step of a test is one of PlanRun, or none (executor.go:27-68, 101-213 against the
\* resources of its faults).
ImplementsPlanRun == PlanOfTest!Spec

=============================================================================
