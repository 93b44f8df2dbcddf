------------------------- MODULE TestExecutorProofs -------------------------
(***************************************************************************)
(* That a test's plan runs as PlanRun has it, and what the pods it reports *)
(* as under test have been through, for any plans, pods and messages.      *)
(*                                                                         *)
(* The executor polls one session while Chaos Mesh moves every resource on.*)
(* The invariant has each resource and session in a state they can be in   *)
(* (SessionStatusProofs), and says which of the faults the executor knows  *)
(* to be in, and which to be off, at each place of the plan.               *)
(***************************************************************************)
EXTENDS TestExecutor, SessionStatusProofs, WellFoundedInduction

-----------------------------------------------------------------------------
(* The inductive invariant                                                 *)

ResourcesSane == \A i \in DOMAIN resources : SaneRecords(faults[i], resources[i])

SessionsSound ==
    \A i \in DOMAIN sessions : SoundSession(faults[i], resources[i], sessions[i])

EachHasSession == pc # "error" => Len(sessions) = Len(resources)

AtPlace ==
    /\ pc = "injecting" =>
          step <= Len(plan) /\ plan[step].type = "injectFault" /\ resources # <<>>
    /\ pc \in {"completing", "recovering"} =>
          step <= Len(plan) /\ plan[step].type = "waitForFaultCompletion"
    /\ pc = "recovering" => waitingFor <= Len(sessions)

\* Every fault is in but the one that is being injected.
OneAtATime ==
    \A i \in DOMAIN resources :
        \/ pc \in {"step", "completing", "recovering"}
        \/ pc = "injecting" /\ i < Len(resources)
        => NotInjected(resources[i]) = {}

Over(i) == Stage(faults[i], resources[i]) # "on"

\* The faults waited for are not on any more.
WaitedFor ==
    /\ pc \in {"completing", "recovering"} => \A i \in 1 .. (waitingFor - 1) : Over(i)
    /\ pc = "step" /\ step > 1 /\ plan[step - 1].type = "waitForFaultCompletion" =>
          \A i \in DOMAIN resources : Over(i)

IInv ==
    /\ TypeOK
    /\ ResourcesSane /\ SessionsSound /\ EachHasSession
    /\ AtPlace /\ OneAtATime /\ WaitedFor

-----------------------------------------------------------------------------
(* How far one fault has got                                               *)

\* Only an injection injects, while the fault is to run.
LEMMA OnlyInjectionInjects ==
    ASSUME NEW f \in AllFaults, NEW r \in Resource, NEW t, ChaosMoves(f, r, t),
           NotInjected(t) # NotInjected(r)
    PROVE  t.desired = "Run" /\ Pods # {}
<1>1. CASE CanSelect(r) /\ t = Selected(r)
  BY <1>1 DEF Selected, Resource, NotInjected
<1>2. CASE CanSetConditions(r) /\ t = ConditionsSet(r)
  BY <1>2 DEF ConditionsSet, Resource, NotInjected
<1>3. ASSUME NEW p \in Pods, CanInject(r, p), t = Injected(r, p)
      PROVE  t.desired = "Run" /\ Pods # {}
  BY <1>3 DEF CanInject, Injected, Resource
<1>4. CASE CanElapse(f, r) /\ t = Elapsed(r)
  BY <1>4 DEF Elapsed, Resource, NotInjected
<1>5. ASSUME NEW p \in Pods, CanRecover(r, p), t = Recovered(r, p) PROVE FALSE
  BY <1>5 DEF Recovered, Resource, Record, NotInjected
<1>6. ASSUME NEW p \in Pods, NEW m \in Messages, t = RecoveryFailed(r, p, m) PROVE FALSE
  BY <1>6 DEF RecoveryFailed, Resource, Record, NotInjected
<1> QED BY <1>1, <1>2, <1>3, <1>4, <1>5, <1>6 DEF ChaosMoves

\* Only the recovery of a pod that is injected fails.
LEMMA OnlyInjectedFail ==
    ASSUME NEW f \in AllFaults, NEW r \in Resource, NEW t, ChaosMoves(f, r, t),
           NEW q \in Pods, Failed(t, q), ~ Failed(r, q)
    PROVE  \E p \in Pods : r.records[p].phase = "Injected"
<1>1. CASE CanSelect(r) /\ t = Selected(r) BY <1>1 DEF Selected, Resource, Failed
<1>2. CASE CanSetConditions(r) /\ t = ConditionsSet(r)
  BY <1>2 DEF ConditionsSet, Resource, Failed
<1>3. ASSUME NEW p \in Pods, t = Injected(r, p) PROVE FALSE
  BY <1>3 DEF Injected, Resource, Record, Failed
<1>4. CASE CanElapse(f, r) /\ t = Elapsed(r) BY <1>4 DEF Elapsed, Resource, Failed
<1>5. ASSUME NEW p \in Pods, CanRecover(r, p)
      PROVE  \E o \in Pods : r.records[o].phase = "Injected"
  BY <1>5 DEF CanRecover
<1> QED BY <1>1, <1>2, <1>3, <1>4, <1>5 DEF ChaosMoves

\* A fault nobody has injected yet is pending, if it has a target.
LEMMA NewIsPending ==
    ASSUME NEW f, Pods # {}
    PROVE  Stage(f, NewResource) = "pending"
BY DEF Stage, NotInjected, NewResource, NewRecord

\* The stages of a fault follow each other as those of PlanRun do.
LEMMA StageMoves ==
    ASSUME NEW f \in AllFaults, NEW r \in Resource, SaneRecords(f, r),
           NEW t, ChaosMoves(f, r, t)
    PROVE  \/ Stage(f, t) = Stage(f, r)
           \/ Stage(f, r) = "pending" /\ Stage(f, t) \in {"on", "endless"}
           \/ Stage(f, r) = "on" /\ Stage(f, t) \in {"off", "failing"}
<1>1. t \in Resource /\ SaneRecords(f, t) /\ GoesForward(r, t) BY MovesGoForward
<1>2. /\ NotInjected(t) \subseteq NotInjected(r)
      /\ InjectedAndRecovered(r) \subseteq InjectedAndRecovered(t)
      /\ InjectedAndRecovered(t) \subseteq Pods
      /\ \A p \in Pods : Failed(r, p) => Failed(t, p)
  BY <1>1 DEF GoesForward, InjectedAndRecovered, Failed
<1>3. CASE NotInjected(t) # {} BY <1>2, <1>3 DEF Stage
<1>4. CASE NotInjected(t) = {} /\ NotInjected(r) # {}
  <2>1. t.desired = "Run" /\ Pods # {} BY <1>4, OnlyInjectionInjects
  <2>2. \A p \in Pods : ~ Failed(t, p) BY <1>1, <2>1 DEF SaneRecords, Failed
  <2>3. InjectedAndRecovered(t) # Pods
    BY <1>1, <2>1 DEF SaneRecords, InjectedAndRecovered
  <2> QED BY <1>4, <2>2, <2>3 DEF Stage
<1>5. CASE NotInjected(r) = {}
  <2>1. CASE f.podKill \/ ~ f.duration BY <1>2, <1>5, <2>1 DEF Stage
  <2>2. CASE \E p \in Pods : Failed(r, p) BY <1>2, <1>5, <2>2 DEF Stage
  <2>3. CASE ~ (\E p \in Pods : Failed(r, p)) /\ InjectedAndRecovered(r) = Pods
    <3>1. \A p \in Pods : r.records[p].phase # "Injected"
      BY <2>3 DEF InjectedAndRecovered, SaneRecords
    <3>2. \A p \in Pods : ~ Failed(t, p) BY <2>3, <3>1, OnlyInjectedFail
    <3>3. InjectedAndRecovered(t) = Pods BY <1>2, <2>3
    <3> QED BY <1>2, <1>5, <2>3, <3>2, <3>3 DEF Stage
  <2>4. CASE ~ (\E p \in Pods : Failed(r, p)) /\ InjectedAndRecovered(r) # Pods
    BY <1>2, <1>5, <2>4 DEF Stage
  <2> QED BY <2>1, <2>2, <2>3, <2>4
<1> QED BY <1>3, <1>4, <1>5

\* What GetStatus returns is true of the fault's stage.
LEMMA StatusTellsStage ==
    ASSUME NEW f \in AllFaults, NEW r \in Resource, NEW s \in Session,
           SaneRecords(f, r), SoundSession(f, r, s), NEW labelsOk \in BOOLEAN,
           NEW status, status = StatusAfter(f, s, r, labelsOk)
    PROVE  /\ status \in Statuses
           /\ status \notin {"Starting", "Error"} => NotInjected(r) = {}
           /\ status = "Completed" => Stage(f, r) # "on"
           /\ status = "Panic" => Stage(f, r) \in {"endless", "failing"}
<1> DEFINE t == SessionAfter(f, s, r, labelsOk)
<1>1. CASE GetStatusFails(f, s, r, labelsOk) BY <1>1 DEF StatusAfter, Statuses
<1>2. CASE ~ GetStatusFails(f, s, r, labelsOk)
  <2>1. /\ status \in Statuses \ {"Error"}
        /\ status # "Starting" => NotInjected(r) = {}
        /\ (status = "Completed" /\ t.podsFailingRecovery = {}) =>
              IF f.podKill THEN t.podsExpectedMissing = Cardinality(Pods)
                           ELSE InjectedAndRecovered(r) = Pods
        /\ status = "Panic" => t.podsFailingRecovery # {}
    BY <1>2, StatusIsWorth
  <2>2. SoundSession(f, r, t) BY PollKeepsSound
  <2> HIDE DEF t
  <2>3. t.podsFailingRecovery # {} => \E p \in Pods : Failed(r, p)
    BY <2>2 DEF SoundSession, Failed
  <2> QED BY <2>1, <2>3 DEF Stage
<1> QED BY <1>1, <1>2

-----------------------------------------------------------------------------
(* Chaos Mesh                                                              *)

\* Chaos Mesh moves one resource.
LEMMA ChaosMovesOne ==
    ASSUME ChaosMesh
    PROVE  \E i \in DOMAIN resources : \E r :
               ChaosMoves(faults[i], resources[i], r) /\ Becomes(i, r)
<1>1. PICK i \in DOMAIN resources :
          \/ SelectPods(i)
          \/ SetConditions(i)
          \/ \E p \in Pods : Inject(i, p) \/ Recover(i, p)
          \/ Elapse(i)
          \/ \E p \in Pods, m \in Messages : FailRecovery(i, p, m)
  BY DEF ChaosMesh
<1>2. \E r : ChaosMoves(faults[i], resources[i], r) /\ Becomes(i, r)
  BY <1>1 DEF SelectPods, SetConditions, Inject, Recover, Elapse, FailRecovery, ChaosMoves
<1> QED BY <1>2

\* What is known of a resource and its fault.
LEMMA ResourceKnown ==
    ASSUME TypeOK, ResourcesSane, NEW i \in DOMAIN resources
    PROVE  /\ i \in 1 .. Len(resources) /\ i \in DOMAIN faults
           /\ faults[i] \in AllFaults /\ resources[i] \in Resource
           /\ SaneRecords(faults[i], resources[i])
BY DEF TypeOK, ResourcesSane

LEMMA ChaosKeeps ==
    ASSUME IInv, NEW i \in DOMAIN resources, NEW r,
           ChaosMoves(faults[i], resources[i], r), Becomes(i, r)
    PROVE  IInv'
<1>1. /\ faults[i] \in AllFaults /\ resources[i] \in Resource
      /\ SaneRecords(faults[i], resources[i])
  BY ResourceKnown DEF IInv
<1>2. /\ r \in Resource /\ SaneRecords(faults[i], r) /\ GoesForward(resources[i], r)
  BY <1>1, MovesGoForward
<1>3. /\ DOMAIN resources' = DOMAIN resources /\ Len(resources') = Len(resources)
      /\ resources' \in Seq(Resource)
      /\ \A j \in DOMAIN resources : resources'[j] = IF j = i THEN r ELSE resources[j]
      /\ UNCHANGED <<plan, step, pc, faults, sessions, statuses, deadline, waitingFor>>
  BY <1>2 DEF Becomes, IInv, TypeOK
<1>4. TypeOK' BY <1>3 DEF IInv, TypeOK
<1>5. ResourcesSane' BY <1>2, <1>3 DEF IInv, ResourcesSane
<1>6. SessionsSound'
  <2> SUFFICES ASSUME NEW j \in DOMAIN sessions
               PROVE  SoundSession(faults[j], resources'[j], sessions[j])
    BY <1>3 DEF SessionsSound
  <2>1. j \in DOMAIN resources BY DEF IInv, TypeOK
  <2>2. SoundSession(faults[j], resources[j], sessions[j]) BY DEF IInv, SessionsSound
  <2>3. CASE j = i BY <1>2, <1>3, <2>1, <2>2, <2>3, SoundnessStays
  <2>4. CASE j # i BY <1>3, <2>1, <2>2, <2>4
  <2> QED BY <2>3, <2>4
<1>7. \A j \in DOMAIN resources : NotInjected(resources'[j]) \subseteq NotInjected(resources[j])
  BY <1>2, <1>3 DEF GoesForward
<1>8. EachHasSession' /\ AtPlace'
  <2>1. resources # <<>> => resources' # <<>> BY <1>3 DEF IInv, TypeOK
  <2> QED BY <1>3, <2>1 DEF IInv, EachHasSession, AtPlace
<1>9. OneAtATime'
  <2> SUFFICES ASSUME NEW j \in DOMAIN resources,
                      \/ pc \in {"step", "completing", "recovering"}
                      \/ pc = "injecting" /\ j < Len(resources)
               PROVE  NotInjected(resources'[j]) = {}
    BY <1>3 DEF OneAtATime
  <2>1. NotInjected(resources[j]) = {} BY DEF IInv, OneAtATime
  <2> QED BY <1>7, <2>1
<1>10. \A j \in DOMAIN resources : NotInjected(resources[j]) = {} /\ Over(j)
                                      => Stage(faults[j], resources'[j]) # "on"
  <2>1. NotInjected(resources[i]) = {} => Stage(faults[i], resources[i]) # "pending"
    BY DEF Stage
  <2>2. NotInjected(resources[i]) = {} /\ Over(i) => Stage(faults[i], r) # "on"
    BY <1>1, <2>1, StageMoves DEF Over
  <2> QED BY <1>3, <2>2 DEF Over
<1>11. WaitedFor'
  <2>1. ASSUME pc \in {"completing", "recovering"}, NEW j \in 1 .. (waitingFor - 1)
        PROVE  Stage(faults[j], resources'[j]) # "on"
    <3>1. j \in DOMAIN resources /\ Over(j)
      BY <2>1 DEF IInv, TypeOK, WaitedFor
    <3>2. NotInjected(resources[j]) = {} BY <2>1, <3>1 DEF IInv, OneAtATime
    <3> QED BY <1>10, <3>1, <3>2
  <2>2. ASSUME pc = "step", step > 1, plan[step - 1].type = "waitForFaultCompletion",
               NEW j \in DOMAIN resources
        PROVE  Stage(faults[j], resources'[j]) # "on"
    <3>1. Over(j) BY <2>2 DEF IInv, WaitedFor
    <3>2. NotInjected(resources[j]) = {} BY <2>2 DEF IInv, OneAtATime
    <3> QED BY <1>10, <3>1, <3>2
  <2> QED BY <1>3, <2>1, <2>2 DEF WaitedFor, Over
<1> QED BY <1>4, <1>5, <1>6, <1>8, <1>9, <1>11 DEF IInv

-----------------------------------------------------------------------------
(* The executor                                                            *)

\* An error, a panic or the end of the plan leaves everything as it is.
LEMMA StopKeeps ==
    ASSUME IInv, pc \notin Final, pc' \in Final, UNCHANGED step,
           UNCHANGED <<plan, faults, resources, sessions, statuses, deadline, waitingFor>>
    PROVE  IInv'
<1>1. pc # "error" /\ pc' \notin {"step", "injecting", "completing", "recovering"}
  BY DEF Final
<1>2. TypeOK' BY DEF IInv, TypeOK, Final, Places
<1> QED
  BY <1>1, <1>2 DEF IInv, ResourcesSane, SessionsSound, EachHasSession, AtPlace, OneAtATime,
     WaitedFor

\* A fault is created beside the others.
LEMMA CreateKeeps ==
    ASSUME IInv, AtStep("injectFault"), CreateFault
    PROVE  /\ plan[step].fault \in AllFaults
           /\ faults' \in Seq(AllFaults) /\ resources' \in Seq(Resource)
           /\ Len(resources') = Len(resources) + 1 /\ Len(faults') = Len(resources')
           /\ \A i \in DOMAIN resources :
                 faults'[i] = faults[i] /\ resources'[i] = resources[i]
           /\ faults'[Len(resources) + 1] = plan[step].fault
           /\ resources'[Len(resources) + 1] = NewResource
           /\ ResourcesSane'
<1>1. plan[step].fault \in AllFaults
  <2>1. plan \in Seq(Steps) /\ step \in 1 .. Len(plan)
    BY PlansAssumption DEF IInv, TypeOK, AtStep
  <2>2. plan[step] \in Steps /\ plan[step].type = "injectFault" BY <2>1 DEF AtStep
  <2> QED BY <2>2 DEF Steps, StepTypes
<1>2. NewResource \in Resource /\ SaneRecords(plan[step].fault, NewResource)
  BY <1>1, NewIsSane
<1>3. /\ faults \in Seq(AllFaults) /\ resources \in Seq(Resource)
      /\ Len(resources) = Len(faults)
  BY DEF IInv, TypeOK
<1>4. faults' = Append(faults, plan[step].fault) /\ resources' = Append(resources, NewResource)
  BY DEF CreateFault
<1> DEFINE f == plan[step].fault
<1>5. /\ faults' = Append(faults, f) /\ f \in AllFaults BY <1>1, <1>4
<1> HIDE DEF f
<1>6. /\ faults' \in Seq(AllFaults) /\ resources' \in Seq(Resource)
      /\ Len(resources') = Len(resources) + 1 /\ Len(faults') = Len(resources')
      /\ \A i \in DOMAIN resources :
            faults'[i] = faults[i] /\ resources'[i] = resources[i]
      /\ faults'[Len(resources) + 1] = f
      /\ resources'[Len(resources) + 1] = NewResource
      /\ DOMAIN resources' = DOMAIN resources \cup {Len(resources) + 1}
  BY <1>2, <1>3, <1>4, <1>5
<1>7. ResourcesSane' BY <1>2, <1>6 DEF IInv, ResourcesSane, f
<1> QED BY <1>1, <1>6, <1>7 DEF f

LEMMA NewFaultSessionFailsKeeps == ASSUME IInv, NewFaultSessionFails PROVE IInv'
<1> USE DEF NewFaultSessionFails, Stop
<1>1. /\ faults' \in Seq(AllFaults) /\ resources' \in Seq(Resource)
      /\ Len(resources') = Len(resources) + 1 /\ Len(faults') = Len(resources')
      /\ \A i \in DOMAIN resources :
            faults'[i] = faults[i] /\ resources'[i] = resources[i]
      /\ ResourcesSane'
  BY CreateKeeps
<1>2. pc' = "error" OBVIOUS
<1>3. TypeOK' BY <1>1, <1>2 DEF IInv, TypeOK, Places
<1>4. SessionsSound'
  <2>1. \A i \in DOMAIN sessions : i \in DOMAIN resources BY DEF IInv, TypeOK
  <2> QED BY <1>1, <2>1 DEF IInv, SessionsSound
<1> QED BY <1>1, <1>2, <1>3, <1>4 DEF IInv, EachHasSession, AtPlace, OneAtATime, WaitedFor

LEMMA StartFaultKeeps == ASSUME IInv, StartFault PROVE IInv'
<1> USE DEF StartFault, Stop
<1>1. /\ plan[step].fault \in AllFaults
      /\ faults' \in Seq(AllFaults) /\ resources' \in Seq(Resource)
      /\ Len(resources') = Len(resources) + 1 /\ Len(faults') = Len(resources')
      /\ \A i \in DOMAIN resources :
            faults'[i] = faults[i] /\ resources'[i] = resources[i]
      /\ faults'[Len(resources) + 1] = plan[step].fault
      /\ resources'[Len(resources) + 1] = NewResource
      /\ ResourcesSane'
  BY CreateKeeps
<1>2. pc' = "injecting" /\ pc = "step" /\ step <= Len(plan) /\ plan[step].type = "injectFault"
  BY DEF AtStep
<1>3. /\ NewSession \in Session
      /\ \A f \in AllFaults : \A r : SoundSession(f, r, NewSession)
  BY <1>1, NewIsSane
<1>4. /\ sessions \in Seq(Session) /\ Len(sessions) = Len(resources)
      /\ statuses \in Seq(Statuses \ {"Error"}) /\ Len(statuses) = Len(sessions)
      /\ resources \in Seq(Resource)
  BY <1>2 DEF IInv, TypeOK, EachHasSession
<1>5. /\ sessions' = Append(sessions, NewSession)
      /\ statuses' = Append(statuses, "Starting")
      /\ "Starting" \in Statuses \ {"Error"}
  BY DEF Statuses
<1>6. /\ sessions' \in Seq(Session) /\ Len(sessions') = Len(resources')
      /\ statuses' \in Seq(Statuses \ {"Error"}) /\ Len(statuses') = Len(sessions')
      /\ \A i \in DOMAIN sessions' : i = Len(resources) + 1 \/ i \in DOMAIN sessions
      /\ \A i \in DOMAIN sessions : sessions'[i] = sessions[i] /\ i \in DOMAIN resources
      /\ sessions'[Len(resources) + 1] = NewSession
  BY <1>1, <1>3, <1>4, <1>5
<1>7. TypeOK'
  <2>1. waitingFor' \in 1 .. (Len(sessions') + 1) BY <1>1, <1>4, <1>6 DEF IInv, TypeOK
  <2> QED BY <1>1, <1>2, <1>6, <2>1 DEF IInv, TypeOK, Places
<1>8. SessionsSound'
  <2> SUFFICES ASSUME NEW i \in DOMAIN sessions'
               PROVE  SoundSession(faults'[i], resources'[i], sessions'[i])
    BY DEF SessionsSound
  <2>1. CASE i = Len(resources) + 1 BY <1>1, <1>3, <1>6, <2>1
  <2>2. CASE i \in DOMAIN sessions BY <1>1, <1>6, <2>2 DEF IInv, SessionsSound
  <2> QED BY <1>6, <2>1, <2>2
<1>9. OneAtATime'
  <2> SUFFICES ASSUME NEW i \in DOMAIN resources', i < Len(resources')
               PROVE  NotInjected(resources'[i]) = {}
    BY <1>2 DEF OneAtATime
  <2>1. i \in DOMAIN resources BY <1>1, <1>4
  <2>2. NotInjected(resources[i]) = {} BY <1>2, <2>1 DEF IInv, OneAtATime
  <2> QED BY <1>1, <2>1, <2>2
<1>10. AtPlace' BY <1>1, <1>2, <1>4 DEF AtPlace
<1> QED
  BY <1>1, <1>2, <1>6, <1>7, <1>8, <1>9, <1>10 DEF IInv, EachHasSession, WaitedFor

\* A poll leaves its session sound and the status of it known.
LEMMA PollKeeps ==
    ASSUME IInv, NEW i \in DOMAIN sessions, NEW labelsOk \in BOOLEAN, Poll(i, labelsOk),
           NEW status, status = StatusOfPoll(i, labelsOk)
    PROVE  /\ sessions' \in Seq(Session) /\ Len(sessions') = Len(sessions)
           /\ statuses' \in Seq(Statuses \ {"Error"}) /\ Len(statuses') = Len(sessions')
           /\ UNCHANGED <<plan, faults, resources, deadline>>
           /\ SessionsSound' /\ ResourcesSane'
           /\ status \in Statuses
           /\ status \notin {"Starting", "Error"} => NotInjected(resources[i]) = {}
           /\ status = "Completed" => Over(i)
           /\ status = "Panic" => Stage(faults[i], resources[i]) \in {"endless", "failing"}
<1>1. i \in DOMAIN resources /\ i \in DOMAIN statuses /\ sessions[i] \in Session
  BY DEF IInv, TypeOK
<1>2. /\ faults[i] \in AllFaults /\ resources[i] \in Resource
      /\ SaneRecords(faults[i], resources[i])
      /\ SoundSession(faults[i], resources[i], sessions[i])
  BY <1>1, ResourceKnown DEF IInv, SessionsSound
<1>3. status = StatusAfter(faults[i], sessions[i], resources[i], labelsOk) BY DEF StatusOfPoll
<1>4. /\ status \in Statuses
      /\ status \notin {"Starting", "Error"} => NotInjected(resources[i]) = {}
      /\ status = "Completed" => Over(i)
      /\ status = "Panic" => Stage(faults[i], resources[i]) \in {"endless", "failing"}
  BY <1>1, <1>2, <1>3, StatusTellsStage DEF Over
<1> DEFINE t == SessionAfter(faults[i], sessions[i], resources[i], labelsOk)
<1>5. t \in Session /\ SoundSession(faults[i], resources[i], t)
  BY <1>1, <1>2, PollKeepsSound
<1>6. /\ sessions' = [sessions EXCEPT ![i] = t]
      /\ statuses' = [statuses EXCEPT ![i] = IF status = "Error" THEN @ ELSE status]
      /\ UNCHANGED <<plan, faults, resources, deadline>>
  BY DEF Poll
<1> HIDE DEF t
<1>7. sessions \in Seq(Session) /\ statuses \in Seq(Statuses \ {"Error"})
         /\ Len(statuses) = Len(sessions)
  BY DEF IInv, TypeOK
<1>8. /\ sessions' \in Seq(Session) /\ Len(sessions') = Len(sessions)
      /\ DOMAIN sessions' = DOMAIN sessions
      /\ \A j \in DOMAIN sessions : sessions'[j] = IF j = i THEN t ELSE sessions[j]
  BY <1>5, <1>6, <1>7
<1>9. statuses' \in Seq(Statuses \ {"Error"}) /\ Len(statuses') = Len(sessions')
  BY <1>1, <1>4, <1>6, <1>7, <1>8
<1>10. SessionsSound' BY <1>5, <1>6, <1>8 DEF IInv, SessionsSound
<1>11. ResourcesSane' BY <1>6 DEF IInv, ResourcesSane
<1> QED BY <1>4, <1>6, <1>8, <1>9, <1>10, <1>11

LEMMA PollInjectionKeeps ==
    ASSUME IInv, NEW labelsOk \in BOOLEAN, PollInjection(labelsOk)
    PROVE  IInv'
<1> DEFINE i == Len(sessions)
           status == StatusOfPoll(i, labelsOk)
<1>1. /\ pc = "injecting" /\ Poll(i, labelsOk) /\ UNCHANGED waitingFor
      /\ \/ status \in {"InProgress", "Stopping", "Completed"} /\ NextStep
         \/ Stop("error")
         \/ status \in {"Starting", "Error"} /\ Stop(pc)
         \/ status = "Panic" /\ Stop("panic")
  BY DEF PollInjection
<1>2. /\ i = Len(resources) /\ i \in DOMAIN sessions /\ i \in DOMAIN resources
      /\ step <= Len(plan) /\ plan[step].type = "injectFault"
      /\ step \in Nat /\ Len(plan) \in Nat /\ step >= 1
  <2>1. resources # <<>> /\ Len(sessions) = Len(resources)
           /\ step <= Len(plan) /\ plan[step].type = "injectFault"
    BY <1>1 DEF IInv, AtPlace, EachHasSession
  <2>2. resources \in Seq(Resource) /\ sessions \in Seq(Session) /\ plan \in Seq(Steps)
           /\ step \in 1 .. (Len(plan) + 1)
    BY PlansAssumption DEF IInv, TypeOK
  <2> QED BY <2>1, <2>2
<1>3. /\ sessions' \in Seq(Session) /\ Len(sessions') = Len(sessions)
      /\ statuses' \in Seq(Statuses \ {"Error"}) /\ Len(statuses') = Len(sessions')
      /\ UNCHANGED <<plan, faults, resources, deadline>>
      /\ SessionsSound' /\ ResourcesSane'
      /\ status \notin {"Starting", "Error"} => NotInjected(resources[i]) = {}
  BY <1>1, <1>2, PollKeeps
<1> HIDE DEF status, i
<1>4. CASE NextStep
  <2>1. pc' = "step" /\ step' = step + 1 BY <1>4 DEF NextStep
  <2>2. NotInjected(resources[i]) = {} BY <1>1, <1>3, <2>1 DEF Stop
  <2>3. TypeOK' BY <1>1, <1>2, <1>3, <2>1 DEF IInv, TypeOK, Places
  <2>4. OneAtATime'
    <3> SUFFICES ASSUME NEW j \in DOMAIN resources PROVE NotInjected(resources[j]) = {}
      BY <1>3 DEF OneAtATime
    <3>1. j = i \/ j < Len(resources) BY <1>2 DEF IInv, TypeOK
    <3> QED BY <1>1, <2>2, <3>1 DEF IInv, OneAtATime
  <2>5. WaitedFor'
    <3>1. plan'[step' - 1].type = "injectFault" BY <1>2, <1>3, <2>1
    <3> QED BY <2>1, <3>1 DEF WaitedFor
  <2>6. EachHasSession' BY <1>1, <1>3 DEF IInv, EachHasSession
  <2>7. AtPlace' BY <2>1 DEF AtPlace
  <2> QED BY <1>3, <2>3, <2>4, <2>5, <2>6, <2>7 DEF IInv
<1>5. CASE pc' = pc /\ step' = step
  <2>1. TypeOK' BY <1>1, <1>3, <1>5 DEF IInv, TypeOK
  <2> QED
    BY <1>1, <1>3, <1>5, <2>1 DEF IInv, EachHasSession, AtPlace, OneAtATime, WaitedFor
<1>6. CASE pc' \in {"error", "panic"} /\ step' = step
  <2>1. TypeOK' BY <1>1, <1>3, <1>6 DEF IInv, TypeOK, Places
  <2> QED
    BY <1>1, <1>3, <1>6, <2>1 DEF IInv, EachHasSession, AtPlace, OneAtATime, WaitedFor
<1> QED BY <1>1, <1>4, <1>5, <1>6 DEF Stop

LEMMA PollRecoveryKeeps ==
    ASSUME IInv, NEW labelsOk \in BOOLEAN, PollRecovery(labelsOk)
    PROVE  IInv'
<1> DEFINE i == waitingFor
           status == StatusOfPoll(i, labelsOk)
<1>1. /\ pc = "recovering" /\ Poll(i, labelsOk)
      /\ waitingFor' = IF status = "Completed" THEN waitingFor + 1 ELSE waitingFor
      /\ \/ status = "Completed" /\ Stop("completing")
         \/ status # "Completed" /\ Stop(pc)
         \/ status # "Completed" /\ Stop("error")
         \/ status # "Completed" /\ Stop("panic")
  BY DEF PollRecovery
<1>2. /\ i \in DOMAIN sessions /\ waitingFor \in Nat /\ waitingFor <= Len(sessions)
      /\ Len(sessions) \in Nat /\ waitingFor >= 1
  BY <1>1 DEF IInv, TypeOK, AtPlace
<1>3. /\ sessions' \in Seq(Session) /\ Len(sessions') = Len(sessions)
      /\ statuses' \in Seq(Statuses \ {"Error"}) /\ Len(statuses') = Len(sessions')
      /\ UNCHANGED <<plan, faults, resources, deadline>>
      /\ SessionsSound' /\ ResourcesSane'
      /\ status = "Completed" => Over(i)
  BY <1>1, <1>2, PollKeeps
<1> HIDE DEF status
<1>4. CASE status = "Completed" /\ pc' = "completing" /\ step' = step
  <2>1. waitingFor' = waitingFor + 1 BY <1>1, <1>4
  <2>2. TypeOK' BY <1>2, <1>3, <1>4, <2>1 DEF IInv, TypeOK, Places
  <2>3. WaitedFor'
    <3> SUFFICES ASSUME NEW j \in 1 .. waitingFor PROVE Over(j)
      BY <1>2, <1>3, <1>4, <2>1 DEF WaitedFor, Over
    <3>1. CASE j = waitingFor BY <1>3, <1>4, <3>1
    <3>2. CASE j # waitingFor BY <1>1, <1>2, <3>2 DEF IInv, WaitedFor
    <3> QED BY <3>1, <3>2
  <2> QED
    BY <1>1, <1>3, <1>4, <2>2, <2>3 DEF IInv, EachHasSession, AtPlace, OneAtATime
<1>5. CASE status # "Completed" /\ pc' = pc /\ step' = step
  <2>1. TypeOK' BY <1>1, <1>3, <1>5 DEF IInv, TypeOK
  <2> QED
    BY <1>1, <1>3, <1>5, <2>1 DEF IInv, EachHasSession, AtPlace, OneAtATime, WaitedFor, Over
<1>6. CASE status # "Completed" /\ pc' \in {"error", "panic"} /\ step' = step
  <2>1. TypeOK' BY <1>1, <1>3, <1>6 DEF IInv, TypeOK, Places
  <2> QED
    BY <1>1, <1>3, <1>6, <2>1 DEF IInv, EachHasSession, AtPlace, OneAtATime, WaitedFor, Over
<1> QED BY <1>1, <1>4, <1>5, <1>6 DEF Stop

\* A step of the plan that leaves the faults alone is followed by the next.
LEMMA StepDoneKeeps ==
    ASSUME IInv, NextStep, step <= Len(plan),
           pc \in {"step", "completing"},
           plan[step].type = "waitForFaultCompletion" => \A i \in DOMAIN resources : Over(i),
           UNCHANGED <<plan, faults, resources, sessions, statuses, deadline, waitingFor>>
    PROVE  IInv'
<1>1. pc' = "step" /\ step' = step + 1 BY DEF NextStep
<1>2. plan \in Seq(Steps) /\ step \in 1 .. (Len(plan) + 1)
  BY PlansAssumption DEF IInv, TypeOK
<1>3. step' - 1 = step /\ step' \in 1 .. (Len(plan) + 1) BY <1>1, <1>2
<1>4. TypeOK' BY <1>1, <1>3 DEF IInv, TypeOK, Places
<1>5. WaitedFor' BY <1>1, <1>3 DEF WaitedFor, Over
<1> QED
  BY <1>1, <1>4, <1>5 DEF IInv, ResourcesSane, SessionsSound, EachHasSession, AtPlace,
     OneAtATime

\* Within a step, the faults, the sessions and what is known of them stay.
LEMMA PlaceKeeps ==
    ASSUME IInv, UNCHANGED <<plan, step, faults, resources, sessions, statuses>>,
           pc # "error", TypeOK', AtPlace', WaitedFor',
           \/ pc' = pc
           \/ pc \in {"step", "completing", "recovering"}
                 /\ pc' \in {"step", "completing", "recovering"}
    PROVE  IInv'
BY DEF IInv, ResourcesSane, SessionsSound, EachHasSession, OneAtATime

LEMMA InitEstablishes == Init => IInv
<1> SUFFICES ASSUME Init PROVE IInv OBVIOUS
<1>1. plan \in Seq(Steps) BY PlansAssumption DEF Init
<1>2. TypeOK BY <1>1 DEF Init, TypeOK, Places
<1> QED
  BY <1>1, <1>2 DEF Init, IInv, ResourcesSane, SessionsSound, EachHasSession, AtPlace,
     OneAtATime, WaitedFor

LEMMA NextKeeps == IInv /\ [Next]_vars => IInv'
<1> SUFFICES ASSUME IInv, [Next]_vars PROVE IInv' OBVIOUS
<1>0. /\ plan \in Seq(Steps) /\ step \in 1 .. (Len(plan) + 1)
      /\ sessions \in Seq(Session) /\ resources \in Seq(Resource)
      /\ waitingFor \in 1 .. (Len(sessions) + 1)
  BY PlansAssumption DEF IInv, TypeOK
<1>1. CASE ChaosMesh BY <1>1, ChaosMovesOne, ChaosKeeps
<1>2. CASE StartFaultFails
  BY <1>2, StopKeeps DEF StartFaultFails, AtStep, Stop, Final
<1>3. CASE NewFaultSessionFails BY <1>3, NewFaultSessionFailsKeeps
<1>4. CASE StartFault BY <1>4, StartFaultKeeps
<1>5. CASE RunWaitForDuration
  BY <1>5, StepDoneKeeps DEF RunWaitForDuration, AtStep
<1>6. CASE UnknownStep BY <1>6, StopKeeps DEF UnknownStep, AtStep, Stop, Final
<1>7. CASE CompletePlan BY <1>7, StopKeeps DEF CompletePlan, Stop, Final
<1>8. CASE PassDeadline
  <2>1. pc' = pc /\ pc = "injecting" BY <1>8 DEF PassDeadline
  <2>2. TypeOK' /\ AtPlace' /\ WaitedFor'
    BY <1>8 DEF PassDeadline, IInv, TypeOK, AtPlace, WaitedFor
  <2> QED BY <1>8, <2>1, <2>2, PlaceKeeps DEF PassDeadline
<1>9. CASE InjectionTimesOut BY <1>9, StopKeeps DEF InjectionTimesOut, Stop, Final
<1>10. ASSUME NEW labelsOk \in BOOLEAN, PollInjection(labelsOk) PROVE IInv'
  BY <1>10, PollInjectionKeeps
<1>11. CASE RunWaitForFaultCompletion
  <2>1. /\ pc = "step" /\ pc' = "completing" /\ waitingFor' = 1
        /\ step <= Len(plan) /\ plan[step].type = "waitForFaultCompletion"
        /\ UNCHANGED <<plan, step, faults, resources, sessions, statuses, deadline>>
    BY <1>11 DEF RunWaitForFaultCompletion, AtStep, Stop
  <2>2. 1 \in 1 .. (Len(sessions) + 1) BY <1>0
  <2>3. TypeOK' /\ AtPlace' /\ WaitedFor'
    BY <2>1, <2>2 DEF IInv, TypeOK, AtPlace, WaitedFor, Places
  <2> QED BY <2>1, <2>3, PlaceKeeps
<1>12. CASE AllWaitedFor
  <2>1. /\ pc = "completing" /\ waitingFor > Len(sessions) /\ NextStep
        /\ UNCHANGED <<plan, faults, resources, sessions, statuses, deadline, waitingFor>>
    BY <1>12 DEF AllWaitedFor
  <2>2. \A i \in DOMAIN resources : i \in 1 .. (waitingFor - 1)
    BY <1>0, <2>1 DEF IInv, EachHasSession
  <2>3. step <= Len(plan) /\ \A i \in DOMAIN resources : Over(i)
    BY <2>1, <2>2 DEF IInv, AtPlace, WaitedFor
  <2> QED BY <2>1, <2>3, StepDoneKeeps
<1>13. CASE SleepUntilEnd
  <2>1. /\ pc = "completing" /\ waitingFor <= Len(sessions)
        /\ pc' \in {"recovering", "panic"} /\ UNCHANGED step
        /\ UNCHANGED <<plan, faults, resources, sessions, statuses, deadline, waitingFor>>
    BY <1>13 DEF SleepUntilEnd, Stop
  <2>2. CASE pc' = "panic" BY <2>1, <2>2, StopKeeps DEF Final
  <2>3. CASE pc' = "recovering"
    <3>1. TypeOK' /\ AtPlace' /\ WaitedFor'
      BY <2>1, <2>3 DEF IInv, TypeOK, AtPlace, WaitedFor, Places, Over
    <3> QED BY <2>1, <2>3, <3>1, PlaceKeeps
  <2> QED BY <2>1, <2>2, <2>3
<1>14. ASSUME NEW labelsOk \in BOOLEAN, PollRecovery(labelsOk) PROVE IInv'
  BY <1>14, PollRecoveryKeeps
<1>15. CASE RecoveryUnreachable BY <1>15, StopKeeps DEF RecoveryUnreachable, Stop, Final
<1>16. CASE UNCHANGED vars
  BY <1>16 DEF vars, IInv, TypeOK, ResourcesSane, SessionsSound, EachHasSession, AtPlace,
     OneAtATime, WaitedFor, Over
<1> QED
  BY <1>1, <1>2, <1>3, <1>4, <1>5, <1>6, <1>7, <1>8, <1>9, <1>10, <1>11, <1>12, <1>13,
     <1>14, <1>15, <1>16 DEF Next, RunTestPlan

-----------------------------------------------------------------------------
(* The pods reported as under test                                         *)

\* Whatever indexes there are, one of them is the first.
LEMMA FirstIndex ==
    ASSUME NEW T \in SUBSET Nat, T # {}
    PROVE  \E n \in T : \A k \in T : n <= k
<1> DEFINE R == OpToRel(<, Nat)
<1>1. IsWellFoundedOn(R, Nat) BY NatLessThanWellFounded
<1>2. \A a, b \in Nat : a < b => <<a, b>> \in R BY DEF OpToRel
<1> HIDE DEF R
<1>3. PICK n \in T : \A k \in T : ~ (<<k, n>> \in R) BY <1>1, WFMin
<1>4. \A k \in T : ~ (k < n) BY <1>2, <1>3
<1> QED BY <1>3, <1>4

\* GetPodsUnderTest tells of a pod what some session says of it.
LEMMA ReportedBySession ==
    ASSUME TypeOK, NEW p \in DOMAIN GetPodsUnderTest
    PROVE  \E i \in DOMAIN sessions :
               p \in PodsOf(i) /\ GetPodsUnderTest[p] = sessions[i].podsUnderTest[p]
<1> DEFINE First(i) == p \in PodsOf(i) /\ \A j \in 1 .. (i - 1) : p \notin PodsOf(j)
           first == CHOOSE i \in DOMAIN sessions : First(i)
           T == {i \in DOMAIN sessions : p \in PodsOf(i)}
<1>1. p \in UNION {PodsOf(i) : i \in DOMAIN sessions} BY DEF GetPodsUnderTest
<1>2. GetPodsUnderTest[p] = sessions[first].podsUnderTest[p] BY <1>1 DEF GetPodsUnderTest
<1>3. DOMAIN sessions = 1 .. Len(sessions) /\ Len(sessions) \in Nat BY DEF TypeOK
<1>4. PICK n \in T : \A k \in T : n <= k
  <2>1. T \in SUBSET Nat /\ T # {} BY <1>1, <1>3
  <2> HIDE DEF T
  <2> QED BY <2>1, FirstIndex
<1>5. n \in DOMAIN sessions /\ First(n)
  <2>1. n \in DOMAIN sessions /\ p \in PodsOf(n) /\ n \in Nat BY <1>3, <1>4
  <2>2. ASSUME NEW j \in 1 .. (n - 1), p \in PodsOf(j) PROVE FALSE
    <3>1. j \in T BY <1>3, <2>1, <2>2
    <3> QED BY <1>4, <2>1, <3>1
  <2> QED BY <2>1, <2>2
<1>6. first \in DOMAIN sessions /\ First(first)
  <2> HIDE DEF First
  <2> QED BY <1>5
<1> QED BY <1>2, <1>6

LEMMA ReportsAreSound == IInv => ReportedPodsFaulted
<1> SUFFICES ASSUME IInv, NEW p \in DOMAIN GetPodsUnderTest
             PROVE  \E i \in DOMAIN sessions :
                        /\ p \in PodsOf(i)
                        /\ p \notin NotInjected(resources[i])
                        /\ GetPodsUnderTest[p] = faults[i].podKill
  BY DEF ReportedPodsFaulted
<1>1. PICK i \in DOMAIN sessions :
          p \in PodsOf(i) /\ GetPodsUnderTest[p] = sessions[i].podsUnderTest[p]
  BY ReportedBySession DEF IInv
<1>2. SoundSession(faults[i], resources[i], sessions[i]) BY DEF IInv, SessionsSound
<1> QED BY <1>1, <1>2 DEF SoundSession, PodsOf

-----------------------------------------------------------------------------
(* Invariance                                                              *)

\* At every place of the plan the executor is right about which faults are in, and which
\* of those it has waited for are over.
THEOREM ExecutorInvariance == Spec => []IInv
<1> QED BY InitEstablishes, NextKeeps, PTL DEF Spec

\* Every variable of the executor has its type: each fault it goes on with has a session.
THEOREM ExecutorTypeCorrect == Spec => []TypeOK
<1>1. IInv => TypeOK BY DEF IInv
<1> QED BY <1>1, ExecutorInvariance, PTL

\* A pod that a finished plan reports as under test was injected by a fault of the plan,
\* which says the same of its death (GetPodsUnderTest).
THEOREM ReportedPodsAreFaulted == Spec => []ReportedPodsFaulted
<1> QED BY ReportsAreSound, ExecutorInvariance, PTL

-----------------------------------------------------------------------------
(* Refinement                                                              *)

StageOf(i) == Stage(faults[i], resources[i])
Progress == [i \in DOMAIN resources |-> StageOf(i)]
PlacesOfPlan == IF pc \in Final THEN pc ELSE "running"

LEMMA StagesOfPlan == \A i \in DOMAIN resources : StageOf(i) \in PlanOfTest!Stages
BY DEF StageOf, Stage, PlanOfTest!Stages

\* The faults of a stage, in PlanRun and here.
LEMMA IsStage ==
    \A stage : PlanOfTest!Is(stage) = {i \in DOMAIN resources : StageOf(i) = stage}
BY DEF PlanOfTest!Is, StageOf

\* A step that leaves the faults alone is none, an error, or a panic over a fault that
\* does not end.
LEMMA StaysOrFails ==
    ASSUME pc \notin Final, UNCHANGED <<plan, faults, resources>>,
           \/ pc' \notin Final
           \/ pc' = "error"
           \/ pc' = "panic" /\ \E i \in DOMAIN resources : StageOf(i) \in {"endless", "failing"}
    PROVE  [PlanOfTest!Next]_(PlanOfTest!vars)
<1>1. EndsByWaiting' = EndsByWaiting BY DEF EndsByWaiting
<1>2. Progress' = Progress BY DEF Progress, StageOf
<1>3. PlacesOfPlan = "running" BY DEF PlacesOfPlan
<1>4. CASE pc' \notin Final
  BY <1>1, <1>2, <1>3, <1>4 DEF PlacesOfPlan, Progress, StageOf, PlanOfTest!vars
<1>5. CASE pc' \in {"error", "panic"}
  <2>1. PlacesOfPlan' = pc' BY <1>5 DEF PlacesOfPlan, Final
  <2>2. PlanOfTest!Fail
    BY <1>1, <1>2, <1>3, <1>5, <2>1, IsStage
       DEF PlanOfTest!Fail, PlacesOfPlan, Progress, StageOf, Final
  <2> QED BY <2>2 DEF PlanOfTest!Next
<1> QED BY <1>4, <1>5

\* What Chaos Mesh makes of a fault is what PlanRun does with it.
LEMMA ChaosImplements ==
    ASSUME IInv, NEW i \in DOMAIN resources, NEW r,
           ChaosMoves(faults[i], resources[i], r), Becomes(i, r)
    PROVE  [PlanOfTest!Next]_(PlanOfTest!vars)
<1>1. /\ faults[i] \in AllFaults /\ resources[i] \in Resource
      /\ SaneRecords(faults[i], resources[i])
  BY ResourceKnown DEF IInv
<1>2. /\ DOMAIN resources' = DOMAIN resources
      /\ \A j \in DOMAIN resources : resources'[j] = IF j = i THEN r ELSE resources[j]
      /\ UNCHANGED <<plan, step, pc, faults, sessions, statuses, deadline, waitingFor>>
  BY DEF Becomes
<1>3. EndsByWaiting' = EndsByWaiting /\ PlacesOfPlan' = PlacesOfPlan
  BY <1>2 DEF EndsByWaiting, PlacesOfPlan
<1>4. Progress' = [Progress EXCEPT ![i] = StageOf(i)'] BY <1>2 DEF Progress, StageOf
<1>5. \/ StageOf(i)' = StageOf(i)
      \/ StageOf(i) = "pending" /\ StageOf(i)' \in {"on", "endless"}
      \/ StageOf(i) = "on" /\ StageOf(i)' \in {"off", "failing"}
  BY <1>1, <1>2, StageMoves DEF StageOf
<1>6. Progress[i] = StageOf(i) /\ i \in DOMAIN Progress BY DEF Progress
<1>7. CASE StageOf(i)' = StageOf(i)
  <2>1. Progress' = Progress BY <1>4, <1>6, <1>7 DEF Progress
  <2> QED BY <1>3, <2>1 DEF PlanOfTest!vars, PlacesOfPlan, Progress, StageOf
<1>8. CASE StageOf(i)' # StageOf(i)
  <2>1. PlanOfTest!Settle(i)
    BY <1>3, <1>4, <1>5, <1>6, <1>8
       DEF PlanOfTest!Settle, PlanOfTest!Proceeds, PlacesOfPlan, Progress, StageOf
  <2> QED BY <1>6, <2>1 DEF PlanOfTest!Next, Progress, StageOf
<1> QED BY <1>7, <1>8

\* A sequence that has one more place than another and agrees with it at the others.
LEMMA OnePlaceMore ==
    ASSUME NEW S, NEW n \in Nat, NEW g, NEW h,
           g = [i \in 1 .. n |-> g[i]], h = [i \in 1 .. (n + 1) |-> h[i]],
           \A i \in 1 .. n : g[i] \in S /\ h[i] = g[i],
           h[n + 1] \in S
    PROVE  h = Append(g, h[n + 1])
<1>1. g \in Seq(S) /\ Len(g) = n
  <2>1. g \in [1 .. n -> S] OBVIOUS
  <2> QED BY <2>1
<1>2. h \in Seq(S) /\ Len(h) = n + 1
  <2>1. \A i \in 1 .. (n + 1) : h[i] \in S
    <3> SUFFICES ASSUME NEW i \in 1 .. (n + 1) PROVE h[i] \in S OBVIOUS
    <3>1. i \in 1 .. n \/ i = n + 1 OBVIOUS
    <3> QED BY <3>1
  <2>2. h \in [1 .. (n + 1) -> S] BY <2>1
  <2> QED BY <2>2
<1>3. /\ Append(g, h[n + 1]) \in Seq(S) /\ Len(Append(g, h[n + 1])) = n + 1
      /\ \A i \in 1 .. (n + 1) : Append(g, h[n + 1])[i] = h[i]
  <2>1. Append(g, h[n + 1]) \in Seq(S) /\ Len(Append(g, h[n + 1])) = n + 1 BY <1>1
  <2>2. \A i \in 1 .. n : Append(g, h[n + 1])[i] = g[i] BY <1>1
  <2>3. Append(g, h[n + 1])[n + 1] = h[n + 1] BY <1>1
  <2> SUFFICES ASSUME NEW i \in 1 .. (n + 1) PROVE Append(g, h[n + 1])[i] = h[i] BY <2>1
  <2>4. i \in 1 .. n \/ i = n + 1 OBVIOUS
  <2> QED BY <2>2, <2>3, <2>4
<1> QED BY <1>2, <1>3

\* A fault is created only when all the others are in.
LEMMA CreateImplements ==
    ASSUME IInv, Pods # {}, AtStep("injectFault"), CreateFault, UNCHANGED plan,
           pc' \in {"injecting", "error"}
    PROVE  [PlanOfTest!Next]_(PlanOfTest!vars)
<1>1. /\ faults' \in Seq(AllFaults) /\ resources' \in Seq(Resource)
      /\ Len(resources') = Len(resources) + 1
      /\ \A i \in DOMAIN resources :
            faults'[i] = faults[i] /\ resources'[i] = resources[i]
      /\ faults'[Len(resources) + 1] = plan[step].fault
      /\ resources'[Len(resources) + 1] = NewResource
  BY CreateKeeps
<1>2. resources \in Seq(Resource) BY DEF IInv, TypeOK
<1>3. EndsByWaiting' = EndsByWaiting BY DEF EndsByWaiting
<1>4. PlacesOfPlan = "running" /\ PlacesOfPlan' \in {"running", "error"}
  BY DEF AtStep, PlacesOfPlan, Final
<1>5. PlanOfTest!Is("pending") = {}
  <2>1. \A i \in DOMAIN resources : NotInjected(resources[i]) = {}
    BY DEF AtStep, IInv, OneAtATime
  <2> QED BY <2>1, IsStage DEF StageOf, Stage
<1>6. Progress' = Append(Progress, "pending")
  <2>1. PICK n \in Nat : n = Len(resources) BY <1>2
  <2>2. DOMAIN resources = 1 .. n /\ DOMAIN resources' = 1 .. (n + 1)
    BY <1>1, <1>2, <2>1
  <2>3. \A i \in 1 .. n : StageOf(i)' = StageOf(i) BY <1>1, <2>1 DEF StageOf
  <2>4. StageOf(n + 1)' = "pending"
    <3>1. StageOf(n + 1)' = Stage(faults'[n + 1], resources'[n + 1]) BY DEF StageOf
    <3>2. faults'[n + 1] = plan[step].fault /\ resources'[n + 1] = NewResource
      BY <1>1, <2>1
    <3> QED BY <3>1, <3>2, NewIsPending
  <2>5. /\ Progress = [i \in 1 .. n |-> StageOf(i)]
        /\ Progress' = [i \in 1 .. (n + 1) |-> StageOf(i)']
    BY <2>1, <2>2 DEF Progress
  <2>6. \A i \in 1 .. n : Progress[i] \in PlanOfTest!Stages /\ Progress'[i] = Progress[i]
    BY <2>1, <2>2, <2>3, <2>5, StagesOfPlan
  <2>7. Progress'[n + 1] = "pending" /\ "pending" \in PlanOfTest!Stages
    BY <2>1, <2>2, <2>4, <2>5 DEF PlanOfTest!Stages
  <2>8. /\ Progress = [i \in 1 .. n |-> Progress[i]]
        /\ Progress' = [i \in 1 .. (n + 1) |-> Progress'[i]]
    BY <2>5
  <2> QED BY <2>1, <2>2, <2>6, <2>7, <2>8, OnePlaceMore
<1>7. PlanOfTest!Create
  BY <1>3, <1>4, <1>5, <1>6 DEF PlanOfTest!Create, PlacesOfPlan, Progress, StageOf
<1> QED BY <1>7 DEF PlanOfTest!Next

\* A plan that ends by waiting is done when nothing is on.
LEMMA CompleteImplements ==
    ASSUME IInv, CompletePlan
    PROVE  [PlanOfTest!Next]_(PlanOfTest!vars)
<1>1. /\ pc = "step" /\ step > Len(plan) /\ pc' = "done"
      /\ UNCHANGED <<plan, faults, resources>>
  BY DEF CompletePlan, Stop
<1>2. plan \in Seq(Steps) /\ step \in 1 .. (Len(plan) + 1)
  BY PlansAssumption DEF IInv, TypeOK
<1>3. /\ EndsByWaiting' = EndsByWaiting /\ Progress' = Progress
      /\ PlacesOfPlan = "running" /\ PlacesOfPlan' = "done"
  BY <1>1 DEF EndsByWaiting, Progress, StageOf, PlacesOfPlan, Final
<1>4. PlanOfTest!Is("pending") = {}
  <2>1. \A i \in DOMAIN resources : NotInjected(resources[i]) = {}
    BY <1>1 DEF IInv, OneAtATime
  <2> QED BY <2>1, IsStage DEF StageOf, Stage
<1>5. EndsByWaiting => PlanOfTest!Is("on") = {}
  <2> SUFFICES ASSUME EndsByWaiting PROVE \A i \in DOMAIN resources : StageOf(i) # "on"
    BY IsStage
  <2>1. Len(plan) >= 1 /\ step - 1 = Len(plan) /\ step > 1
    BY <1>1, <1>2 DEF EndsByWaiting
  <2>2. plan[step - 1].type = "waitForFaultCompletion" BY <2>1 DEF EndsByWaiting
  <2> QED BY <1>1, <2>1, <2>2 DEF IInv, WaitedFor, Over, StageOf
<1>6. PlanOfTest!Finish
  BY <1>3, <1>4, <1>5 DEF PlanOfTest!Finish, PlacesOfPlan, Progress, StageOf
<1> QED BY <1>6 DEF PlanOfTest!Next

LEMMA PollPanics ==
    ASSUME IInv, NEW i \in DOMAIN sessions, NEW labelsOk \in BOOLEAN, Poll(i, labelsOk),
           StatusOfPoll(i, labelsOk) = "Panic"
    PROVE  \E j \in DOMAIN resources : StageOf(j) \in {"endless", "failing"}
<1>1. i \in DOMAIN resources BY DEF IInv, TypeOK
<1>2. StageOf(i) \in {"endless", "failing"} BY PollKeeps DEF StageOf
<1> QED BY <1>1, <1>2

LEMMA StepImplements ==
    ASSUME IInv, Pods # {}, [Next]_vars
    PROVE  [PlanOfTest!Next]_(PlanOfTest!vars)
<1>1. CASE ChaosMesh BY <1>1, ChaosMovesOne, ChaosImplements
<1>2. CASE NewFaultSessionFails \/ StartFault
  BY <1>2, CreateImplements DEF NewFaultSessionFails, StartFault, Stop
<1>3. CASE CompletePlan BY <1>3, CompleteImplements
<1>4. CASE \/ StartFaultFails \/ UnknownStep \/ InjectionTimesOut \/ RecoveryUnreachable
  BY <1>4, StaysOrFails DEF StartFaultFails, UnknownStep, InjectionTimesOut,
     RecoveryUnreachable, AtStep, Stop, Final
<1>5. CASE \/ RunWaitForDuration \/ PassDeadline \/ RunWaitForFaultCompletion \/ AllWaitedFor
  BY <1>5, StaysOrFails DEF RunWaitForDuration, PassDeadline, RunWaitForFaultCompletion,
     AllWaitedFor, AtStep, NextStep, Stop, Final
<1>6. ASSUME NEW labelsOk \in BOOLEAN, PollInjection(labelsOk)
      PROVE  [PlanOfTest!Next]_(PlanOfTest!vars)
  <2> DEFINE i == Len(sessions)
  <2>1. /\ pc = "injecting" /\ Poll(i, labelsOk)
        /\ \/ pc' \in {"step", "injecting", "error"}
           \/ pc' = "panic" /\ StatusOfPoll(i, labelsOk) = "Panic"
    BY <1>6 DEF PollInjection, NextStep, Stop
  <2>2. i \in DOMAIN sessions
    BY <2>1 DEF IInv, TypeOK, AtPlace, EachHasSession
  <2>3. UNCHANGED <<plan, faults, resources>> BY <2>1 DEF Poll
  <2> HIDE DEF i
  <2> QED BY <2>1, <2>2, <2>3, PollPanics, StaysOrFails DEF Final
<1>7. CASE SleepUntilEnd
  <2>1. /\ pc = "completing" /\ waitingFor <= Len(sessions)
        /\ UNCHANGED <<plan, faults, resources>>
        /\ \/ pc' = "recovering"
           \/ pc' = "panic" /\ ~ faults[waitingFor].duration
    BY <1>7 DEF SleepUntilEnd, Stop
  <2>2. waitingFor \in DOMAIN resources BY <2>1 DEF IInv, TypeOK
  <2>3. NotInjected(resources[waitingFor]) = {} BY <2>1, <2>2 DEF IInv, OneAtATime
  <2>4. ~ faults[waitingFor].duration => StageOf(waitingFor) = "endless"
    BY <2>3 DEF StageOf, Stage
  <2> QED BY <2>1, <2>2, <2>4, StaysOrFails DEF Final
<1>8. ASSUME NEW labelsOk \in BOOLEAN, PollRecovery(labelsOk)
      PROVE  [PlanOfTest!Next]_(PlanOfTest!vars)
  <2>1. /\ pc = "recovering" /\ Poll(waitingFor, labelsOk)
        /\ \/ pc' \in {"completing", "recovering", "error"}
           \/ pc' = "panic" /\ StatusOfPoll(waitingFor, labelsOk) = "Panic"
    BY <1>8 DEF PollRecovery, Stop
  <2>2. waitingFor \in DOMAIN sessions BY <2>1 DEF IInv, TypeOK, AtPlace
  <2>3. UNCHANGED <<plan, faults, resources>> BY <2>1 DEF Poll
  <2> QED BY <2>1, <2>2, <2>3, PollPanics, StaysOrFails DEF Final
<1>9. CASE UNCHANGED vars
  <2>1. EndsByWaiting' = EndsByWaiting /\ Progress' = Progress /\ PlacesOfPlan' = PlacesOfPlan
    BY <1>9 DEF vars, EndsByWaiting, Progress, StageOf, PlacesOfPlan
  <2> QED BY <2>1 DEF PlanOfTest!vars, Progress, StageOf, PlacesOfPlan
<1> QED
  BY <1>1, <1>2, <1>3, <1>4, <1>5, <1>6, <1>7, <1>8, <1>9 DEF Next, RunTestPlan

\* Whatever Chaos Mesh and the API do, a test's plan runs as PlanRun promises: one fault
\* at a time goes on, a plan that ends by waiting leaves none on but those that cannot be
\* taken off, and only these bring the program down.  A fault without a target is never
\* pending, and left out.
THEOREM ExecutorImplementsPlanRun ==
    ASSUME Pods # {}
    PROVE  Spec => ImplementsPlanRun
<1>1. Init => PlanOfTest!Init
  <2> SUFFICES ASSUME Init PROVE PlanOfTest!Init OBVIOUS
  <2>1. resources = <<>> /\ pc = "step" BY DEF Init
  <2>2. Progress = <<>> BY <2>1 DEF Progress
  <2>3. EndsByWaiting \in BOOLEAN BY DEF EndsByWaiting
  <2> QED BY <2>1, <2>2, <2>3 DEF PlanOfTest!Init, Progress, StageOf, Final
<1>2. IInv /\ [Next]_vars => [PlanOfTest!Next]_(PlanOfTest!vars) BY StepImplements
<1> QED
  BY <1>1, <1>2, ExecutorInvariance, PTL DEF Spec, ImplementsPlanRun, PlanOfTest!Spec
=============================================================================
