----------------------------- MODULE FaultSteps -----------------------------
(***************************************************************************)
(* pkg/plan/suite/faults.go, step_builder.go and test_builder.go: the plan *)
(* of a generated test.  A step keeps what the executor and the targets of *)
(* a fault depend on; the action, the mode and the amounts of a manifest   *)
(* are left out.                                                           *)
(*                                                                         *)
(* The text of a field is what it can be read as: a duration, a number, or *)
(* neither ("text").                                                       *)
(***************************************************************************)
EXTENDS TargetSelection

Kind == [ClockSkew |-> "TimeChaos", RestartContainers |-> "PodChaos",
         IOLatency |-> "IOChaos", NetworkLatency |-> "NetworkChaos",
         PacketLoss |-> "NetworkChaos"]

\* What composeTestForFaultType reads of a fault, and as what.  The duration of a clock
\* skew goes into the manifest as it is.
RequiredFields ==
    [ClockSkew |-> [skew |-> "text", duration |-> "text", grace_period |-> "duration"],
     RestartContainers |-> [grace_period |-> "duration"],
     IOLatency |-> [grace_period |-> "duration", delay |-> "duration",
                    duration |-> "duration", percent |-> "number"],
     NetworkLatency |-> [grace_period |-> "duration", delay |-> "duration",
                         jitter |-> "duration", duration |-> "duration",
                         correlation |-> "number"],
     PacketLoss |-> [grace_period |-> "duration", duration |-> "duration",
                     loss_percent |-> "number", direction |-> "text"]]

\* Mutant: a field is only looked for.
FaultLacksField(type, fault) ==
    \E field \in DOMAIN RequiredFields[type] : field \notin DOMAIN fault

FaultRefused(type, fault) ==
    ~ \A field \in DOMAIN RequiredFields[type] :
        /\ field \in DOMAIN fault
        /\ RequiredFields[type][field] \in {"text", fault[field]}

\* A container restart is a pod failure of five seconds.
FaultDuration(type, fault) ==
    IF type = "RestartContainers" THEN "duration" ELSE fault.duration

InjectStep(type, fault, pods) ==
    [type |-> "injectFault", kind |-> Kind[type],
     duration |-> FaultDuration(type, fault), pods |-> pods, path |-> {}]

\* getVolumePathForIOFault.  It means to refuse validators, and looks for an id that
\* ends in "validator"; those of the planner start with "val" and end in a client.
VolumePath(pod) ==
    IF pod.client = "el" THEN [client |-> pod.execution, of |-> "execution"]
                         ELSE [client |-> pod.consensus, of |-> "consensus"]

\* Mutant: one step for all the pods of a target, with the path of one of them.
BuildIOLatencyFaultOnce(fault, pods) ==
    <<[InjectStep("IOLatency", fault, pods) EXCEPT !.path = {VolumePath(SetToSeq(pods)[1])}]>>

\* buildIOLatencyFault: a step for each pod of the selector, with its path.  What the
\* step selects is every pod of the selector.
BuildIOLatencyFault(fault, pods) ==
    LET values == SetToSeq(pods)
    IN  [i \in DOMAIN values |->
            [InjectStep("IOLatency", fault, pods) EXCEPT !.path = {VolumePath(values[i])}]]

\* The compose functions of step_builder.go: the steps for one target.
TargetSteps(type, fault, pods) ==
    IF type = "IOLatency" THEN BuildIOLatencyFault(fault, pods)
                          ELSE <<InjectStep(type, fault, pods)>>

WaitStep == [type |-> "waitForFaultCompletion"]

\* Mutant: the plan ends with its last fault.
PlanStepsWithoutWait(type, fault, targets) ==
    FlattenSeq([i \in DOMAIN targets |-> TargetSteps(type, fault, targets[i])])

\* The compose functions of test_builder.go.
PlanSteps(type, fault, targets) ==
    FlattenSeq([i \in DOMAIN targets |-> TargetSteps(type, fault, targets[i])])
        \o <<WaitStep>>
=============================================================================
