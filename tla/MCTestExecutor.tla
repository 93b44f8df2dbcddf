-------------------------- MODULE MCTestExecutor --------------------------
(***************************************************************************)
(* TestExecutor for TLC: the shapes of plan of docs/DOCUMENTATION.md and of *)
(* the generated suites, with at most two faults.                          *)
(***************************************************************************)
EXTENDS TestExecutor, TLC

Timed == [podKill |-> FALSE, duration |-> TRUE, wellFormedIds |-> TRUE]
Kill  == [podKill |-> TRUE, duration |-> FALSE, wellFormedIds |-> TRUE]

InjectStep(f) == [type |-> "injectFault", fault |-> f]
WaitStep  == [type |-> "waitForFaultCompletion"]
SleepStep == [type |-> "waitForDuration"]
OtherStep == [type |-> "unknown"]

OneFault    == <<InjectStep(Timed), WaitStep>>
TwoFaults   == <<InjectStep(Timed), InjectStep(Timed), WaitStep>>
OneByOne    == <<InjectStep(Timed), WaitStep, InjectStep(Timed), WaitStep>>
FaultThenKill == <<InjectStep(Timed), InjectStep(Kill), SleepStep>>
FaultThenKillWait == <<InjectStep(Timed), InjectStep(Kill), WaitStep>>
KillThenFault == <<InjectStep(Kill), SleepStep, InjectStep(Timed), OtherStep>>
WaitForKill == <<InjectStep(Kill), WaitStep>>

TimedPlans == {OneFault, TwoFaults, OneByOne}
\* Two timed faults at once on two pods are left to the run with one pod.
AllPlans ==
    {OneFault, OneByOne, FaultThenKill, FaultThenKillWait, KillThenFault, WaitForKill}

Symmetry == Permutations(Pods)
=============================================================================
