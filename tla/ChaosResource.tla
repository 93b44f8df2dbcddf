--------------------------- MODULE ChaosResource ---------------------------
(***************************************************************************)
(* The Chaos Mesh custom resource of one fault, as far as attacknet reads  *)
(* it: status.experiment.records, status.conditions and the desired phase. *)
(* Chaos Mesh runs outside this repository; each step below is a guard     *)
(* (Can...) and an effect, so that a module with one resource and a module *)
(* with several can both use them.                                         *)
(*                                                                         *)
(* A fault is [podKill, duration, wellFormedIds]: the action is pod-kill   *)
(* (one shot, never recovered), the spec has a duration, and the records'  *)
(* ids have the three parts session.go wants.  One record per pod; an      *)
(* experiment is injected and recovered once (attacknet never pauses one). *)
(***************************************************************************)
EXTENDS Naturals, FiniteSets

CONSTANTS
    Pods,      \* the pods the fault's selector matches
    Messages   \* the texts a failed recovery can leave in a record's events

ASSUME FiniteAssumption == IsFiniteSet(Pods) /\ IsFiniteSet(Messages)

AllFaults ==
    [podKill : BOOLEAN, duration : BOOLEAN, wellFormedIds : BOOLEAN]

Record ==
    [phase : {"NotInjected", "Injected"},
     injectedCount : 0..1,
     recoveredCount : 0..1,
     failures : SUBSET Messages]

\* condition is the status of the Selected condition, "nil" when the list of
\* conditions is not there yet; recordsPresent is records # nil.  Chaos Mesh writes its
\* conditions together, so that a list without a Selected one is not among the values.
Resource ==
    [records : [Pods -> Record],
     recordsPresent : BOOLEAN,
     condition : {"nil", "False", "True"},
     desired : {"Run", "Stop"}]

NewRecord ==
    [phase |-> "NotInjected", injectedCount |-> 0, recoveredCount |-> 0,
     failures |-> {}]

NewResource ==
    [records |-> [p \in Pods |-> NewRecord],
     recordsPresent |-> FALSE,
     condition |-> "nil",
     desired |-> "Run"]

-----------------------------------------------------------------------------
(* The records and the conditions have separate controllers, in any order. *)

CanSelect(r) == ~r.recordsPresent
Selected(r)  == [r EXCEPT !.recordsPresent = TRUE]

\* A condition computed from the records as they are now.
CurrentCondition(r) == IF r.recordsPresent THEN "True" ELSE "False"
CanSetConditions(r) == r.condition # CurrentCondition(r)
ConditionsSet(r)    == [r EXCEPT !.condition = CurrentCondition(r)]

CanInject(r, p) ==
    /\ r.recordsPresent
    /\ r.desired = "Run"
    /\ r.records[p].injectedCount = 0
Injected(r, p) ==
    [r EXCEPT !.records[p].phase = "Injected",
              !.records[p].injectedCount = 1]

CanElapse(f, r) == f.duration /\ ~f.podKill /\ r.desired = "Run"
Elapsed(r)      == [r EXCEPT !.desired = "Stop"]

CanRecover(r, p) ==
    /\ r.desired = "Stop"
    /\ r.records[p].phase = "Injected"
Recovered(r, p) ==
    [r EXCEPT !.records[p].phase = "NotInjected",
              !.records[p].recoveredCount = r.records[p].injectedCount]

\* A failed recovery leaves an event and is retried.
RecoveryFailed(r, p, m) == [r EXCEPT !.records[p].failures = @ \cup {m}]
=============================================================================
