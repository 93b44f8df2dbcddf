-------------------------- MODULE SuiteRunnerProofs --------------------------
(***************************************************************************)
(* Which enclaves a run may destroy, what it leaves behind, when its tests *)
(* run without a network, and which faults of other tests its network may  *)
(* be judged under, for any number of tests and of runs.                   *)
(*                                                                         *)
(* What makes these true is history that no run can see: an enclave whose  *)
(* network is not up was made by some run, one named after a run was made  *)
(* by no other, and a fault that a plan was to wait for outlives only a run*)
(* that was given up.                                                      *)
(***************************************************************************)
EXTENDS SuiteRunner, TLAPS

HasDevnet == {"clients", "plan", "faulting", "health", "serialize", "write",
              "destroy"}
GaveUp == {"error", "panicked", "interrupted"}

ClusterTypeOK ==
    /\ enclaves \in SUBSET Enclaves
    /\ creator \in [Enclaves -> 0 .. MaxRuns]
    /\ run \in Runs
    /\ namespace \in BOOLEAN /\ reuse \in BOOLEAN /\ keeps \in BOOLEAN

\* Enclaves come from the runs so far, or from somebody who brought their network up.
Histories ==
    \A e \in enclaves : e <= run /\ creator[e] <= run /\ (e \notin running => creator[e] >= 1)

OwnDevnet ==
    /\ pc = "enclave" => \A e \in enclaves : e < run /\ creator[e] < run
    /\ pc = "genesis" => Mine \in enclaves /\ creator[Mine] = run
    /\ pc \in HasDevnet \cup {"genesis"} => keeps = reuse
    /\ pc \in HasDevnet =>
          /\ Mine \in enclaves
          /\ ~ reuse => creator[Mine] = run
          /\ Mine \notin running => namespace /\ reuse /\ creator[Mine] \in 1 .. (run - 1)

\* What a run made bears its name and its suite's wish.
MadeByRun ==
    \A e \in enclaves : creator[e] = run => e = Mine /\ (e \in disposable <=> ~ reuse)

IInv == ClusterTypeOK /\ Histories /\ OwnDevnet /\ MadeByRun /\ LeftBehind

LEMMA MineIsAnEnclave ==
    ASSUME run \in Runs
    PROVE  Mine \in Enclaves /\ Mine \in Nat /\ Mine <= run /\ (~ namespace => Mine = run)
BY MaxRunsAssumption DEF Mine, Enclaves, Runs, Named

LEMMA InitEstablishes == Init => IInv
BY MaxRunsAssumption
   DEF Init, IInv, ClusterTypeOK, Histories, OwnDevnet, HasDevnet, MadeByRun, LeftBehind,
       Enclaves, Runs, Named

\* A step that leaves the enclaves alone and moves between places that ask no more.
LEMMA MovePreserves ==
    ASSUME IInv, UNCHANGED <<cluster, failedRuns, run, config>>,
           \/ pc' = pc
           \/ pc \in HasDevnet /\ pc' \in HasDevnet
           \/ pc' \in GaveUp \cup {"streamClosed"}
    PROVE  IInv'
<1>1. Mine' = Mine BY DEF Mine, config, suite
<1>2. /\ enclaves' = enclaves /\ creator' = creator /\ running' = running /\ run' = run
      /\ disposable' = disposable /\ failedRuns' = failedRuns
      /\ namespace' = namespace /\ reuse' = reuse /\ keeps' = keeps
  BY DEF cluster, config, suite
<1>3. ClusterTypeOK' /\ Histories' BY <1>2 DEF IInv, ClusterTypeOK, Histories
<1>4. OwnDevnet' BY <1>1, <1>2 DEF IInv, OwnDevnet, HasDevnet, GaveUp
<1>5. MadeByRun' BY <1>1, <1>2 DEF IInv, MadeByRun
<1>6. LeftBehind' BY <1>1, <1>2 DEF IInv, LeftBehind, HasDevnet, GaveUp
<1> QED BY <1>3, <1>4, <1>5, <1>6 DEF IInv

LEMMA StepPreserves == IInv /\ [Next]_vars => IInv'
<1> SUFFICES ASSUME IInv, [Next]_vars PROVE IInv' OBVIOUS
<1>0. /\ ClusterTypeOK /\ Histories /\ OwnDevnet /\ MadeByRun /\ LeftBehind
      /\ run \in Nat \ {0} /\ run \in Runs /\ MaxRuns \in Nat
      /\ \A e \in Enclaves : e \in Nat /\ creator[e] \in Nat
      /\ enclaves \subseteq Enclaves
  BY MaxRunsAssumption DEF IInv, ClusterTypeOK, Runs, Enclaves, Named
<1>1. Mine \in Enclaves /\ Mine \in Nat /\ Mine <= run /\ (~ namespace => Mine = run)
  BY <1>0, MineIsAnEnclave
<1>2. CASE RunAgain
  <2>1. /\ run' = run + 1 /\ run' \in Runs /\ pc \in Final /\ pc' = "enclave"
        /\ failedRuns' = IF pc = "done" THEN failedRuns ELSE failedRuns \cup {run}
        /\ enclaves' = enclaves /\ creator' = creator /\ running' = running
        /\ disposable' = disposable
        /\ namespace' \in BOOLEAN /\ reuse' \in BOOLEAN
    BY <1>0, <1>2 DEF RunAgain, cluster, Runs
  <2>2. keeps' \in BOOLEAN BY <1>2, Zenon DEF RunAgain
  <2>3. ClusterTypeOK' BY <1>0, <2>1, <2>2 DEF ClusterTypeOK
  <2>4. Histories' /\ OwnDevnet' BY <1>0, <2>1 DEF Histories, OwnDevnet, HasDevnet
  <2>5. MadeByRun' BY <1>0, <2>1 DEF MadeByRun, Histories
  <2>6. LeftBehind' BY <1>0, <2>1 DEF LeftBehind
  <2> QED BY <2>3, <2>4, <2>5, <2>6 DEF IInv
<1>3. CASE Interrupt BY <1>3, MovePreserves DEF Interrupt, GaveUp
<1>4. CASE ImportEnclave
  <2>1. /\ pc = "enclave" /\ Mine \in enclaves /\ reuse /\ pc' = "clients" /\ keeps' = TRUE
        /\ UNCHANGED <<cluster, failedRuns, run, suite>>
    BY <1>4 DEF ImportEnclave, Import
  <2>2. /\ enclaves' = enclaves /\ creator' = creator /\ running' = running /\ run' = run
        /\ disposable' = disposable /\ failedRuns' = failedRuns
        /\ namespace' = namespace /\ reuse' = reuse /\ Mine' = Mine
    BY <2>1 DEF cluster, suite, Mine
  <2>3. namespace /\ creator[Mine] < run
    <3>1. Mine < run /\ creator[Mine] < run BY <1>0, <2>1 DEF OwnDevnet
    <3> QED BY <1>0, <1>1, <3>1
  <2>4. Mine \notin running => creator[Mine] \in 1 .. (run - 1)
    BY <1>0, <1>1, <2>1, <2>3 DEF Histories
  <2>5. OwnDevnet' BY <1>0, <2>1, <2>2, <2>3, <2>4 DEF OwnDevnet, HasDevnet, ClusterTypeOK
  <2>6. ClusterTypeOK' /\ Histories' BY <1>0, <2>1, <2>2 DEF ClusterTypeOK, Histories
  <2>7. MadeByRun' /\ LeftBehind' BY <1>0, <2>1, <2>2 DEF MadeByRun, LeftBehind
  <2> QED BY <2>5, <2>6, <2>7 DEF IInv
<1>5. CASE RefuseEnclave BY <1>5, MovePreserves DEF RefuseEnclave, Goto, GaveUp
<1>6. CASE EnclaveFails BY <1>6, MovePreserves DEF EnclaveFails, Goto, GaveUp
<1>7. CASE CreateEnclave
  <2>1. /\ enclaves' = enclaves \cup {Mine} /\ creator' = [creator EXCEPT ![Mine] = run]
        /\ disposable' = IF reuse THEN disposable \ {Mine} ELSE disposable \cup {Mine}
        /\ pc = "enclave" /\ pc' = "genesis" /\ running' = running /\ run' = run
        /\ failedRuns' = failedRuns /\ keeps' = reuse
        /\ namespace' = namespace /\ reuse' = reuse /\ Mine' = Mine
    BY <1>7 DEF CreateEnclave, suite, Mine
  <2>2. creator'[Mine] = run /\ creator' \in [Enclaves -> 0 .. MaxRuns]
    BY <1>0, <1>1, <2>1 DEF ClusterTypeOK, Runs
  <2>3. \A e \in enclaves' : e # Mine =>
            e \in enclaves /\ creator'[e] = creator[e] /\ creator[e] < run
                /\ (e \in disposable' <=> e \in disposable)
    BY <1>0, <1>1, <2>1 DEF ClusterTypeOK, OwnDevnet
  <2>4. ClusterTypeOK' BY <1>0, <1>1, <2>1, <2>2 DEF ClusterTypeOK
  <2>5. Histories'
    <3> SUFFICES ASSUME NEW e \in enclaves'
                 PROVE  e <= run /\ creator'[e] <= run /\ (e \notin running => creator'[e] >= 1)
      BY <2>1 DEF Histories
    <3>1. CASE e = Mine BY <3>1, <1>0, <1>1, <2>2
    <3>2. CASE e # Mine BY <3>2, <1>0, <2>3 DEF Histories
    <3> QED BY <3>1, <3>2
  <2>6. OwnDevnet' BY <2>1, <2>2 DEF OwnDevnet, HasDevnet
  <2>7. MadeByRun' BY <1>0, <2>1, <2>3 DEF MadeByRun
  <2>8. LeftBehind' BY <1>0, <2>1, <2>2, <2>3 DEF LeftBehind
  <2> QED BY <2>4, <2>5, <2>6, <2>7, <2>8 DEF IInv
<1>8. CASE Genesis
  <2>1. /\ running' = running \cup {Mine} /\ pc = "genesis" /\ pc' = "clients"
        /\ enclaves' = enclaves /\ creator' = creator /\ run' = run
        /\ disposable' = disposable /\ failedRuns' = failedRuns
        /\ namespace' = namespace /\ reuse' = reuse /\ keeps' = keeps /\ Mine' = Mine
    BY <1>8 DEF Genesis, config, suite, Mine
  <2>2. ClusterTypeOK' /\ Histories' BY <1>0, <2>1 DEF ClusterTypeOK, Histories
  <2>3. OwnDevnet' BY <1>0, <2>1 DEF OwnDevnet, HasDevnet
  <2>4. MadeByRun' /\ LeftBehind' BY <1>0, <2>1 DEF MadeByRun, LeftBehind
  <2> QED BY <2>2, <2>3, <2>4 DEF IInv
<1>9. CASE GenesisFails BY <1>9, MovePreserves DEF GenesisFails, Goto, GaveUp
<1>10. CASE GenesisStreamEnds BY <1>10, MovePreserves DEF GenesisStreamEnds, Goto
<1>11. CASE CreateClients
  BY <1>11, MovePreserves DEF CreateClients, Goto, HasDevnet
<1>12. CASE CreateClientsFails BY <1>12, MovePreserves DEF CreateClientsFails, Goto, GaveUp
<1>13. CASE StartFaults BY <1>13, MovePreserves DEF StartFaults, HasDevnet
<1>14. CASE PlanFails BY <1>14, MovePreserves DEF PlanFails, Goto, GaveUp
<1>15. CASE RunPlan
  <2>1. UNCHANGED <<cluster, failedRuns, run, config>> /\ pc \in HasDevnet /\ pc' \in HasDevnet
    BY <1>15 DEF RunPlan, AfterTest, HasDevnet
  <2> QED BY <2>1, MovePreserves
<1>16. CASE ChecksFail BY <1>16, MovePreserves DEF ChecksFail, Goto, GaveUp
<1>17. CASE ChecksPass
  <2>1. UNCHANGED <<cluster, failedRuns, run, config>> /\ pc \in HasDevnet /\ pc' \in HasDevnet
    BY <1>17 DEF ChecksPass, Checked, AfterTest, HasDevnet
  <2> QED BY <2>1, MovePreserves
<1>18. CASE Unhealthy
  <2>1. UNCHANGED <<cluster, failedRuns, run, config>> /\ pc \in HasDevnet /\ pc' \in HasDevnet
    BY <1>18 DEF Unhealthy, Checked, HasDevnet
  <2> QED BY <2>1, MovePreserves
<1>19. CASE CreateFile BY <1>19, MovePreserves DEF CreateFile, HasDevnet
<1>20. CASE WriteFile BY <1>20, MovePreserves DEF WriteFile, Write, HasDevnet
<1>21. CASE SerializeFails BY <1>21, MovePreserves DEF SerializeFails, Goto, GaveUp
<1>22. CASE KeepEnclave
  <2>1. /\ pc = "destroy" /\ keeps /\ pc' = "done"
        /\ enclaves' = enclaves /\ creator' = creator /\ running' = running /\ run' = run
        /\ disposable' = disposable /\ failedRuns' = failedRuns
        /\ namespace' = namespace /\ reuse' = reuse /\ keeps' = keeps /\ Mine' = Mine
    BY <1>22 DEF KeepEnclave, Goto, cluster, config, suite, Mine
  <2>2. ClusterTypeOK' /\ Histories' BY <1>0, <2>1 DEF ClusterTypeOK, Histories
  <2>3. OwnDevnet' /\ MadeByRun' BY <1>0, <2>1 DEF OwnDevnet, HasDevnet, MadeByRun
  <2>4. Mine \in enclaves /\ reuse BY <1>0, <2>1 DEF OwnDevnet, HasDevnet
  <2>5. \A e \in enclaves \cap disposable : creator[e] # run BY <1>0, <2>4 DEF MadeByRun
  <2>6. LeftBehind' BY <1>0, <2>1, <2>4, <2>5 DEF LeftBehind
  <2> QED BY <2>2, <2>3, <2>6 DEF IInv
<1>23. CASE Destroy
  <2>1. /\ pc = "destroy" /\ ~ keeps /\ pc' = "done"
        /\ enclaves' = enclaves \ {Mine} /\ running' = running \ {Mine}
        /\ disposable' = disposable /\ failedRuns' = failedRuns
        /\ creator' = creator /\ run' = run
        /\ namespace' = namespace /\ reuse' = reuse /\ keeps' = keeps /\ Mine' = Mine
    BY <1>23 DEF Destroy, config, suite, Mine
  <2>2. ClusterTypeOK' /\ Histories' BY <1>0, <2>1 DEF ClusterTypeOK, Histories
  <2>3. OwnDevnet' /\ MadeByRun' BY <1>0, <2>1 DEF OwnDevnet, HasDevnet, MadeByRun
  <2>4. \A e \in enclaves' : creator[e] # run BY <1>0, <2>1 DEF MadeByRun
  <2>5. ~ reuse BY <1>0, <2>1 DEF OwnDevnet, HasDevnet
  <2>6. LeftBehind' BY <1>0, <2>1, <2>4, <2>5 DEF LeftBehind
  <2> QED BY <2>2, <2>3, <2>6 DEF IInv
<1>24. CASE DestroyFails BY <1>24, MovePreserves DEF DestroyFails, Goto, GaveUp
<1>25. CASE \E e \in Enclaves, fault \in Faults : TurnOff(e, fault)
  BY <1>25, MovePreserves DEF TurnOff
<1>26. CASE UNCHANGED vars BY <1>26, MovePreserves DEF vars
<1> QED
  BY <1>2, <1>3, <1>4, <1>5, <1>6, <1>7, <1>8, <1>9, <1>10, <1>11, <1>12, <1>13,
     <1>14, <1>15, <1>16, <1>17, <1>18, <1>19, <1>20, <1>21, <1>22, <1>23, <1>24,
     <1>25, <1>26
     DEF Next, Work, Failure

THEOREM SuiteInvariance == Spec => []IInv
BY InitEstablishes, StepPreserves, PTL DEF Spec

\* No step of any run removes a devnet that this run did not make, or whose suite asks
\* to keep it: the wrapper Destroy looks at agrees with the suite in either way it is made
\* (kurtosis.go:26-36, 87-123).
THEOREM DestroysOnlyItsOwn == Spec => OnlyOwnDestroyed
<1> DEFINE Removal == \A e \in enclaves \ enclaves' : creator[e] = run /\ ~ reuse
<1>1. IInv /\ [Next]_vars => [Removal]_vars
  <2> SUFFICES ASSUME IInv, Next, NEW e \in enclaves \ enclaves'
               PROVE  creator[e] = run /\ ~ reuse
    OBVIOUS
  <2>1. Destroy
    BY DEF Next, Work, Failure, RunAgain, Interrupt, ImportEnclave, Import, RefuseEnclave,
       EnclaveFails, CreateEnclave, Genesis, GenesisFails, GenesisStreamEnds, CreateClients,
       CreateClientsFails, StartFaults, PlanFails, RunPlan, ChecksFail, ChecksPass, Checked,
       Unhealthy, CreateFile, WriteFile, Write, SerializeFails, KeepEnclave, DestroyFails,
       TurnOff, Goto, cluster
  <2>2. e = Mine /\ pc = "destroy" /\ ~ keeps BY <2>1 DEF Destroy
  <2> QED BY <2>2 DEF IInv, OwnDevnet, HasDevnet
<1> QED BY <1>1, SuiteInvariance, PTL DEF Spec, OnlyOwnDestroyed

\* A devnet that is to be kept is there at the end of a run that goes well, and one that is
\* to be destroyed outlives only a run that does not (kurtosis.go:26-36, runtime.go:51-88).
THEOREM SuiteLeavesBehind == Spec => []LeftBehind
<1>1. IInv => LeftBehind BY DEF IInv
<1> QED BY <1>1, SuiteInvariance, PTL

\* Tests run without a network only in an enclave that an earlier run left half made.
THEOREM NetworkIsUp == Spec => []NetworkUpUnlessGenesisFailed
<1>1. IInv => NetworkUpUnlessGenesisFailed
  BY DEF IInv, OwnDevnet, HasDevnet, NetworkUpUnlessGenesisFailed
<1> QED BY <1>1, SuiteInvariance, PTL
-----------------------------------------------------------------------------
(* The faults under which a network is judged.                             *)

FaultTypeOK ==
    /\ faults \in [Enclaves -> SUBSET [run : Nat, test : Nat, waited : BOOLEAN]]
    /\ run \in Runs /\ test \in Nat

\* A fault a plan was to wait for is on while that plan runs, or its run was given up.
StillWaitedFor(fault) ==
    \/ fault.run \in failedRuns
    \/ fault.run = run /\ ((pc = "faulting" /\ fault.test = test) \/ pc \in GaveUp)

FaultsWaitedFor ==
    \A e \in Enclaves : \A fault \in faults[e] :
        /\ fault.run <= run
        /\ fault.run = run => e = Mine /\ (fault.waited <=> fault.test \in waits)
        /\ fault.waited => StillWaitedFor(fault)

FInv == FaultTypeOK /\ FaultsWaitedFor

LEMMA InitEstablishesFInv == Init => FInv
BY MaxRunsAssumption DEF Init, FInv, FaultTypeOK, FaultsWaitedFor, Runs

\* A step that leaves the faults and the test alone, and does not end a plan that waits.
LEMMA PassingPreserves ==
    ASSUME FInv, UNCHANGED <<faults, failedRuns, run, suite, test>>,
           pc' = pc \/ pc \notin {"faulting"} \cup GaveUp \/ pc' \in GaveUp
    PROVE  FInv'
<1>1. /\ Mine' = Mine /\ waits' = waits /\ faults' = faults /\ failedRuns' = failedRuns
      /\ run' = run /\ test' = test
  BY DEF Mine, suite
<1>2. FaultTypeOK' BY <1>1 DEF FInv, FaultTypeOK
<1>3. ASSUME NEW e \in Enclaves, NEW fault \in faults[e]
      PROVE  StillWaitedFor(fault) => StillWaitedFor(fault)'
  BY <1>1 DEF StillWaitedFor, GaveUp
<1>4. FaultsWaitedFor' BY <1>1, <1>3 DEF FInv, FaultsWaitedFor
<1> QED BY <1>2, <1>4 DEF FInv

\* Away from a plan that waits there is no fault that is still waited for, so that the
\* program may go on with its tests.
LEMMA GoingOnPreserves ==
    ASSUME FInv, UNCHANGED <<faults, failedRuns, run, suite>>, test' \in Nat,
           \A e \in Enclaves : \A fault \in faults[e] :
               fault.waited => fault.run \in failedRuns
    PROVE  FInv'
<1>1. /\ Mine' = Mine /\ waits' = waits /\ faults' = faults /\ failedRuns' = failedRuns
      /\ run' = run
  BY DEF Mine, suite
<1>2. FaultTypeOK' BY <1>1 DEF FInv, FaultTypeOK
<1>3. FaultsWaitedFor' BY <1>1 DEF FInv, FaultsWaitedFor, StillWaitedFor
<1> QED BY <1>2, <1>3 DEF FInv

LEMMA StepPreservesFInv == FInv /\ [Next]_vars => FInv'
<1> SUFFICES ASSUME FInv, [Next]_vars PROVE FInv' OBVIOUS
<1> USE DEF config
<1>0. FaultTypeOK /\ FaultsWaitedFor /\ run \in Nat /\ test \in Nat
  BY MaxRunsAssumption DEF FInv, FaultTypeOK, Runs
<1>1. Mine \in Enclaves BY <1>0, MineIsAnEnclave DEF FaultTypeOK
<1>2. CASE RunAgain
  <2>1. /\ run' = run + 1 /\ run' \in Runs /\ pc \in Final /\ pc' = "enclave"
        /\ failedRuns' = IF pc = "done" THEN failedRuns ELSE failedRuns \cup {run}
        /\ faults' = faults /\ test' = 1
    BY <1>0, <1>2, MaxRunsAssumption DEF RunAgain, Runs
  <2>2. FaultTypeOK' BY <1>0, <2>1 DEF FaultTypeOK
  <2>3. ASSUME NEW e \in Enclaves, NEW fault \in faults[e]
        PROVE  /\ fault.run <= run' /\ fault.run # run'
               /\ fault.waited => fault.run \in failedRuns'
    <3>1. fault.run \in Nat /\ fault.run <= run
      BY <1>0, <2>3 DEF FaultTypeOK, FaultsWaitedFor
    <3>2. fault.waited => StillWaitedFor(fault) BY <1>0, <2>3 DEF FaultsWaitedFor
    <3> QED BY <1>0, <2>1, <3>1, <3>2 DEF StillWaitedFor, GaveUp, Final
  <2>4. FaultsWaitedFor' BY <2>1, <2>3 DEF FaultsWaitedFor, StillWaitedFor
  <2> QED BY <2>2, <2>4 DEF FInv
<1>3. CASE Interrupt BY <1>3, PassingPreserves DEF Interrupt, GaveUp
<1>4. CASE ImportEnclave BY <1>4, PassingPreserves DEF ImportEnclave, Import, GaveUp
<1>5. CASE RefuseEnclave BY <1>5, PassingPreserves DEF RefuseEnclave, Goto, GaveUp
<1>6. CASE EnclaveFails BY <1>6, PassingPreserves DEF EnclaveFails, Goto, GaveUp
<1>7. CASE CreateEnclave BY <1>7, PassingPreserves DEF CreateEnclave, GaveUp
<1>8. CASE Genesis BY <1>8, PassingPreserves DEF Genesis, GaveUp
<1>9. CASE GenesisFails BY <1>9, PassingPreserves DEF GenesisFails, Goto, GaveUp
<1>10. CASE GenesisStreamEnds BY <1>10, PassingPreserves DEF GenesisStreamEnds, Goto, GaveUp
<1>11. CASE CreateClients BY <1>11, PassingPreserves DEF CreateClients, Goto, GaveUp
<1>12. CASE CreateClientsFails BY <1>12, PassingPreserves DEF CreateClientsFails, Goto, GaveUp
<1>13. CASE StartFaults
  <2>1. /\ pc = "plan" /\ pc' = "faulting" /\ UNCHANGED <<failedRuns, run, suite, test>>
        /\ faults' \in {faults, [faults EXCEPT ![Mine] = @ \cup {OwnFaults}]}
    BY <1>13 DEF StartFaults
  <2>2. /\ Mine' = Mine /\ waits' = waits /\ failedRuns' = failedRuns /\ run' = run
        /\ test' = test
    BY <2>1 DEF Mine, suite
  <2>3. /\ OwnFaults \in [run : Nat, test : Nat, waited : BOOLEAN]
        /\ OwnFaults.run = run /\ OwnFaults.test = test
        /\ OwnFaults.waited <=> test \in waits
    <3>1. OwnFaults.run = run /\ OwnFaults.test = test BY DEF OwnFaults
    <3>2. OwnFaults.waited <=> test \in waits BY Zenon DEF OwnFaults
    <3>3. (test \in waits) \in BOOLEAN OBVIOUS
    <3>4. OwnFaults \in [run : Nat, test : Nat, waited : BOOLEAN] BY <1>0, <3>3 DEF OwnFaults
    <3> QED BY <3>1, <3>2, <3>4
  <2>4. ASSUME NEW e \in Enclaves, NEW fault \in faults'[e]
        PROVE  fault \in faults[e] \/ (e = Mine /\ fault = OwnFaults)
    BY <1>0, <1>1, <2>1, <2>4 DEF FaultTypeOK
  <2>5. FaultTypeOK' BY <1>0, <1>1, <2>1, <2>2, <2>3 DEF FaultTypeOK
  <2>6. ASSUME NEW e \in Enclaves, NEW fault \in faults'[e]
        PROVE  /\ fault.run <= run
               /\ fault.run = run => e = Mine /\ (fault.waited <=> fault.test \in waits)
               /\ fault.waited => StillWaitedFor(fault)'
    <3>1. CASE fault \in faults[e]
      BY <1>0, <2>1, <2>2, <3>1 DEF FaultsWaitedFor, StillWaitedFor, GaveUp
    <3>2. CASE e = Mine /\ fault = OwnFaults
      BY <1>0, <2>1, <2>2, <2>3, <3>2 DEF StillWaitedFor
    <3> QED BY <2>4, <2>6, <3>1, <3>2
  <2>7. FaultsWaitedFor' BY <2>2, <2>6 DEF FaultsWaitedFor
  <2> QED BY <2>5, <2>7 DEF FInv
<1>14. CASE PlanFails BY <1>14, PassingPreserves DEF PlanFails, Goto, GaveUp
<1>15. CASE RunPlan
  <2>1. /\ pc = "faulting" /\ (test \in waits => OwnFaults \notin faults[Mine])
        /\ UNCHANGED <<faults, failedRuns, run, suite>> /\ test' \in Nat
    BY <1>0, <1>15 DEF RunPlan
  <2>2. ASSUME NEW e \in Enclaves, NEW fault \in faults[e], fault.waited
        PROVE  fault.run \in failedRuns
    <3> SUFFICES ASSUME fault.run \notin failedRuns PROVE FALSE OBVIOUS
    <3>1. fault.run = run /\ fault.test = test
      BY <1>0, <2>1, <2>2 DEF FaultsWaitedFor, StillWaitedFor, GaveUp
    <3>2. e = Mine /\ test \in waits BY <1>0, <2>2, <3>1 DEF FaultsWaitedFor
    <3>3. fault \in [run : Nat, test : Nat, waited : BOOLEAN] BY <1>0 DEF FaultTypeOK
    <3>4. fault = OwnFaults BY <2>2, <3>1, <3>2, <3>3 DEF OwnFaults
    <3> QED BY <2>1, <3>2, <3>4
  <2> QED BY <2>1, <2>2, GoingOnPreserves
<1>16. CASE ChecksFail BY <1>16, PassingPreserves DEF ChecksFail, Goto, GaveUp
<1>17. CASE ChecksPass
  <2>1. /\ pc = "health" /\ UNCHANGED <<faults, failedRuns, run, suite>> /\ test' \in Nat
    BY <1>0, <1>17 DEF ChecksPass, Checked
  <2>2. \A e \in Enclaves : \A fault \in faults[e] : fault.waited => fault.run \in failedRuns
    BY <1>0, <2>1 DEF FaultsWaitedFor, StillWaitedFor, GaveUp
  <2> QED BY <2>1, <2>2, GoingOnPreserves
<1>18. CASE Unhealthy BY <1>18, PassingPreserves DEF Unhealthy, Checked, GaveUp
<1>19. CASE CreateFile BY <1>19, PassingPreserves DEF CreateFile, GaveUp
<1>20. CASE WriteFile BY <1>20, PassingPreserves DEF WriteFile, Write, GaveUp
<1>21. CASE SerializeFails BY <1>21, PassingPreserves DEF SerializeFails, Goto, GaveUp
<1>22. CASE KeepEnclave BY <1>22, PassingPreserves DEF KeepEnclave, Goto, GaveUp
<1>23. CASE Destroy
  <2>1. /\ pc = "destroy" /\ pc' = "done" /\ UNCHANGED <<failedRuns, run, suite, test>>
        /\ faults' = [faults EXCEPT ![Mine] = {}]
    BY <1>23 DEF Destroy
  <2>2. /\ Mine' = Mine /\ waits' = waits /\ failedRuns' = failedRuns /\ run' = run
        /\ test' = test
    BY <2>1 DEF Mine, suite
  <2>3. FaultTypeOK' BY <1>0, <2>1, <2>2 DEF FaultTypeOK
  <2>4. ASSUME NEW e \in Enclaves PROVE faults'[e] \subseteq faults[e]
    BY <1>0, <2>1, <2>4 DEF FaultTypeOK
  <2>5. FaultsWaitedFor'
    BY <1>0, <2>1, <2>2, <2>4 DEF FaultsWaitedFor, StillWaitedFor, GaveUp
  <2> QED BY <2>3, <2>5 DEF FInv
<1>24. CASE DestroyFails BY <1>24, PassingPreserves DEF DestroyFails, Goto, GaveUp
<1>25. CASE \E e \in Enclaves, fault \in Faults : TurnOff(e, fault)
  <2>1. PICK e \in Enclaves, fault \in Faults : TurnOff(e, fault) BY <1>25
  <2>2. /\ UNCHANGED <<failedRuns, run, suite, pc, test>>
        /\ faults' = [faults EXCEPT ![e] = @ \ {fault}]
    BY <2>1 DEF TurnOff
  <2>3. /\ Mine' = Mine /\ waits' = waits /\ failedRuns' = failedRuns /\ run' = run
        /\ test' = test /\ pc' = pc
    BY <2>2 DEF Mine, suite
  <2>4. FaultTypeOK' BY <1>0, <2>2, <2>3 DEF FaultTypeOK
  <2>5. ASSUME NEW other \in Enclaves PROVE faults'[other] \subseteq faults[other]
    BY <1>0, <2>2, <2>5 DEF FaultTypeOK
  <2>6. FaultsWaitedFor'
    BY <1>0, <2>3, <2>5 DEF FaultsWaitedFor, StillWaitedFor
  <2> QED BY <2>4, <2>6 DEF FInv
<1>26. CASE UNCHANGED vars BY <1>26, PassingPreserves DEF vars
<1> QED
  BY <1>2, <1>3, <1>4, <1>5, <1>6, <1>7, <1>8, <1>9, <1>10, <1>11, <1>12, <1>13,
     <1>14, <1>15, <1>16, <1>17, <1>18, <1>19, <1>20, <1>21, <1>22, <1>23, <1>24,
     <1>25, <1>26
     DEF Next, Work, Failure

\* No network is judged under a fault that a plan of this run was to wait for, nor under
\* one of an earlier run that ended well (executor.go:112-134, runtime.go:41-80).
THEOREM SuiteJudgesAlone == Spec => []JudgedAlone
<1>1. FInv => JudgedAlone
  BY MineIsAnEnclave DEF FInv, FaultTypeOK, FaultsWaitedFor, StillWaitedFor, GaveUp, JudgedAlone
<1> QED BY <1>1, InitEstablishesFInv, StepPreservesFInv, PTL DEF Spec

-----------------------------------------------------------------------------
(* The artifacts of a run and the file they are written to.  A file says   *)
(* what the run had come to when it was written, so the invariant says it  *)
(* of the artifacts at every place before.                                 *)

Early == {"enclave", "genesis", "streamClosed", "clients"}
Testing == {"plan", "faulting", "health"}

ArtifactsTypeOK ==
    /\ artifacts \in Seq(TestArtifacts)
    /\ checks \in SUBSET (1 .. Tests)
    /\ test \in 1 .. (Tests + 1)
    /\ pc \in Places \cup Final
    /\ file \in SUBSET {[whole |-> whole, tests |-> artifacts] : whole \in BOOLEAN}

TestsListed == {artifacts[i].test : i \in 1 .. Len(artifacts)}

ListedInOrder ==
    \A i \in 1 .. Len(artifacts) : \A j \in 1 .. (i - 1) :
        artifacts[j].passed /\ artifacts[j].test < artifacts[i].test

\* The artifacts tell how far the suite was run.
ListedForSuite ==
    TestsListed = IF Len(artifacts) = 0 \/ artifacts[Len(artifacts)].passed
                  THEN checks
                  ELSE {t \in checks : t <= artifacts[Len(artifacts)].test}

\* Before the suite is over, every test so far that has checks has passed them.
ListedSoFar ==
    /\ \A i \in 1 .. Len(artifacts) : artifacts[i].passed
    /\ TestsListed = {t \in checks : t < test}

TestsAtPlace ==
    /\ pc \in Early => test = 1 /\ artifacts = <<>>
    /\ pc \in Testing => test \in 1 .. Tests
    /\ pc = "health" => test \in checks
    /\ pc \in Early \cup Testing => ListedSoFar /\ file = {}
    /\ pc = "serialize" => file = {}
    /\ pc \in {"destroy", "done"} => \E results \in file : results.whole
    /\ pc \in {"serialize", "write", "destroy", "done"} \/ file # {} => ListedForSuite

AInv == ArtifactsTypeOK /\ ListedInOrder /\ TestsAtPlace

\* What the tests before a test, and up to it, are.
LEMMA TestsBefore ==
    ASSUME NEW S \in SUBSET (1 .. Tests)
    PROVE  /\ {t \in S : t < 1} = {}
           /\ {t \in S : t < Tests + 1} = S
           /\ \A n \in Nat :
              /\ {t \in S : t < n + 1} = {t \in S : t <= n}
              /\ n \in S => {t \in S : t <= n} = {t \in S : t < n} \cup {n}
              /\ n \notin S => {t \in S : t < n + 1} = {t \in S : t < n}
<1>1. \A t \in S : t \in Nat /\ 1 <= t /\ t <= Tests BY TestsAssumption
<1>2. {t \in S : t < 1} = {}
  <2>1. \A t \in S : ~ (t < 1) BY <1>1
  <2> QED BY <2>1
<1>3. {t \in S : t < Tests + 1} = S
  <2>1. \A t \in S : t < Tests + 1 BY <1>1, TestsAssumption
  <2> QED BY <2>1
<1>4. ASSUME NEW n \in Nat
      PROVE  /\ {t \in S : t < n + 1} = {t \in S : t <= n}
             /\ n \in S => {t \in S : t <= n} = {t \in S : t < n} \cup {n}
             /\ n \notin S => {t \in S : t < n + 1} = {t \in S : t < n}
  <2>1. \A t \in S : (t < n + 1 <=> t <= n) /\ (t <= n <=> t < n \/ t = n) BY <1>1
  <2> QED BY <2>1
<1> QED BY <1>2, <1>3, <1>4

LEMMA NothingListed == ASSUME artifacts = <<>> PROVE TestsListed = {} /\ Len(artifacts) = 0
BY DEF TestsListed

LEMMA InitEstablishesAInv == Init => AInv
<1> SUFFICES ASSUME Init PROVE AInv OBVIOUS
<1>1. /\ artifacts = <<>> /\ Len(artifacts) = 0 /\ test = 1 /\ file = {} /\ pc = "enclave"
      /\ checks \in SUBSET (1 .. Tests)
  BY DEF Init
<1>2. ArtifactsTypeOK BY <1>1, TestsAssumption DEF ArtifactsTypeOK, Places
<1>3. ListedInOrder BY <1>1 DEF ListedInOrder
<1>4. ListedSoFar BY <1>1, TestsBefore, NothingListed DEF ListedSoFar
<1> QED BY <1>1, <1>2, <1>3, <1>4 DEF AInv, TestsAtPlace, Early, Testing

\* A step that leaves the artifacts and the test alone: on to a place that asks no more
\* of them, or out of the run.
LEMMA KeepingArtifactsPreserves ==
    ASSUME AInv, UNCHANGED <<checks, test, artifacts, file>>,
           \/ pc' = pc
           \/ pc' \in GaveUp
           \/ pc \in Early /\ pc' \in Early
           \/ pc = "plan" /\ pc' = "faulting"
           \/ pc = "faulting" /\ pc' = "health" /\ test \in checks
           \/ pc = "destroy" /\ pc' = "done"
    PROVE  AInv'
<1>0. ArtifactsTypeOK /\ ListedInOrder /\ TestsAtPlace BY DEF AInv
<1>1. ArtifactsTypeOK' BY <1>0 DEF ArtifactsTypeOK, Places, Final, GaveUp, Early
<1>2. ListedInOrder' BY <1>0 DEF ListedInOrder
<1>3. /\ ListedSoFar => ListedSoFar'
      /\ ListedForSuite => ListedForSuite'
  BY DEF ListedSoFar, ListedForSuite, TestsListed
<1>4. TestsAtPlace' BY <1>0, <1>3 DEF TestsAtPlace, Early, Testing, GaveUp
<1> QED BY <1>1, <1>2, <1>4 DEF AInv

\* On to the next test, or to the end of the suite.
LEMMA NextTestPreserves ==
    ASSUME ArtifactsTypeOK', ListedInOrder', ListedSoFar', file' = {}, checks' = checks,
           test \in 1 .. Tests, test' = test + 1, pc' = AfterTest(test)
    PROVE  AInv'
<1>1. checks' \subseteq 1 .. Tests BY DEF ArtifactsTypeOK
<1>2. pc' \in {"plan", "serialize"} /\ (pc' = "plan" => test' \in 1 .. Tests)
  BY TestsAssumption DEF AfterTest
<1>3. pc' = "serialize" => ListedForSuite'
  <2> SUFFICES ASSUME pc' = "serialize" PROVE ListedForSuite' OBVIOUS
  <2>1. test' = Tests + 1 BY TestsAssumption DEF AfterTest
  <2>2. {t \in checks' : t < test'} = checks' BY <1>1, <2>1, TestsBefore
  <2>3. TestsListed' = checks' BY <2>2 DEF ListedSoFar
  <2>4. Len(artifacts') \in Nat BY DEF ArtifactsTypeOK
  <2>5. Len(artifacts') = 0 \/ artifacts'[Len(artifacts')].passed
    BY <2>4 DEF ListedSoFar
  <2> QED BY <2>3, <2>5 DEF ListedForSuite
<1>4. TestsAtPlace' BY <1>2, <1>3 DEF TestsAtPlace, Early, Testing
<1> QED BY <1>4 DEF AInv

\* A test is listed after those before it.
LEMMA CheckedAppends ==
    ASSUME AInv, NEW passed \in BOOLEAN, Checked(passed)
    PROVE  /\ artifacts' \in Seq(TestArtifacts)
           /\ Len(artifacts') = Len(artifacts) + 1 /\ Len(artifacts) \in Nat
           /\ artifacts'[Len(artifacts')] = [test |-> test, passed |-> passed]
           /\ \A i \in 1 .. Len(artifacts) : artifacts'[i] = artifacts[i]
           /\ ListedInOrder'
           /\ TestsListed' = {t \in checks : t <= test}
<1> DEFINE new == [test |-> test, passed |-> passed]
           n == Len(artifacts)
<1>0. ArtifactsTypeOK /\ ListedInOrder /\ TestsAtPlace BY DEF AInv
<1>1. test \in 1 .. Tests /\ test \in checks /\ ListedSoFar /\ checks \subseteq 1 .. Tests
  BY <1>0 DEF Checked, TestsAtPlace, Testing, ArtifactsTypeOK
<1>2. artifacts \in Seq(TestArtifacts) /\ n \in Nat BY <1>0 DEF ArtifactsTypeOK
<1>3. new \in TestArtifacts BY <1>1 DEF TestArtifacts
<1>4. artifacts' = Append(artifacts, new) BY DEF Checked
<1>5. /\ artifacts' \in Seq(TestArtifacts) /\ Len(artifacts') = n + 1
      /\ artifacts'[n + 1] = new /\ \A i \in 1 .. n : artifacts'[i] = artifacts[i]
  BY <1>2, <1>3, <1>4
<1>6. \A i \in 1 .. n : /\ artifacts[i].passed /\ artifacts[i].test < test
                       /\ artifacts[i].test \in TestsListed
  BY <1>1 DEF ListedSoFar, TestsListed
<1>7. ListedInOrder'
  <2> SUFFICES ASSUME NEW i \in 1 .. (n + 1), NEW j \in 1 .. (i - 1)
               PROVE  artifacts'[j].passed /\ artifacts'[j].test < artifacts'[i].test
    BY <1>5 DEF ListedInOrder
  <2>1. j \in 1 .. n /\ artifacts'[j] = artifacts[j] BY <1>2, <1>5
  <2>2. CASE i = n + 1 BY <1>5, <1>6, <2>1, <2>2
  <2>3. CASE i # n + 1
    <3>1. i \in 1 .. n BY <1>2, <2>3
    <3> QED BY <1>0, <1>5, <2>1, <3>1 DEF ListedInOrder
  <2> QED BY <2>2, <2>3
<1>8. TestsListed' = TestsListed \cup {test}
  <2>1. TestsListed' = {artifacts'[i].test : i \in 1 .. (n + 1)} BY <1>5 DEF TestsListed
  <2>2. 1 .. (n + 1) = (1 .. n) \cup {n + 1} BY <1>2
  <2>3. TestsListed = {artifacts[i].test : i \in 1 .. n} BY DEF TestsListed
  <2> QED BY <1>5, <2>1, <2>2, <2>3
<1>9. TestsListed' = {t \in checks : t <= test}
  <2>1. {t \in checks : t <= test} = {t \in checks : t < test} \cup {test}
    <3>1. test \in Nat /\ checks \in SUBSET (1 .. Tests) BY <1>1, TestsAssumption
    <3> QED BY <1>1, <3>1, TestsBefore
  <2> QED BY <1>1, <1>8, <2>1 DEF ListedSoFar
<1> QED BY <1>2, <1>5, <1>7, <1>9

LEMMA StepPreservesAInv == AInv /\ [Next]_vars => AInv'
<1> SUFFICES ASSUME AInv, [Next]_vars PROVE AInv' OBVIOUS
<1>0. /\ ArtifactsTypeOK /\ ListedInOrder /\ TestsAtPlace
      /\ Len(artifacts) \in Nat /\ test \in Nat /\ checks \subseteq 1 .. Tests
  BY TestsAssumption DEF AInv, ArtifactsTypeOK
<1> USE DEF Goto, config, suite, GaveUp, Early
<1>1. CASE RunAgain
  <2>1. /\ artifacts' = <<>> /\ Len(artifacts') = 0 /\ test' = 1 /\ file' = {}
        /\ pc' = "enclave" /\ checks' \in SUBSET (1 .. Tests)
    BY <1>1 DEF RunAgain
  <2>2. ArtifactsTypeOK' BY <2>1, TestsAssumption DEF ArtifactsTypeOK, Places
  <2>3. ListedInOrder' BY <2>1 DEF ListedInOrder
  <2>4. ListedSoFar'
    <3>1. TestsListed' = {} BY <2>1 DEF TestsListed
    <3> QED BY <2>1, <3>1, TestsBefore DEF ListedSoFar
  <2> QED BY <2>1, <2>2, <2>3, <2>4 DEF AInv, TestsAtPlace, Testing
<1>2. CASE Interrupt BY <1>2, KeepingArtifactsPreserves DEF Interrupt
<1>3. CASE ImportEnclave BY <1>3, KeepingArtifactsPreserves DEF ImportEnclave, Import
<1>4. CASE RefuseEnclave BY <1>4, KeepingArtifactsPreserves DEF RefuseEnclave
<1>5. CASE EnclaveFails BY <1>5, KeepingArtifactsPreserves DEF EnclaveFails
<1>6. CASE CreateEnclave BY <1>6, KeepingArtifactsPreserves DEF CreateEnclave
<1>7. CASE Genesis BY <1>7, KeepingArtifactsPreserves DEF Genesis
<1>8. CASE GenesisFails BY <1>8, KeepingArtifactsPreserves DEF GenesisFails
<1>9. CASE GenesisStreamEnds BY <1>9, KeepingArtifactsPreserves DEF GenesisStreamEnds
<1>10. CASE CreateClients
  <2>1. /\ UNCHANGED <<checks, test, artifacts, file>> /\ test = 1 /\ file = {} /\ ListedSoFar
        /\ artifacts = <<>> /\ Len(artifacts) = 0
        /\ pc' = IF Tests = 0 THEN "serialize" ELSE "plan"
    BY <1>0, <1>10 DEF CreateClients, TestsAtPlace
  <2>2. ArtifactsTypeOK' BY <1>0, <2>1 DEF ArtifactsTypeOK, Places
  <2>3. ListedInOrder' /\ ListedSoFar'
    BY <1>0, <2>1 DEF ListedInOrder, ListedSoFar, TestsListed
  <2>4. Tests = 0 => ListedForSuite'
    <3>1. Tests = 0 => checks = {} BY <1>0
    <3>2. TestsListed' = {} /\ Len(artifacts') = 0 BY <2>1 DEF TestsListed
    <3> QED BY <2>1, <3>1, <3>2 DEF ListedForSuite
  <2>5. TestsAtPlace' BY <2>1, <2>3, <2>4, TestsAssumption DEF TestsAtPlace, Testing
  <2> QED BY <2>2, <2>3, <2>5 DEF AInv
<1>11. CASE CreateClientsFails BY <1>11, KeepingArtifactsPreserves DEF CreateClientsFails
<1>12. CASE StartFaults BY <1>12, KeepingArtifactsPreserves DEF StartFaults
<1>13. CASE PlanFails BY <1>13, KeepingArtifactsPreserves DEF PlanFails
<1>14. CASE RunPlan
  <2>1. CASE test \in checks BY <1>14, <2>1, KeepingArtifactsPreserves DEF RunPlan
  <2>2. CASE test \notin checks
    <3>1. /\ UNCHANGED <<checks, artifacts, file>> /\ file = {} /\ ListedSoFar
          /\ test \in 1 .. Tests /\ test' = test + 1 /\ pc' = AfterTest(test)
      BY <1>0, <1>14, <2>2 DEF RunPlan, TestsAtPlace, Testing
    <3>2. {t \in checks : t < test'} = {t \in checks : t < test}
      <4>1. {t \in checks : t < test + 1} = {t \in checks : t < test}
        BY <1>0, <2>2, TestsBefore
      <4> QED BY <3>1, <4>1
    <3>3. ArtifactsTypeOK' /\ ListedInOrder' /\ ListedSoFar'
      BY <1>0, <3>1, <3>2, TestsAssumption
         DEF ArtifactsTypeOK, Places, AfterTest, ListedInOrder, ListedSoFar, TestsListed
    <3> QED BY <3>1, <3>3, NextTestPreserves
  <2> QED BY <2>1, <2>2
<1>15. CASE ChecksFail BY <1>15, KeepingArtifactsPreserves DEF ChecksFail
<1>16. CASE ChecksPass
  <2>1. /\ Checked(TRUE) /\ UNCHANGED <<checks, file>> /\ file = {} /\ ListedSoFar
        /\ test \in 1 .. Tests /\ test' = test + 1 /\ pc' = AfterTest(test)
    BY <1>0, <1>16 DEF ChecksPass, Checked, TestsAtPlace, Testing
  <2>2. /\ artifacts' \in Seq(TestArtifacts)
        /\ Len(artifacts') = Len(artifacts) + 1
        /\ artifacts'[Len(artifacts')] = [test |-> test, passed |-> TRUE]
        /\ \A i \in 1 .. Len(artifacts) : artifacts'[i] = artifacts[i]
        /\ ListedInOrder' /\ TestsListed' = {t \in checks : t <= test}
    BY <2>1, CheckedAppends
  <2>3. ArtifactsTypeOK'
    BY <1>0, <2>1, <2>2, TestsAssumption DEF ArtifactsTypeOK, Places, AfterTest
  <2>4. \A i \in 1 .. Len(artifacts') : artifacts'[i].passed
    <3> SUFFICES ASSUME NEW i \in 1 .. Len(artifacts') PROVE artifacts'[i].passed OBVIOUS
    <3>1. CASE i = Len(artifacts') BY <2>2, <3>1
    <3>2. CASE i # Len(artifacts')
      <4>1. i \in 1 .. Len(artifacts) BY <1>0, <2>2, <3>2
      <4> QED BY <2>1, <2>2, <4>1 DEF ListedSoFar
    <3> QED BY <3>1, <3>2
  <2>5. {t \in checks : t <= test} = {t \in checks' : t < test'}
    <3>1. {t \in checks : t < test + 1} = {t \in checks : t <= test} BY <1>0, TestsBefore
    <3> QED BY <2>1, <3>1
  <2>6. ListedSoFar' BY <2>2, <2>4, <2>5 DEF ListedSoFar
  <2> QED BY <2>1, <2>2, <2>3, <2>6, NextTestPreserves
<1>17. CASE Unhealthy
  <2>1. /\ Checked(FALSE) /\ UNCHANGED <<checks, test, file>> /\ file = {}
        /\ pc' = "serialize"
    BY <1>0, <1>17 DEF Unhealthy, Checked, TestsAtPlace, Testing
  <2>2. /\ artifacts' \in Seq(TestArtifacts)
        /\ Len(artifacts') = Len(artifacts) + 1
        /\ artifacts'[Len(artifacts')] = [test |-> test, passed |-> FALSE]
        /\ ListedInOrder' /\ TestsListed' = {t \in checks : t <= test}
    BY <2>1, CheckedAppends
  <2>3. ArtifactsTypeOK' BY <1>0, <2>1, <2>2 DEF ArtifactsTypeOK, Places
  <2>4. ListedForSuite' BY <1>0, <2>1, <2>2 DEF ListedForSuite
  <2>5. TestsAtPlace' BY <2>1, <2>4 DEF TestsAtPlace, Testing
  <2> QED BY <2>2, <2>3, <2>5 DEF AInv
<1>18. CASE CreateFile
  <2>1. /\ UNCHANGED <<checks, test, artifacts>> /\ pc' = "write" /\ ListedForSuite
        /\ file' = {[whole |-> FALSE, tests |-> artifacts]}
    BY <1>0, <1>18 DEF CreateFile, TestsAtPlace
  <2>2. ArtifactsTypeOK' BY <1>0, <2>1 DEF ArtifactsTypeOK, Places
  <2>3. ListedInOrder' /\ ListedForSuite'
    BY <1>0, <2>1 DEF ListedInOrder, ListedForSuite, TestsListed
  <2>4. TestsAtPlace' BY <2>1, <2>3 DEF TestsAtPlace, Testing
  <2> QED BY <2>2, <2>3, <2>4 DEF AInv
<1>19. CASE WriteFile
  <2>1. /\ UNCHANGED <<checks, test, artifacts>> /\ pc' = "destroy" /\ ListedForSuite
        /\ file' = {[whole |-> TRUE, tests |-> artifacts]}
    BY <1>0, <1>19 DEF WriteFile, Write, TestsAtPlace
  <2>2. ArtifactsTypeOK' BY <1>0, <2>1 DEF ArtifactsTypeOK, Places
  <2>3. ListedInOrder' /\ ListedForSuite'
    BY <1>0, <2>1 DEF ListedInOrder, ListedForSuite, TestsListed
  <2>4. \E results \in file' : results.whole BY <2>1
  <2>5. TestsAtPlace' BY <2>1, <2>3, <2>4 DEF TestsAtPlace, Testing
  <2> QED BY <2>2, <2>3, <2>5 DEF AInv
<1>20. CASE SerializeFails BY <1>20, KeepingArtifactsPreserves DEF SerializeFails
<1>21. CASE KeepEnclave BY <1>21, KeepingArtifactsPreserves DEF KeepEnclave
<1>22. CASE Destroy BY <1>22, KeepingArtifactsPreserves DEF Destroy
<1>23. CASE DestroyFails BY <1>23, KeepingArtifactsPreserves DEF DestroyFails
<1>24. CASE \E e \in Enclaves, fault \in Faults : TurnOff(e, fault)
  BY <1>24, KeepingArtifactsPreserves DEF TurnOff
<1>25. CASE UNCHANGED vars BY <1>25, KeepingArtifactsPreserves DEF vars
<1> QED
  BY <1>1, <1>2, <1>3, <1>4, <1>5, <1>6, <1>7, <1>8, <1>9, <1>10, <1>11, <1>12,
     <1>13, <1>14, <1>15, <1>16, <1>17, <1>18, <1>19, <1>20, <1>21, <1>22, <1>23,
     <1>24, <1>25
     DEF Next, Work, Failure

\* A run that ends well has written its results to their end, and whenever there is such a
\* file, it tells by itself how far the suite was run and which tests passed (artifacts.go,
\* runtime.go).
THEOREM ResultsSpeakForSuite == Spec => []FileSpeaksForSuite
<1>1. AInv => FileSpeaksForSuite
  <2> SUFFICES ASSUME AInv PROVE FileSpeaksForSuite OBVIOUS
  <2>1. /\ pc = "done" => \E results \in file : results.whole
        /\ file # {} => ListedInOrder /\ ListedForSuite
    BY DEF AInv, TestsAtPlace
  <2>2. \A results \in file : results.tests = artifacts BY DEF AInv, ArtifactsTypeOK
  <2> QED BY <2>1, <2>2 DEF FileSpeaksForSuite, ListedInOrder, ListedForSuite, TestsListed
<1> QED BY <1>1, InitEstablishesAInv, StepPreservesAInv, PTL DEF Spec

-----------------------------------------------------------------------------
(* Types, from what the invariants say of enclaves and of tests.           *)

LEMMA StepPreservesTypes == TypeOK /\ IInv /\ AInv /\ AInv' /\ IInv' /\ [Next]_vars => TypeOK'
<1> SUFFICES ASSUME TypeOK, IInv, AInv, AInv', IInv', [Next]_vars PROVE TypeOK' OBVIOUS
<1> USE DEF config
<1>0. /\ Mine \in Enclaves /\ run \in Nat \ {0} /\ run \in Runs
      /\ enclaves' \in SUBSET Enclaves /\ creator' \in [Enclaves -> 0 .. MaxRuns]
      /\ run' \in Runs /\ namespace' \in BOOLEAN /\ reuse' \in BOOLEAN
      /\ checks' \in SUBSET (1 .. Tests) /\ pc' \in Places \cup Final
      /\ test' \in 1 .. (Tests + 1) /\ artifacts' \in Seq(TestArtifacts)
      /\ file' \in SUBSET {[whole |-> whole, tests |-> artifacts'] : whole \in BOOLEAN}
      /\ keeps' \in BOOLEAN
  BY MineIsAnEnclave, MaxRunsAssumption
     DEF IInv, AInv, ClusterTypeOK, ArtifactsTypeOK, Runs
<1>1. /\ running' \in SUBSET enclaves' /\ disposable' \in SUBSET Enclaves
      /\ faults' \in [Enclaves -> SUBSET Faults] /\ waits' \in SUBSET (1 .. Tests)
      /\ failedRuns' \in SUBSET (1 .. (run' - 1))
  <2>0. /\ running \in SUBSET enclaves /\ disposable \in SUBSET Enclaves
        /\ faults \in [Enclaves -> SUBSET Faults] /\ waits \in SUBSET (1 .. Tests)
        /\ failedRuns \in SUBSET (1 .. (run - 1))
    BY DEF TypeOK
  <2>1. CASE RunAgain
    <3>1. 1 .. (run - 1) \subseteq 1 .. run /\ run \in 1 .. run BY <1>0
    <3>2. run' - 1 = run BY <1>0, <2>1 DEF RunAgain
    <3> QED BY <2>0, <2>1, <3>1, <3>2 DEF RunAgain, cluster
  <2>2. CASE CreateEnclave BY <1>0, <2>0, <2>2 DEF CreateEnclave, suite
  <2>3. CASE Genesis BY <2>0, <2>3 DEF Genesis, suite, IInv, OwnDevnet
  <2>4. CASE StartFaults
    <3>1. OwnFaults \in Faults
      <4>1. test \in 1 .. Tests BY <2>4 DEF StartFaults, AInv, TestsAtPlace, Testing
      <4>2. (test \in waits) \in BOOLEAN OBVIOUS
      <4> QED BY <1>0, <4>1, <4>2 DEF OwnFaults, Faults
    <3> QED BY <1>0, <2>0, <2>4, <3>1 DEF StartFaults, cluster, suite
  <2>5. CASE Destroy BY <1>0, <2>0, <2>5 DEF Destroy, suite
  <2>6. CASE \E e \in Enclaves, fault \in Faults : TurnOff(e, fault)
    BY <2>0, <2>6 DEF TurnOff, cluster, suite
  <2>7. CASE UNCHANGED <<cluster, faults, failedRuns, run, suite>>
    BY <2>0, <2>7 DEF cluster, suite
  <2> QED
    BY <2>1, <2>2, <2>3, <2>4, <2>5, <2>6, <2>7
       DEF Next, Work, Failure, Interrupt, ImportEnclave, Import, RefuseEnclave,
           EnclaveFails, GenesisFails, GenesisStreamEnds, CreateClients,
           CreateClientsFails, PlanFails, RunPlan, ChecksFail, ChecksPass, Checked,
           Unhealthy, CreateFile, WriteFile, Write, SerializeFails, KeepEnclave,
           DestroyFails, Goto, vars
<1> QED BY <1>0, <1>1 DEF TypeOK

\* The variables keep their types over any number of runs: a network is only up in an
\* enclave there is, and the faults on are those of tests of runs so far.
THEOREM SuiteTypeCorrect == Spec => []TypeOK
<1>1. Init => TypeOK
  <2> SUFFICES ASSUME Init PROVE TypeOK OBVIOUS
  <2>1. keeps \in BOOLEAN BY Zenon DEF Init
  <2> QED
    BY <2>1, TestsAssumption, MaxRunsAssumption
       DEF Init, TypeOK, Enclaves, Runs, Named, Places
<1> QED
  BY <1>1, SuiteInvariance, InitEstablishesAInv, StepPreservesAInv, StepPreservesTypes,
     PTL DEF Spec
=============================================================================
