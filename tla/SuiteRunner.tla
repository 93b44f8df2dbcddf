----------------------------- MODULE SuiteRunner -----------------------------
(***************************************************************************)
(* pkg/runtime.go with pkg/runtime, pkg/kurtosis and pkg/artifacts: runs of*)
(* a suite one after the other, against the enclaves that Kurtosis keeps   *)
(* between them.  A run may be cut short anywhere: nothing in the program  *)
(* handles a signal.                                                       *)
(*                                                                         *)
(* What a test does is PlanRun, which TestExecutor implements; what its    *)
(* checks do is HealthChecker.  Here a test is its faults going on, Chaos  *)
(* Mesh turning them off, and any of the ways its plan can end; and its    *)
(* checks are one step.                                                    *)
(***************************************************************************)
EXTENDS Naturals, Sequences, FiniteSets

CONSTANTS
    Tests,      \* how many tests the suite has
    MaxRuns     \* bound: how many times the program is run

ASSUME TestsAssumption == Tests \in Nat
ASSUME MaxRunsAssumption == MaxRuns \in Nat \ {0}

Runs == 1 .. MaxRuns

\* The enclave of existingDevnetNamespace, and those named after the time of a run.
Named == 0
Enclaves == {Named} \cup Runs

\* The faults of a test, and whether its plan was to wait for them.
Faults == [run : Runs, test : 1 .. Tests, waited : BOOLEAN]

VARIABLES
    enclaves,    \* the enclaves that exist
    creator,     \* history: the run that created each of them, 0 for somebody else
    running,     \* the enclaves whose network is up: its genesis succeeded
    disposable,  \* history: the enclaves made by a run that is to destroy them
    faults,      \* the faults that are on in each enclave
    failedRuns,  \* history: the runs before this one that did not end well
    run,         \* how often the program has been run
    namespace,   \* whether the suite has an existingDevnetNamespace
    reuse,       \* ReuseDevnetBetweenRuns
    checks,      \* the tests with EnableChecks
    waits,       \* the tests whose plans end by waiting for faults that do recover
    keeps,       \* reuseDevnetBetweenRuns of the EnclaveContextWrapper, once there is one
    pc,          \* where the run is
    test,        \* the test being run
    artifacts,   \* testArtifacts: the tests checked, and whether they passed
    file         \* the artifact files of this run, one at most: what was to be written,
                 \* and whether all of it was

suite == <<namespace, reuse, checks, waits>>
config == <<suite, keeps>>
cluster == <<enclaves, creator, running, disposable>>
vars == <<cluster, faults, failedRuns, run, config, pc, test, artifacts, file>>

Places == {"enclave", "genesis", "streamClosed", "clients", "plan", "faulting", "health",
           "serialize", "write", "destroy"}
Final == {"done", "error", "panicked", "interrupted"}

Init ==
    /\ enclaves \in SUBSET {Named}
    /\ creator = [e \in Enclaves |-> 0]
    /\ running = enclaves
    /\ disposable = {}
    /\ faults = [e \in Enclaves |-> {}]
    /\ failedRuns = {}
    /\ run = 1
    /\ namespace \in BOOLEAN /\ reuse \in BOOLEAN
    /\ checks \in SUBSET (1 .. Tests) /\ waits \in SUBSET (1 .. Tests)
    /\ keeps = FALSE
    /\ pc = "enclave"
    /\ test = 1
    /\ artifacts = <<>>
    /\ file = {}

\* The suite file may be edited between two runs.
RunAgain ==
    /\ pc \in Final
    /\ run < MaxRuns
    /\ run' = run + 1
    /\ failedRuns' = IF pc = "done" THEN failedRuns ELSE failedRuns \cup {run}
    /\ namespace' \in BOOLEAN /\ reuse' \in BOOLEAN
    /\ checks' \in SUBSET (1 .. Tests) /\ waits' \in SUBSET (1 .. Tests)
    /\ keeps' = FALSE
    /\ pc' = "enclave"
    /\ test' = 1
    /\ artifacts' = <<>>
    /\ file' = {}
    /\ UNCHANGED <<cluster, faults>>

Interrupt ==
    /\ pc \in Places
    /\ pc' = "interrupted"
    /\ UNCHANGED <<cluster, faults, failedRuns, run, config, test, artifacts, file>>

Goto(place) ==
    /\ pc' = place
    /\ UNCHANGED <<cluster, faults, failedRuns, run, config, test, artifacts, file>>

-----------------------------------------------------------------------------
(* SetupEnclave                                                            *)

\* getEnclaveName.
Mine == IF namespace THEN Named ELSE run

\* The wrapper of the enclave that the tests of this run are to use.
Import(kept) ==
    /\ pc = "enclave"
    /\ Mine \in enclaves
    /\ keeps' = kept
    /\ pc' = "clients"
    /\ UNCHANGED <<cluster, faults, failedRuns, run, suite, test, artifacts, file>>

\* Mutant: the wrapper of an imported enclave is not told to keep it.
ImportToDestroy == reuse /\ Import(FALSE)

\* An enclave of that name exists: its network is taken to be up, and it is kept.
ImportEnclave == reuse /\ Import(TRUE)

\* os.Exit(1).
RefuseEnclave == pc = "enclave" /\ Mine \in enclaves /\ ~ reuse /\ Goto("error")

\* The engine is not there, or says something other than that there is no enclave,
\* or cannot create one.  Without a namespace the log line before the test for the
\* error reads the enclave that was not made.
EnclaveFails ==
    /\ pc = "enclave"
    /\ Goto("error") \/ (~ namespace /\ Goto("panicked"))

\* Mutant: the network of a new enclave is not started.
CreateEnclaveOnly ==
    /\ pc = "enclave"
    /\ Mine \notin enclaves
    /\ enclaves' = enclaves \cup {Mine}
    /\ creator' = [creator EXCEPT ![Mine] = run]
    /\ disposable' = IF reuse THEN disposable \ {Mine} ELSE disposable \cup {Mine}
    /\ keeps' = reuse
    /\ pc' = "clients"
    /\ UNCHANGED <<running, faults, failedRuns, run, suite, test, artifacts, file>>

CreateEnclave ==
    /\ pc = "enclave"
    /\ Mine \notin enclaves
    /\ enclaves' = enclaves \cup {Mine}
    /\ creator' = [creator EXCEPT ![Mine] = run]
    /\ disposable' = IF reuse THEN disposable \ {Mine} ELSE disposable \cup {Mine}
    /\ keeps' = reuse
    /\ pc' = "genesis"
    /\ UNCHANGED <<running, faults, failedRuns, run, suite, test, artifacts, file>>

\* StartNetwork: the package ran to its end.
Genesis ==
    /\ pc = "genesis"
    /\ running' = running \cup {Mine}
    /\ pc' = "clients"
    /\ UNCHANGED <<enclaves, creator, disposable, faults, failedRuns, run, config, test,
                   artifacts, file>>

\* The enclave stays, with as much of a network as there is.
GenesisFails == pc = "genesis" /\ Goto("error")

\* Its loop reads from a channel that, once closed, gives nothing for ever.
GenesisStreamEnds == pc = "genesis" /\ Goto("streamClosed")

-----------------------------------------------------------------------------
(* The rest of StartTestSuite                                              *)

AfterTest(t) == IF t = Tests THEN "serialize" ELSE "plan"

CreateClients == pc = "clients" /\ Goto(IF Tests = 0 THEN "serialize" ELSE "plan")
CreateClientsFails == pc = "clients" /\ Goto("error")

\* The faults of the test being run.
OwnFaults == [run |-> run, test |-> test, waited |-> test \in waits]

\* RunTestPlan has created what faults it creates.
StartFaults ==
    /\ pc = "plan"
    /\ faults' \in {faults, [faults EXCEPT ![Mine] = @ \cup {OwnFaults}]}
    /\ pc' = "faulting"
    /\ UNCHANGED <<cluster, failedRuns, run, config, test, artifacts, file>>

\* Chaos Mesh has recovered the faults of a test, whether or not a run is going on.
TurnOff(e, fault) ==
    /\ fault \in faults[e]
    /\ faults' = [faults EXCEPT ![e] = @ \ {fault}]
    /\ UNCHANGED <<cluster, failedRuns, run, config, pc, test, artifacts, file>>

\* Mutant: the error is logged, and the next test is run.
PlanErrorIgnored ==
    /\ pc \in {"plan", "faulting"}
    /\ pc' = AfterTest(test) /\ test' = test + 1
    /\ UNCHANGED <<cluster, faults, failedRuns, run, config, artifacts, file>>

PlanFails == pc \in {"plan", "faulting"} /\ (Goto("error") \/ Goto("panicked"))

\* Mutant: a plan that waits does so for every fault of the devnet.
WaitForAllFaults ==
    /\ pc = "faulting"
    /\ test \in waits => faults[Mine] = {}
    /\ IF test \in checks
       THEN pc' = "health" /\ UNCHANGED test
       ELSE pc' = AfterTest(test) /\ test' = test + 1
    /\ UNCHANGED <<cluster, faults, failedRuns, run, config, artifacts, file>>

\* Its faults are waited for one test at a time: those of earlier tests and runs are not.
RunPlan ==
    /\ pc = "faulting"
    /\ test \in waits => OwnFaults \notin faults[Mine]
    /\ IF test \in checks
       THEN pc' = "health" /\ UNCHANGED test
       ELSE pc' = AfterTest(test) /\ test' = test + 1
    /\ UNCHANGED <<cluster, faults, failedRuns, run, config, artifacts, file>>

\* GetPodsUnderTest, or a round of checks.
ChecksFail == pc = "health" /\ (Goto("error") \/ Goto("panicked"))

Checked(passed) ==
    /\ pc = "health"
    /\ artifacts' = Append(artifacts, [test |-> test, passed |-> passed])
    /\ UNCHANGED <<cluster, faults, failedRuns, run, config, file>>

ChecksPass == Checked(TRUE) /\ pc' = AfterTest(test) /\ test' = test + 1

\* Mutant: the suite goes on after a test that failed.
GoOnUnhealthy == Checked(FALSE) /\ pc' = AfterTest(test) /\ test' = test + 1

\* The suite stops.
Unhealthy == Checked(FALSE) /\ pc' = "serialize" /\ UNCHANGED test

\* SerializeTestArtifacts: WriteFile makes the file and then fills it.
CreateFile ==
    /\ pc = "serialize"
    /\ file' = {[whole |-> FALSE, tests |-> artifacts]}
    /\ pc' = "write"
    /\ UNCHANGED <<cluster, faults, failedRuns, run, config, test, artifacts>>

Write(written) ==
    /\ pc = "write"
    /\ file' = {[whole |-> TRUE, tests |-> written]}
    /\ pc' = "destroy"
    /\ UNCHANGED <<cluster, faults, failedRuns, run, config, test, artifacts>>

\* Mutant: only the last test's artifact is written.
WriteLast ==
    Write(IF artifacts = <<>> THEN artifacts ELSE <<artifacts[Len(artifacts)]>>)

WriteFile == Write(artifacts)

\* Nothing takes away the file that could not be filled.
SerializeFails == pc \in {"serialize", "write"} /\ Goto("error")

KeepEnclave == pc = "destroy" /\ keeps /\ Goto("done")

\* Mutant: the enclave is destroyed whatever the suite says.
DestroyAnyEnclave ==
    /\ pc = "destroy"
    /\ enclaves' = enclaves \ {Mine}
    /\ running' = running \ {Mine}
    /\ faults' = [faults EXCEPT ![Mine] = {}]
    /\ pc' = "done"
    /\ UNCHANGED <<creator, disposable, failedRuns, run, config, test, artifacts, file>>

Destroy ==
    /\ pc = "destroy"
    /\ ~ keeps
    /\ enclaves' = enclaves \ {Mine}
    /\ running' = running \ {Mine}
    /\ faults' = [faults EXCEPT ![Mine] = {}]
    /\ pc' = "done"
    /\ UNCHANGED <<creator, disposable, failedRuns, run, config, test, artifacts, file>>

\* log.Fatal.
DestroyFails == pc = "destroy" /\ ~ keeps /\ Goto("error")

\* What a run does when every call it makes is answered.
Work ==
    \/ ImportEnclave \/ RefuseEnclave \/ CreateEnclave \/ Genesis \/ CreateClients
    \/ StartFaults \/ RunPlan \/ ChecksPass \/ Unhealthy
    \/ CreateFile \/ WriteFile \/ KeepEnclave \/ Destroy

Failure ==
    \/ EnclaveFails \/ GenesisFails \/ GenesisStreamEnds \/ CreateClientsFails
    \/ PlanFails \/ ChecksFail \/ SerializeFails \/ DestroyFails

Next ==
    \/ RunAgain \/ Interrupt \/ Work \/ Failure
    \/ \E e \in Enclaves, fault \in Faults : TurnOff(e, fault)

Spec == Init /\ [][Next]_vars

\* The program goes on where it can, and Chaos Mesh turns off the faults that a plan
\* waits for.  No failure is ever owed, and nobody has to stop the program or run it again.
TurnOffWaitedFor == test \in waits /\ TurnOff(Mine, OwnFaults)

FairSpec == Spec /\ WF_vars(Work) /\ WF_vars(TurnOffWaitedFor)

-----------------------------------------------------------------------------
TestArtifacts == [test : 1 .. Tests, passed : BOOLEAN]

TypeOK ==
    /\ enclaves \in SUBSET Enclaves
    /\ creator \in [Enclaves -> 0 .. MaxRuns]
    /\ running \in SUBSET enclaves
    /\ disposable \in SUBSET Enclaves
    /\ faults \in [Enclaves -> SUBSET Faults]
    /\ failedRuns \in SUBSET (1 .. (run - 1))
    /\ run \in Runs
    /\ namespace \in BOOLEAN /\ reuse \in BOOLEAN
    /\ checks \in SUBSET (1 .. Tests) /\ waits \in SUBSET (1 .. Tests)
    /\ keeps \in BOOLEAN
    /\ pc \in Places \cup Final
    /\ test \in 1 .. (Tests + 1)
    /\ artifacts \in Seq(TestArtifacts)
    /\ file \in SUBSET {[whole |-> whole, tests |-> artifacts] : whole \in BOOLEAN}

\* A run that ends well has written a results file to its end, and such a file can be read
\* alone: it lists tests with checks in their order, all but the last passed, and if that
\* one passed too the suite was run to its end.  A file whose writing was cut short, by the
\* system or by an interrupt, is left as it is, but only by a run that does not end well.
FileSpeaksForSuite ==
    /\ pc = "done" => \E results \in file : results.whole
    /\ \A results \in file :
          LET listed == results.tests
              n == Len(listed)
              names == {listed[i].test : i \in 1 .. n}
          IN  results.whole =>
                  /\ \A i \in 1 .. n : \A j \in 1 .. (i - 1) :
                         listed[j].passed /\ listed[j].test < listed[i].test
                  /\ names = IF n = 0 \/ listed[n].passed
                             THEN checks
                             ELSE {t \in checks : t <= listed[n].test}

\* Nobody's devnet is destroyed but the one a run made for itself: not one that was
\* there before the run, nor one whose suite asks to keep it.  What Destroy looks at is the
\* wrapper, which CreateOrImportContext has made in one of two ways (kurtosis.go:101, 119).
OnlyOwnDestroyed ==
    [][\A e \in enclaves \ enclaves' : creator[e] = run /\ ~ reuse]_vars

\* A run that ends well with reuseDevnetBetweenRuns on has left a network that a later run
\* can be pointed at.  One that was to be destroyed is still there only while its run goes
\* on, or after a run that did not end well.
LeftBehind ==
    /\ pc = "done" /\ reuse => Mine \in enclaves
    /\ \A e \in enclaves \cap disposable :
          creator[e] \in failedRuns \/ (creator[e] = run /\ pc # "done")

\* Whenever the network is judged, no fault is on that any test so far was to wait for,
\* its own included, but for those left by a run that did not end well: a devnet that is
\* reused after one may still be under its faults.
JudgedAlone ==
    pc = "health" => \A fault \in faults[Mine] : fault.waited => fault.run \in failedRuns

\* A run ends, whatever earlier tests and runs have left on in its devnet, unless
\* Kurtosis closes the stream of a genesis without a last word: then it never does, and
\* nothing times out (kurtosis.go:138-180).
RunEnds == pc \in Places ~> pc \in Final \cup {"streamClosed"}

\* The tests run against a network whose genesis succeeded, with one exception: an
\* enclave that an earlier run made and left behind when its genesis failed or was
\* cut short is taken for a devnet to be reused.
NetworkUpUnlessGenesisFailed ==
    pc \in {"clients", "plan", "faulting", "health"} /\ Mine \notin running =>
        namespace /\ reuse /\ creator[Mine] \in 1 .. (run - 1)
=============================================================================
