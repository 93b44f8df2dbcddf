------------------------------- MODULE Project -------------------------------
(***************************************************************************)
(* The commands of cmd/attacknet/main.go in one project directory: init    *)
(* (pkg/project/project.go), plan (Planner) and start (pkg/project/        *)
(* config.go, then the enclave of the suite).  Commands are processes of   *)
(* their own: a start may load a suite while another shell plans it anew.  *)
(*                                                                         *)
(* What a suite does with its enclave is SuiteRunner; here it is the       *)
(* network that the tests of a planned suite meet.                         *)
(***************************************************************************)
EXTENDS Planner

VARIABLES
    dirs,      \* the directories that exist
    init,      \* where the last init is
    start,     \* the last start: where it is, and what it has loaded
    devnet     \* the network file that the enclave of the namespace was made from

projectVars == <<vars, dirs, init, start, devnet>>

\* A directory is its path.
SuiteDirectory == <<"test-suites">>
NetworkConfigDirectory == <<"network-configs">>

\* preparePaths puts both files in a directory called plan.
PlanDirectory(dir) == Append(dir, "plan")
Directories == {SuiteDirectory, NetworkConfigDirectory}
AllDirectories == Directories \cup {PlanDirectory(dir) : dir \in Directories}

NotStarted ==
    [at |-> "none", suite |-> {}, network |-> {}, imported |-> FALSE, overlapped |-> FALSE]

ProjectInit ==
    /\ Init
    /\ dirs \in {{}, AllDirectories}
    /\ init = "none"
    /\ start = NotStarted
    /\ devnet = {}

-----------------------------------------------------------------------------
(* init, before anything is planned                                        *)

\* Without --force a project that exists is refused.
InitializeProject(force) ==
    /\ init \in {"none", "made", "failed"} /\ plans = 0
    /\ init' = IF ~ force /\ dirs \cap Directories # {} THEN "failed" ELSE "mkdirSuites"
    /\ UNCHANGED <<vars, dirs, start, devnet>>

\* os.Mkdir fails where there is such a directory, forced or not.
Mkdir(at, dir, next) ==
    /\ init = at
    /\ IF dir \in dirs
       THEN init' = "failed" /\ UNCHANGED dirs
       ELSE init' = next /\ dirs' = dirs \cup {dir}
    /\ UNCHANGED <<vars, start, devnet>>

MkdirSuites == Mkdir("mkdirSuites", SuiteDirectory, "mkdirNetworks")
MkdirNetworks == Mkdir("mkdirNetworks", NetworkConfigDirectory, "made")

InitCutShort ==
    /\ init \in {"mkdirSuites", "mkdirNetworks"}
    /\ init' = "failed"
    /\ UNCHANGED <<vars, dirs, start, devnet>>

\* The directories that plan writes to are made by hand.
MakePlanDirectory(dir) ==
    /\ dir \in dirs /\ PlanDirectory(dir) \notin dirs /\ plans = 0
    /\ dirs' = dirs \cup {PlanDirectory(dir)}
    /\ UNCHANGED <<vars, init, start, devnet>>

-----------------------------------------------------------------------------
(* plan                                                                    *)

\* A file can only be created in a directory that exists.
CanCreate ==
    /\ place = "createNetwork" => PlanDirectory(NetworkConfigDirectory) \in dirs
    /\ place = "createSuite" => PlanDirectory(SuiteDirectory) \in dirs

Plan ==
    /\ Next
    /\ CanCreate \/ place' = "returned"
    /\ start' = [start EXCEPT !.overlapped = @ \/ start.at = "readNetwork"]
    /\ UNCHANGED <<dirs, init, devnet>>

-----------------------------------------------------------------------------
(* start                                                                   *)

Starts(s) == start' = s /\ UNCHANGED <<vars, dirs, init>>

StartSuite ==
    /\ start.at \in {"none", "failed", "testing"}
    /\ Starts([NotStarted EXCEPT !.at = "readSuite"])
    /\ UNCHANGED devnet

\* loadSuiteFromPath: the suite first, and then the network it names.
ReadSuite ==
    /\ start.at = "readSuite"
    /\ files.suite # {}
    /\ Starts([start EXCEPT !.at = "readNetwork", !.suite = files.suite])
    /\ UNCHANGED devnet

\* A suite that is still empty leaves the defaults, which name no network.
NamesNetwork == \A suite \in start.suite : suite.whole

\* Mutant: a suite that names no network is given the one there is.
ReadAnyNetwork ==
    /\ start.at = "readNetwork"
    /\ files.network # {}
    /\ Starts([start EXCEPT !.at = "setup", !.network = files.network])
    /\ UNCHANGED devnet

ReadNetwork ==
    /\ start.at = "readNetwork"
    /\ NamesNetwork /\ files.network # {}
    /\ Starts([start EXCEPT !.at = "setup", !.network = files.network])
    /\ UNCHANGED devnet

\* A file is missing, a call of Kurtosis fails, or the program is stopped.
StartFails ==
    /\ start.at \in {"readSuite", "readNetwork", "setup"}
    /\ Starts([start EXCEPT !.at = "failed"])
    /\ UNCHANGED devnet

\* The kubernetes_namespace of the planner's file.
HasNamespace == \E suite \in start.suite : suite.namespace

\* Mutant: the devnet is imported whatever the suite says.
ImportAnyDevnet ==
    /\ start.at = "setup"
    /\ devnet # {}
    /\ Starts([start EXCEPT !.at = "testing", !.network = devnet, !.imported = TRUE])
    /\ UNCHANGED devnet

\* CreateOrImportContext: a planned suite always asks to reuse what is there.
ImportDevnet ==
    /\ start.at = "setup"
    /\ HasNamespace /\ devnet # {}
    /\ Starts([start EXCEPT !.at = "testing", !.network = devnet, !.imported = TRUE])
    /\ UNCHANGED devnet

\* The enclave is there once it is made, whether or not its genesis then succeeds.
MakeDevnet(next) ==
    /\ start.at = "setup"
    /\ HasNamespace => devnet = {}
    /\ Starts([start EXCEPT !.at = next])
    /\ devnet' = IF HasNamespace THEN start.network ELSE devnet

CreateDevnet == MakeDevnet("testing")

\* The package fails, or the program is stopped before it ends: what is left is imported
\* by the next start of a suite with this namespace.
GenesisFails == MakeDevnet("failed")

\* By hand: no planned suite destroys its enclave.
RemoveDevnet ==
    /\ devnet # {} /\ start.at \in {"none", "failed"}
    /\ devnet' = {}
    /\ UNCHANGED <<vars, dirs, init, start>>

ProjectNext ==
    \/ \E force \in BOOLEAN : InitializeProject(force)
    \/ MkdirSuites \/ MkdirNetworks \/ InitCutShort
    \/ \E dir \in Directories : MakePlanDirectory(dir)
    \/ Plan
    \/ StartSuite \/ ReadSuite \/ ReadNetwork \/ StartFails
    \/ ImportDevnet \/ CreateDevnet \/ GenesisFails \/ RemoveDevnet

ProjectSpec == ProjectInit /\ [][ProjectNext]_projectVars

-----------------------------------------------------------------------------
\* The tests of a planned suite run against the network planned for them, all of it, but
\* for two ways: a plan goes on between the reading of the two files, or the enclave of
\* the namespace is there already, from whatever plan.
SuiteMeetsItsNetwork ==
    start.at = "testing" /\ ~ start.overlapped /\ ~ (start.imported /\ HasNamespace) =>
        \A suite \in start.suite, network \in start.network :
            suite.whole /\ network.whole /\ network.plan = suite.plan
=============================================================================
