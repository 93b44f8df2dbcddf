----------------------------- MODULE PortForward -----------------------------
(***************************************************************************)
(* pkg/kubernetes/port_forward.go: StartMultiPortForwards, which forwards a*)
(* local port to each pod in turn, through openPortForward, which runs the *)
(* forwarding in a goroutine and calls itself again when that fails.       *)
(*                                                                         *)
(* The opener (the caller's goroutine) and the forwarder of an attempt meet*)
(* at three channels.  The forwarder sends on retryCh or, in the last      *)
(* attempt, on portForwardIssueCh: one channel here, as no attempt uses    *)
(* both.  It has room for the one error its forwarder sends.  When an      *)
(* attempt returns, its deferred calls close it, and so do those of the    *)
(* attempts that wait for it to return.                                    *)
(***************************************************************************)
EXTENDS Naturals, FiniteSets

CONSTANTS
    Pods,       \* how many pods are forwarded to
    Retries     \* retriesRemaining of the first attempt: 5

ASSUME PodsAssumption == Pods \in Nat \ {0}
ASSUME RetriesAssumption == Retries \in Nat

Attempts == 0 .. Retries

VARIABLES
    pod,        \* the pod being forwarded to
    opener,     \* what the opener does
    attempt,    \* how many retries it has made for that pod
    forwarder,  \* what the forwarder of each attempt for each pod does
    ready,      \* for each attempt, whether its readyCh is closed
    sent,       \* for each attempt, whether an error waits in its channel
    closed,     \* for each attempt, whether its channel is closed
    sessions,   \* the pods with a session, and which attempt it is
    stopped     \* the pods whose session's stopCh is closed

vars == <<pod, opener, attempt, forwarder, ready, sent, closed, sessions, stopped>>

All == (1 .. Pods) \X Attempts

Init ==
    /\ pod = 1
    /\ opener = "open"
    /\ attempt = 0
    /\ forwarder = [f \in All |-> "none"]
    /\ ready = {} /\ sent = {} /\ closed = {}
    /\ sessions = {}
    /\ stopped = {}

Running == opener # "panicked"
Mine == <<pod, attempt>>

-----------------------------------------------------------------------------
(* The forwarder of an attempt: ForwardPorts, then at most one send        *)

Goes(f, from, to) ==
    /\ Running
    /\ forwarder[f] \in from
    /\ forwarder' = [forwarder EXCEPT ![f] = to]

Connect(f) ==
    /\ Goes(f, {"connecting"}, "forwarding")
    /\ ready' = ready \cup {f}
    /\ UNCHANGED <<pod, opener, attempt, sent, closed, sessions, stopped>>

\* ForwardPorts returns an error: it cannot connect or listen, or it lost the
\* connection to the pod.
Drop(f) ==
    /\ Goes(f, {"connecting", "forwarding"}, "dropped")
    /\ UNCHANGED <<pod, opener, attempt, ready, sent, closed, sessions, stopped>>

Send(f) ==
    /\ f \notin closed
    /\ Goes(f, {"dropped"}, "ended")
    /\ sent' = sent \cup {f}
    /\ UNCHANGED <<pod, opener, attempt, ready, closed, sessions, stopped>>

\* A send on a closed channel panics, and the whole program with it.
SendOnClosed(f) ==
    /\ f \in closed
    /\ Goes(f, {"dropped"}, "ended")
    /\ opener' = "panicked"
    /\ UNCHANGED <<pod, attempt, ready, sent, closed, sessions, stopped>>

\* ForwardPorts returns no error when the session's stopCh is closed.
Stop(f) ==
    /\ f \in sessions
    /\ f[1] \in stopped
    /\ Goes(f, {"connecting", "forwarding"}, "ended")
    /\ UNCHANGED <<pod, opener, attempt, ready, sent, closed, sessions, stopped>>

Forwarder(f) == Connect(f) \/ Drop(f) \/ Send(f) \/ SendOnClosed(f) \/ Stop(f)

-----------------------------------------------------------------------------
(* The opener                                                              *)

Open ==
    /\ opener = "open"
    /\ opener' = "select"
    /\ forwarder' = [forwarder EXCEPT ![Mine] = "connecting"]
    /\ UNCHANGED <<pod, attempt, ready, sent, closed, sessions, stopped>>

\* Every call of openPortForward for this pod returns.
CallsReturn == closed' = closed \cup {<<pod, a>> : a \in 0 .. attempt}

\* A free port cannot be found, or the dialer not be made: there is no forwarder,
\* and the sessions opened so far are dropped as they are.
OpenFails ==
    /\ opener = "open"
    /\ opener' = "failed"
    /\ CallsReturn
    /\ UNCHANGED <<pod, attempt, forwarder, ready, sent, sessions, stopped>>

TakeReady ==
    /\ opener = "select"
    /\ Mine \in ready
    /\ sessions' = sessions \cup {Mine}
    /\ CallsReturn
    /\ IF pod = Pods
       THEN opener' = "opened" /\ UNCHANGED <<pod, attempt>>
       ELSE opener' = "open" /\ pod' = pod + 1 /\ attempt' = 0
    /\ UNCHANGED <<forwarder, ready, sent, stopped>>

\* Mutant: an error is taken for the end of this pod's turn.
TakeIssueAndGoOn ==
    /\ opener = "select"
    /\ Mine \in sent
    /\ attempt = Retries
    /\ CallsReturn
    /\ IF pod = Pods
       THEN opener' = "opened" /\ UNCHANGED <<pod, attempt>>
       ELSE opener' = "open" /\ pod' = pod + 1 /\ attempt' = 0
    /\ UNCHANGED <<forwarder, ready, sent, sessions, stopped>>

\* The last attempt's error is an error of the call.
TakeIssue ==
    /\ opener = "select"
    /\ Mine \in sent
    /\ attempt = Retries
    /\ opener' = "failed"
    /\ CallsReturn
    /\ UNCHANGED <<pod, attempt, forwarder, ready, sent, sessions, stopped>>

\* Mutant: one retry too many.
TakeRetryTooOften ==
    /\ opener = "select"
    /\ Mine \in sent
    /\ attempt <= Retries
    /\ opener' = "open"
    /\ attempt' = attempt + 1
    /\ UNCHANGED <<pod, forwarder, ready, sent, closed, sessions, stopped>>

\* Any other is a reason to try again, after 200 milliseconds.
TakeRetry ==
    /\ opener = "select"
    /\ Mine \in sent
    /\ attempt < Retries
    /\ opener' = "open"
    /\ attempt' = attempt + 1
    /\ UNCHANGED <<pod, forwarder, ready, sent, closed, sessions, stopped>>

\* Mutant: an attempt that times out is tried again.
TimeOutAndRetry ==
    /\ opener = "select"
    /\ attempt < Retries
    /\ opener' = "open"
    /\ attempt' = attempt + 1
    /\ UNCHANGED <<pod, forwarder, ready, sent, closed, sessions, stopped>>

\* Mutant: the clock starts once the connection is there.
TimeOutOnceReady ==
    /\ opener = "select"
    /\ Mine \in ready
    /\ opener' = "failed"
    /\ CallsReturn
    /\ UNCHANGED <<pod, attempt, forwarder, ready, sent, sessions, stopped>>

\* A minute has passed: the forwarder is left to itself.
TimeOut ==
    /\ opener = "select"
    /\ opener' = "failed"
    /\ CallsReturn
    /\ UNCHANGED <<pod, attempt, forwarder, ready, sent, sessions, stopped>>

\* PortForwardsSession.Close.
Close(p) ==
    /\ opener = "opened"
    /\ p \notin stopped
    /\ stopped' = stopped \cup {p}
    /\ UNCHANGED <<pod, opener, attempt, forwarder, ready, sent, closed, sessions>>

Opener == Open \/ OpenFails \/ TakeReady \/ TakeIssue \/ TakeRetry \/ TimeOut

Next ==
    \/ Opener
    \/ \E p \in 1 .. Pods : Close(p)
    \/ \E f \in All : Forwarder(f)

Spec == Init /\ [][Next]_vars

\* The opener is never held up for good: a minute after it began to wait, it goes
\* on whatever the forwarder does.
FairSpec == Spec /\ WF_vars(Opener)

-----------------------------------------------------------------------------
Final == {"opened", "failed", "panicked"}

TypeOK ==
    /\ pod \in 1 .. Pods
    /\ opener \in {"open", "select"} \cup Final
    /\ attempt \in Attempts
    /\ forwarder \in
         [All -> {"none", "connecting", "forwarding", "dropped", "ended"}]
    /\ ready \in SUBSET All /\ sent \in SUBSET All /\ closed \in SUBSET All
    /\ sessions \in SUBSET All
    /\ stopped \in SUBSET (1 .. Pods)

\* The attempts for a pod share one local port: no two forwarders ever hold it, so
\* none of the retries can fail because of the attempt before it.
OneForwarderPerPort ==
    \A f, g \in All :
        f[1] = g[1] /\ forwarder[f] \in {"connecting", "forwarding"}
                    /\ forwarder[g] \in {"connecting", "forwarding"} => f = g

\* StartMultiPortForwards returns a list without a hole: when it returns one, or
\* goes on to another pod, each pod so far has exactly one session, and that of an
\* attempt that did connect.
SessionsComplete ==
    /\ sessions \subseteq ready
    /\ \A p \in 1 .. Pods :
         LET mine == {f \in sessions : f[1] = p}
         IN  Cardinality(mine) <= 1 /\ (p < pod \/ opener = "opened" => mine # {})

\* "Fixed an issue where a dropped port-forwarding connection to a pod may result
\* in a panic" (README.md:95).
NeverPanics == opener # "panicked"

\* The call ends, for all pods or with an error, whatever the connections do.
OpenEnds == <>(opener \in Final)
=============================================================================
