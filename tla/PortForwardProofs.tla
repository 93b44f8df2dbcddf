-------------------------- MODULE PortForwardProofs --------------------------
(***************************************************************************)
(* That retries never fight over their port and the list of sessions has no*)
(* hole, for any number of pods and of retries.                            *)
(*                                                                         *)
(* Both speak of forwarders that the opener has long left behind, so they  *)
(* need what ties an attempt to the ones before it: it is only made when   *)
(* the one before has reported an error, and that is the last thing a      *)
(* forwarder does.                                                         *)
(***************************************************************************)
EXTENDS PortForward, FiniteSetTheorems, TLAPS

-----------------------------------------------------------------------------
(* The inductive invariant                                                 *)

NotYetOpened(f) ==
    \/ f[1] > pod
    \/ f[1] = pod /\ (f[2] > attempt \/ (f[2] = attempt /\ opener = "open"))

\* A forwarder runs only once its attempt is opened, and all those of its pod that came
\* before it have ended.
ForwardersInTurn ==
    /\ \A f \in All : NotYetOpened(f) => forwarder[f] = "none"
    /\ \A f \in sent : forwarder[f] = "ended"
    /\ \A f \in All : f[1] = pod /\ f[2] < attempt => forwarder[f] = "ended"
    /\ \A f, g \in All :
          f[1] = g[1] /\ f[2] < g[2] /\ forwarder[g] # "none" => forwarder[f] = "ended"

\* Every pod before this one has a session, and this one when the call has returned.
SessionsInTurn ==
    /\ sessions \subseteq ready
    /\ \A f, g \in sessions : f[1] = g[1] => f = g
    /\ \A f \in sessions : f[1] < pod \/ (f[1] = pod /\ opener \in {"opened", "panicked"})
    /\ \A p \in 1 .. (pod - 1) : \E f \in sessions : f[1] = p
    /\ opener = "opened" => pod = Pods /\ \E f \in sessions : f[1] = pod

IInv == TypeOK /\ ForwardersInTurn /\ SessionsInTurn

\* Attempts are pairs, and the one under way is one of them.
LEMMA MineIsAnAttempt ==
    ASSUME TypeOK
    PROVE  /\ Mine \in All /\ Mine[1] = pod /\ Mine[2] = attempt
           /\ \A f \in All : /\ f[1] \in 1 .. Pods /\ f[2] \in 0 .. Retries
                             /\ f = Mine <=> f[1] = pod /\ f[2] = attempt
           /\ pod \in Nat /\ attempt \in Nat
BY PodsAssumption, RetriesAssumption DEF TypeOK, All, Mine, Attempts

LEMMA InitEstablishes == Init => IInv
<1> SUFFICES ASSUME Init PROVE IInv OBVIOUS
<1>1. TypeOK
  BY PodsAssumption, RetriesAssumption DEF Init, TypeOK, Attempts, Final
<1>2. \A f \in All : f[1] \in 1 .. Pods /\ f[2] \in 0 .. Retries
  BY <1>1, MineIsAnAttempt
<1>3. ForwardersInTurn
  BY <1>2, RetriesAssumption DEF Init, ForwardersInTurn
<1>4. SessionsInTurn
  BY DEF Init, SessionsInTurn
<1> QED BY <1>1, <1>3, <1>4 DEF IInv

\* A step of a forwarder that leaves the opener alone: it runs on from a state it is in,
\* and may end, but does not begin.
LEMMA ForwarderPreserves ==
    ASSUME IInv, NEW f \in All, NEW to \in {"forwarding", "dropped", "ended"},
           forwarder[f] \in {"connecting", "forwarding", "dropped"},
           forwarder' = [forwarder EXCEPT ![f] = to],
           UNCHANGED <<pod, attempt, sessions, stopped>>,
           opener' = opener \/ (opener' = "panicked" /\ opener # "panicked"),
           ready' \in {ready, ready \cup {f}},
           sent' = sent \/ (sent' = sent \cup {f} /\ to = "ended"),
           closed' = closed
    PROVE  IInv'
<1>0. TypeOK /\ ForwardersInTurn /\ SessionsInTurn BY DEF IInv
<1>1. TypeOK' BY <1>0 DEF TypeOK, Final
<1>2. \A g \in All : forwarder'[g] = IF g = f THEN to ELSE forwarder[g]
  BY <1>0 DEF TypeOK
<1>3. \A g \in All : NotYetOpened(g)' => NotYetOpened(g)
  BY DEF NotYetOpened
<1>4. \A g \in All : forwarder[g] = "ended" => forwarder'[g] = "ended"
  BY <1>2
<1>5. \A g \in All : forwarder[g] = "none" <=> forwarder'[g] = "none"
  BY <1>2
<1>6. sent \subseteq All BY <1>0 DEF TypeOK
<1>7. ForwardersInTurn'
  <2>1. \A g \in All : NotYetOpened(g)' => forwarder'[g] = "none"
    BY <1>0, <1>3, <1>5 DEF ForwardersInTurn
  <2>2. \A g \in sent' : forwarder'[g] = "ended"
    BY <1>0, <1>2, <1>4, <1>6 DEF ForwardersInTurn
  <2>3. \A g \in All : g[1] = pod' /\ g[2] < attempt' => forwarder'[g] = "ended"
    BY <1>0, <1>4 DEF ForwardersInTurn
  <2>4. \A g, h \in All :
           g[1] = h[1] /\ g[2] < h[2] /\ forwarder'[h] # "none" => forwarder'[g] = "ended"
    BY <1>0, <1>4, <1>5 DEF ForwardersInTurn
  <2> QED BY <2>1, <2>2, <2>3, <2>4 DEF ForwardersInTurn
<1>8. SessionsInTurn' BY <1>0 DEF SessionsInTurn
<1> QED BY <1>1, <1>7, <1>8 DEF IInv

\* The call gives up, or panics.
LEMMA GivingUpPreserves ==
    ASSUME IInv, opener \in {"open", "select"}, opener' = "failed", CallsReturn,
           UNCHANGED <<pod, attempt, forwarder, ready, sent, sessions, stopped>>
    PROVE  IInv'
<1>0. TypeOK /\ ForwardersInTurn /\ SessionsInTurn BY DEF IInv
<1>1. TypeOK'
  <2>1. {<<pod, a>> : a \in 0 .. attempt} \subseteq All
    BY <1>0, RetriesAssumption DEF TypeOK, All, Attempts
  <2> QED BY <1>0, <2>1 DEF TypeOK, CallsReturn, Final
<1>2. ForwardersInTurn' BY <1>0 DEF ForwardersInTurn, NotYetOpened
<1>3. SessionsInTurn' BY <1>0 DEF SessionsInTurn
<1> QED BY <1>1, <1>2, <1>3 DEF IInv

LEMMA OpenPreserves == IInv /\ Open => IInv'
<1> SUFFICES ASSUME IInv, Open PROVE IInv' OBVIOUS
<1>0. TypeOK /\ ForwardersInTurn /\ SessionsInTurn BY DEF IInv
<1>1. TypeOK' BY <1>0, MineIsAnAttempt DEF Open, TypeOK, Final
<1>2. \A g \in All : forwarder'[g] = IF g = Mine THEN "connecting" ELSE forwarder[g]
  BY <1>0, MineIsAnAttempt DEF Open, TypeOK
<1>3. forwarder[Mine] = "none"
  BY <1>0, MineIsAnAttempt DEF Open, ForwardersInTurn, NotYetOpened
<1>4. \A g \in All : forwarder[g] = "ended" => forwarder'[g] = "ended"
  BY <1>2, <1>3
<1>5. sent \subseteq All BY <1>0 DEF TypeOK
<1>6. ForwardersInTurn'
  <2>1. \A g \in All : NotYetOpened(g)' => forwarder'[g] = "none"
    <3> SUFFICES ASSUME NEW g \in All, NotYetOpened(g)' PROVE forwarder'[g] = "none"
      OBVIOUS
    <3>1. NotYetOpened(g) /\ g # Mine
      BY <1>0, MineIsAnAttempt DEF NotYetOpened, Open
    <3> QED BY <1>0, <1>2, <3>1 DEF ForwardersInTurn
  <2>2. \A g \in sent' : forwarder'[g] = "ended"
    BY <1>0, <1>4, <1>5 DEF ForwardersInTurn, Open
  <2>3. \A g \in All : g[1] = pod' /\ g[2] < attempt' => forwarder'[g] = "ended"
    BY <1>0, <1>4 DEF ForwardersInTurn, Open
  <2>4. ASSUME NEW g \in All, NEW h \in All,
               g[1] = h[1], g[2] < h[2], forwarder'[h] # "none"
        PROVE  forwarder'[g] = "ended"
    <3>1. CASE h = Mine
      BY <1>0, <1>4, <2>4, <3>1, MineIsAnAttempt DEF ForwardersInTurn
    <3>2. CASE h # Mine
      BY <1>0, <1>2, <1>4, <2>4, <3>2 DEF ForwardersInTurn
    <3> QED BY <3>1, <3>2
  <2> QED BY <2>1, <2>2, <2>3, <2>4 DEF ForwardersInTurn
<1>7. SessionsInTurn' BY <1>0 DEF SessionsInTurn, Open
<1> QED BY <1>1, <1>6, <1>7 DEF IInv

LEMMA TakeReadyPreserves == IInv /\ TakeReady => IInv'
<1> SUFFICES ASSUME IInv, TakeReady PROVE IInv' OBVIOUS
<1>0. TypeOK /\ ForwardersInTurn /\ SessionsInTurn BY DEF IInv
<1>1. pod \in 1 .. Pods /\ attempt \in 0 .. Retries /\ pod \in Nat
  BY <1>0, PodsAssumption, RetriesAssumption DEF TypeOK, Attempts
<1>2. \/ pod = Pods /\ opener' = "opened" /\ pod' = pod /\ attempt' = attempt
      \/ pod < Pods /\ opener' = "open" /\ pod' = pod + 1 /\ attempt' = 0
  BY <1>1, PodsAssumption DEF TakeReady
<1>3. TypeOK'
  <2>1. {<<pod, a>> : a \in 0 .. attempt} \subseteq All
    BY <1>1, RetriesAssumption DEF All, Attempts
  <2>2. pod' \in 1 .. Pods /\ attempt' \in Attempts
    BY <1>1, <1>2, PodsAssumption, RetriesAssumption DEF Attempts
  <2> QED BY <1>0, <1>2, <2>1, <2>2, MineIsAnAttempt DEF TakeReady, TypeOK, CallsReturn, Final
<1>4. forwarder' = forwarder /\ sent' = sent BY DEF TakeReady
<1>5. \A g \in All : NotYetOpened(g)' => NotYetOpened(g)
  BY <1>0, <1>1, <1>2, MineIsAnAttempt DEF NotYetOpened, TakeReady
<1>6. \A g \in All : g[1] = pod' /\ g[2] < attempt' => g[1] = pod /\ g[2] < attempt
  BY <1>0, <1>2, MineIsAnAttempt
<1>7. ForwardersInTurn' BY <1>0, <1>4, <1>5, <1>6 DEF ForwardersInTurn
<1>8. /\ opener = "select" /\ ready' = ready /\ Mine \in ready
      /\ sessions' = sessions \cup {Mine} /\ sessions \subseteq All
  BY <1>0 DEF TakeReady, TypeOK
<1>9. SessionsInTurn'
  <2>1. \A f \in sessions : f[1] < pod BY <1>0, <1>8 DEF SessionsInTurn
  <2>2. \A f, g \in sessions' : f[1] = g[1] => f = g
    BY <1>0, <1>1, <1>8, <2>1, MineIsAnAttempt DEF SessionsInTurn
  <2>3. \A f \in sessions' :
           f[1] < pod' \/ (f[1] = pod' /\ opener' \in {"opened", "panicked"})
    BY <1>0, <1>1, <1>2, <1>8, <2>1, MineIsAnAttempt
  <2>4. \A p \in 1 .. (pod' - 1) : \E f \in sessions' : f[1] = p
    <3> SUFFICES ASSUME NEW p \in 1 .. (pod' - 1) PROVE \E f \in sessions' : f[1] = p
      OBVIOUS
    <3>1. p = pod \/ p \in 1 .. (pod - 1) BY <1>1, <1>2
    <3> QED BY <1>0, <1>8, <3>1, MineIsAnAttempt DEF SessionsInTurn
  <2>5. opener' = "opened" => pod' = Pods /\ \E f \in sessions' : f[1] = pod'
    BY <1>0, <1>2, <1>8, MineIsAnAttempt
  <2> QED BY <1>0, <1>8, <2>2, <2>3, <2>4, <2>5 DEF SessionsInTurn
<1> QED BY <1>3, <1>7, <1>9 DEF IInv

LEMMA TakeRetryPreserves == IInv /\ TakeRetry => IInv'
<1> SUFFICES ASSUME IInv, TakeRetry PROVE IInv' OBVIOUS
<1>0. TypeOK /\ ForwardersInTurn /\ SessionsInTurn BY DEF IInv
<1>1. /\ opener = "select" /\ opener' = "open" /\ attempt' = attempt + 1 /\ pod' = pod
      /\ Mine \in sent /\ forwarder' = forwarder /\ sent' = sent
      /\ attempt \in 0 .. Retries /\ attempt < Retries
  BY <1>0 DEF TakeRetry, TypeOK, Attempts
<1>2. TypeOK' BY <1>0, <1>1, RetriesAssumption DEF TakeRetry, TypeOK, Attempts
<1>3. forwarder[Mine] = "ended" BY <1>0, <1>1 DEF ForwardersInTurn
<1>4. \A g \in All : NotYetOpened(g)' => NotYetOpened(g)
  BY <1>0, <1>1, MineIsAnAttempt, RetriesAssumption DEF NotYetOpened
<1>5. \A g \in All :
         g[1] = pod /\ g[2] < attempt + 1 => g = Mine \/ (g[1] = pod /\ g[2] < attempt)
  BY <1>0, <1>1, MineIsAnAttempt, RetriesAssumption
<1>6. ForwardersInTurn' BY <1>0, <1>1, <1>3, <1>4, <1>5 DEF ForwardersInTurn
<1>7. SessionsInTurn' BY <1>0 DEF TakeRetry, SessionsInTurn
<1> QED BY <1>2, <1>6, <1>7 DEF IInv

LEMMA StepPreserves == IInv /\ [Next]_vars => IInv'
<1> SUFFICES ASSUME IInv, [Next]_vars PROVE IInv' OBVIOUS
<1>0. TypeOK /\ ForwardersInTurn /\ SessionsInTurn BY DEF IInv
<1>1. CASE Open BY <1>1, OpenPreserves
<1>2. CASE OpenFails BY <1>2, GivingUpPreserves DEF OpenFails
<1>3. CASE TakeReady BY <1>3, TakeReadyPreserves
<1>4. CASE TakeIssue BY <1>4, GivingUpPreserves DEF TakeIssue
<1>5. CASE TakeRetry BY <1>5, TakeRetryPreserves
<1>6. CASE TimeOut BY <1>6, GivingUpPreserves DEF TimeOut
<1>7. ASSUME NEW p \in 1 .. Pods, Close(p) PROVE IInv'
  BY <1>0, <1>7
     DEF Close, IInv, TypeOK, ForwardersInTurn, NotYetOpened, SessionsInTurn
<1>8. ASSUME NEW f \in All, Connect(f) PROVE IInv'
  BY <1>8, ForwarderPreserves DEF Connect, Goes
<1>9. ASSUME NEW f \in All, Drop(f) PROVE IInv'
  BY <1>9, ForwarderPreserves DEF Drop, Goes
<1>10. ASSUME NEW f \in All, Send(f) PROVE IInv'
  BY <1>10, ForwarderPreserves DEF Send, Goes
<1>11. ASSUME NEW f \in All, SendOnClosed(f) PROVE IInv'
  BY <1>11, ForwarderPreserves DEF SendOnClosed, Goes, Running
<1>12. ASSUME NEW f \in All, Stop(f) PROVE IInv'
  BY <1>12, ForwarderPreserves DEF Stop, Goes
<1>13. CASE UNCHANGED vars
  BY <1>0, <1>13
     DEF vars, IInv, TypeOK, ForwardersInTurn, NotYetOpened, SessionsInTurn
<1> QED
  BY <1>1, <1>2, <1>3, <1>4, <1>5, <1>6, <1>7, <1>8, <1>9, <1>10, <1>11, <1>12, <1>13
     DEF Next, Opener, Forwarder

-----------------------------------------------------------------------------
(* The theorems                                                            *)

\* The inductive invariant of the opener and the forwarders it leaves behind.
THEOREM ForwardInvariance == Spec => []IInv
BY InitEstablishes, StepPreserves, PTL DEF Spec

\* The variables of a call keep their types: attempts stay within the retries
\* (port_forward.go:46-148).
THEOREM ForwardTypeCorrect == Spec => []TypeOK
<1>1. IInv => TypeOK BY DEF IInv
<1> QED BY <1>1, ForwardInvariance, PTL

\* However connections fail and whenever they do, no attempt listens on a port that
\* another attempt for the same pod still holds (port_forward.go:75-130).
THEOREM RetriesShareThePort == Spec => []OneForwarderPerPort
<1>1. IInv => OneForwarderPerPort
  <2> SUFFICES ASSUME IInv, NEW f \in All, NEW g \in All, f[1] = g[1],
                      forwarder[f] \in {"connecting", "forwarding"},
                      forwarder[g] \in {"connecting", "forwarding"}
               PROVE  f = g
    BY DEF OneForwarderPerPort
  <2>1. /\ f[2] \in 0 .. Retries /\ g[2] \in 0 .. Retries
        /\ ~ f[2] < g[2] /\ ~ g[2] < f[2]
    BY MineIsAnAttempt DEF IInv, ForwardersInTurn
  <2>2. f[2] = g[2] BY <2>1, RetriesAssumption
  <2> QED BY <2>2 DEF All
<1> QED BY <1>1, ForwardInvariance, PTL

\* A call that goes on to another pod, or returns, has exactly one session for each pod
\* so far, of an attempt that connected (port_forward.go:46-60).
THEOREM NoHoleInSessions == Spec => []SessionsComplete
<1>1. IInv => SessionsComplete
  <2> SUFFICES ASSUME IInv PROVE SessionsComplete OBVIOUS
  <2>0. TypeOK /\ SessionsInTurn BY DEF IInv
  <2>1. ASSUME NEW p \in 1 .. Pods
        PROVE  LET mine == {f \in sessions : f[1] = p}
               IN  /\ Cardinality(mine) <= 1
                   /\ p < pod \/ opener = "opened" => mine # {}
    <3> DEFINE mine == {f \in sessions : f[1] = p}
    <3>1. mine = {} \/ \E f \in mine : mine = {f} BY <2>0 DEF SessionsInTurn
    <3>2. Cardinality(mine) \in {0, 1} BY <3>1, FS_EmptySet, FS_Singleton
    <3>3. ASSUME p < pod \/ opener = "opened" PROVE mine # {}
      <4>1. p \in 1 .. (pod - 1) \/ (opener = "opened" /\ p = pod)
        BY <2>0, <3>3, PodsAssumption DEF TypeOK, SessionsInTurn
      <4> QED BY <2>0, <4>1 DEF SessionsInTurn
    <3> HIDE DEF mine
    <3> QED BY <3>2, <3>3 DEF mine
  <2> QED BY <2>0, <2>1 DEF SessionsComplete, SessionsInTurn
<1> QED BY <1>1, ForwardInvariance, PTL
=============================================================================
