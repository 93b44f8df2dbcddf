---------------------------- MODULE ProjectProofs ----------------------------
(***************************************************************************)
(* What a plan promises, for any configurations and any number of plans:   *)
(* that the files of two plans never meet; that each test attacks the      *)
(* share of the network its size names, selects pods that the network will *)
(* have, and can be run to its end; and that the tests of a planned suite  *)
(* meet the network planned for them.                                      *)
(***************************************************************************)
EXTENDS Project, FiniteSetTheorems, SequenceTheorems, WellFoundedInduction, TLAPS

-----------------------------------------------------------------------------
(* Planner.  The invariant says how far preparePaths has emptied the two   *)
(* files, and writePlans filled them, at each place: nothing is written    *)
(* before both are gone, and the suite not before the network is whole.    *)
(* Being cut short keeps the files and forgets the place.                  *)

Contents == [plan : Nat, whole : BOOLEAN, namespace : BOOLEAN]

FilesTypeOK ==
    /\ plans \in Nat
    /\ config \in Configs
    /\ files \in [network : SUBSET Contents, suite : SUBSET Contents]

FilesAtPlace ==
    /\ place = "removeSuite" => files.network = {}
    /\ place \in {"network", "suite", "createNetwork", "picking"} =>
            files.network = {} /\ files.suite = {}
    /\ place = "writeNetwork" => files.suite = {}
    /\ place \in {"createSuite", "writeSuite"} => files.network = {Content(TRUE)}

IInv == FilesTypeOK /\ FilesAtPlace /\ FilesAgree

\* What the steps write is a content, the whole one too.
LEMMA ContentType ==
    ASSUME plans \in Nat, config \in Configs, NEW whole \in BOOLEAN
    PROVE  Content(whole) \in Contents /\ Content(whole).plan = plans
                                       /\ Content(whole).whole = whole
BY ConfigsAssumption DEF Content, Contents

LEMMA InitEstablishes == Init => IInv
BY DEF Init, IInv, FilesTypeOK, FilesAtPlace, FilesAgree

LEMMA StepPreserves == IInv /\ [Next]_vars => IInv'
<1> SUFFICES ASSUME IInv, [Next]_vars PROVE IInv' OBVIOUS
<1>0. /\ plans \in Nat /\ config \in Configs
      /\ files \in [network : SUBSET Contents, suite : SUBSET Contents]
      /\ FilesAtPlace /\ FilesAgree
  BY DEF IInv, FilesTypeOK
\* The steps that leave the files alone.
<1>1. ASSUME files' = files, plans' = plans, config' = config,
             place' \in {"returned"}
                \/ (place \in {"network", "suite"}
                        /\ place' \in {"suite", "createNetwork", "picking"})
                \/ place' = place
      PROVE  IInv'
  BY <1>0, <1>1 DEF IInv, FilesTypeOK, FilesAtPlace, FilesAgree, Content
<1>2. ASSUME NEW c \in Configs, LoadPlannerConfig(c) PROVE IInv'
  BY <1>0, <1>2 DEF LoadPlannerConfig, IInv, FilesTypeOK, FilesAtPlace, FilesAgree
<1>3. CASE RemoveNetwork
  <2>1. /\ files'.network = {} /\ files'.suite = files.suite
        /\ files' \in [network : SUBSET Contents, suite : SUBSET Contents]
    BY <1>0, <1>3 DEF RemoveNetwork
  <2> QED BY <1>0, <1>3, <2>1
      DEF RemoveNetwork, IInv, FilesTypeOK, FilesAtPlace, FilesAgree
<1>4. CASE RemoveSuite
  <2>1. /\ files'.suite = {} /\ files'.network = files.network
        /\ files' \in [network : SUBSET Contents, suite : SUBSET Contents]
    BY <1>0, <1>4 DEF RemoveSuite
  <2> QED BY <1>0, <1>4, <2>1
      DEF RemoveSuite, IInv, FilesTypeOK, FilesAtPlace, FilesAgree
<1>5. CASE ComposeNetwork BY <1>1, <1>5 DEF ComposeNetwork
<1>6. CASE ComposeNetworkFails BY <1>1, <1>6 DEF ComposeNetworkFails
<1>7. CASE PickForever BY <1>1, <1>7 DEF PickForever
<1>8. CASE ComposeSuite BY <1>1, <1>8 DEF ComposeSuite
<1>9. CASE ComposeSuiteFails BY <1>1, <1>9 DEF ComposeSuiteFails
<1>10. CASE CreateNetwork
  <2>1. Content(FALSE) \in Contents BY <1>0, ContentType
  <2>2. /\ files'.suite = {}
        /\ files' \in [network : SUBSET Contents, suite : SUBSET Contents]
    BY <1>0, <1>10, <2>1 DEF CreateNetwork, FilesAtPlace
  <2> QED BY <1>0, <1>10, <2>2
      DEF CreateNetwork, IInv, FilesTypeOK, FilesAtPlace, FilesAgree
<1>11. CASE WriteNetwork
  <2>1. Content(TRUE) \in Contents BY <1>0, ContentType
  <2>2. /\ files'.suite = {} /\ files'.network = {Content(TRUE)} /\ Content(TRUE)' = Content(TRUE)
        /\ files' \in [network : SUBSET Contents, suite : SUBSET Contents]
    BY <1>0, <1>11, <2>1 DEF WriteNetwork, FilesAtPlace, Content
  <2> QED BY <1>0, <1>11, <2>2
      DEF WriteNetwork, IInv, FilesTypeOK, FilesAtPlace, FilesAgree
\* The suite is only written beside the whole network of this plan.
<1>12. ASSUME NEW whole \in BOOLEAN, place \in {"createSuite", "writeSuite"},
              files' = [files EXCEPT !.suite = {Content(whole)}],
              plans' = plans, config' = config, place' \in {"writeSuite", "returned"}
       PROVE  IInv'
  <2>1. /\ Content(whole) \in Contents /\ Content(TRUE) \in Contents
        /\ Content(whole).plan = Content(TRUE).plan /\ Content(TRUE).whole
    BY <1>0, ContentType
  <2>2. Content(TRUE)' = Content(TRUE) BY <1>12 DEF Content
  <2>3. /\ files'.network = {Content(TRUE)} /\ files'.suite = {Content(whole)}
        /\ files' \in [network : SUBSET Contents, suite : SUBSET Contents]
    BY <1>0, <1>12, <2>1 DEF FilesAtPlace
  <2>4. FilesAgree' BY <2>1, <2>3 DEF FilesAgree
  <2> QED BY <1>0, <1>12, <2>2, <2>3, <2>4 DEF IInv, FilesTypeOK, FilesAtPlace
<1>13. CASE CreateSuite BY <1>12, <1>13 DEF CreateSuite
<1>14. CASE WriteSuite BY <1>12, <1>14 DEF WriteSuite
<1>15. CASE CutShort BY <1>1, <1>15 DEF CutShort
<1>16. CASE UNCHANGED vars BY <1>1, <1>16 DEF vars
<1> QED
  BY <1>2, <1>3, <1>4, <1>5, <1>6, <1>7, <1>8, <1>9, <1>10, <1>11, <1>13, <1>14,
     <1>15, <1>16 DEF Next

\* A suite file never stands beside the network file of another plan, nor beside one
\* that was not written to its end (file.go:10-75).
THEOREM PlanFilesAgree == Spec => []FilesAgree
<1>1. IInv => FilesAgree BY DEF IInv
<1> QED BY <1>1, InitEstablishes, StepPreserves, PTL DEF Spec

-----------------------------------------------------------------------------
(* Loops over sequences.  Proofs unfold a recursive function only after it *)
(* has been shown to exist: Loop says that it does, and Induction what it  *)
(* preserves.                                                              *)

\* Induction: a set of numbers that has 0 and the successors of its own has them all.
LEMMA Induction ==
    ASSUME NEW T, 0 \in T, \A k \in Nat : k \in T => k + 1 \in T
    PROVE  Nat \subseteq T
<1> SUFFICES ASSUME Nat \ T # {} PROVE FALSE OBVIOUS
<1> DEFINE R == OpToRel(<, Nat)
<1>1. IsWellFoundedOn(R, Nat) BY NatLessThanWellFounded
<1>2. \A a, b \in Nat : a < b => <<a, b>> \in R BY DEF OpToRel
<1> HIDE DEF R
<1>3. PICK n \in Nat \ T : \A k \in Nat \ T : ~ (<<k, n>> \in R)
  <2>1. Nat \ T \subseteq Nat OBVIOUS
  <2> HIDE DEF R
  <2> QED BY <1>1, <2>1, WFMin
<1>4. n # 0 /\ n - 1 \in Nat /\ n - 1 < n OBVIOUS
<1>5. n - 1 \in T BY <1>2, <1>3, <1>4
<1>6. (n - 1) + 1 = n OBVIOUS
<1> QED BY <1>3, <1>4, <1>5, <1>6

\* The values that the variable of a loop over n items takes, from the first on.
LoopValues(g, n, v, Body) ==
    g[0] = v /\ \A i \in 1 .. n : g[i] = Body[i][g[i - 1]]

\* There are such values, if each step keeps to a set.
LEMMA Loop ==
    ASSUME NEW n \in Nat, NEW S, NEW v \in S, NEW Body \in [1 .. n -> [S -> S]]
    PROVE  \E g \in [0 .. n -> S] : LoopValues(g, n, v, Body)
<1> DEFINE Takes(k) == \E g \in [0 .. k -> S] : LoopValues(g, k, v, Body)
           T == {k \in Nat : k <= n => Takes(k)}
<1>1. 0 \in T
  <2> DEFINE g == [j \in 0 .. 0 |-> v]
  <2>1. g \in [0 .. 0 -> S] /\ g[0] = v /\ 1 .. 0 = {} OBVIOUS
  <2> HIDE DEF g
  <2>2. Takes(0) BY <2>1 DEF LoopValues
  <2> QED BY <2>2
<1>2. ASSUME NEW k \in Nat, k \in T, k + 1 <= n PROVE Takes(k + 1)
  <2>1. PICK g \in [0 .. k -> S] :
            g[0] = v /\ \A i \in 1 .. k : g[i] = Body[i][g[i - 1]]
    BY <1>2 DEF LoopValues
  <2>2. k + 1 \in 1 .. n /\ k \in 0 .. k /\ g[k] \in S BY <1>2
  <2>3. Body[k + 1][g[k]] \in S BY <2>2
  <2> DEFINE h == [j \in 0 .. (k + 1) |-> IF j = k + 1 THEN Body[k + 1][g[k]] ELSE g[j]]
  <2>4. \A j \in 0 .. k : h[j] = g[j] /\ g[j] \in S OBVIOUS
  <2>5. h[k + 1] = Body[k + 1][g[k]] OBVIOUS
  <2>6. h \in [0 .. (k + 1) -> S] BY <2>3, <2>4
  <2> HIDE DEF h
  <2>7. h[0] = v BY <2>1, <2>4
  <2>8. ASSUME NEW i \in 1 .. (k + 1) PROVE h[i] = Body[i][h[i - 1]]
    <3>1. CASE i = k + 1 BY <2>4, <2>5, <3>1
    <3>2. CASE i # k + 1
      <4>1. i \in 1 .. k /\ i \in 0 .. k /\ i - 1 \in 0 .. k BY <3>2
      <4> QED BY <2>1, <2>4, <4>1
    <3> QED BY <3>1, <3>2
  <2> QED BY <2>6, <2>7, <2>8 DEF LoopValues
<1> HIDE DEF Takes
<1>3. \A k \in Nat : k \in T => k + 1 \in T BY <1>2
<1>a. Nat \subseteq T
  <2> HIDE DEF T
  <2> QED BY <1>1, <1>3, Induction
<1>4. Takes(n) BY <1>a
<1> QED BY <1>4 DEF Takes

\* FlattenSeq(ss) is the last of the partial concatenations.
LEMMA FlattenSteps ==
    ASSUME NEW S, NEW ss \in Seq(Seq(S)), ss # <<>>
    PROVE  \E g \in [1 .. Len(ss) -> Seq(S)] :
               /\ g[1] = ss[1]
               /\ \A i \in 2 .. Len(ss) : g[i] = g[i - 1] \o ss[i]
               /\ FlattenSeq(ss) = g[Len(ss)]
<1> DEFINE n == Len(ss)
           Body == [i \in 1 .. n |-> [t \in Seq(S) |-> t \o ss[i]]]
<1>1. n \in Nat \ {0} BY EmptySeq
<1>2. \A i \in 1 .. n : ss[i] \in Seq(S) BY ElementOfSeq
<1>3. \A i \in 1 .. n, t \in Seq(S) : t \o ss[i] \in Seq(S) BY <1>2, ConcatProperties
<1>4. Body \in [1 .. n -> [Seq(S) -> Seq(S)]] BY <1>3
<1>5. <<>> \in Seq(S) BY EmptySeq
<1>6. \A i \in 1 .. n, t \in Seq(S) : Body[i][t] = t \o ss[i] OBVIOUS
<1> HIDE DEF Body, n
<1>7. PICK h \in [0 .. n -> Seq(S)] :
          h[0] = <<>> /\ \A i \in 1 .. n : h[i] = Body[i][h[i - 1]]
  <2>1. n \in Nat BY <1>1
  <2>2. \E h \in [0 .. n -> Seq(S)] : LoopValues(h, n, <<>>, Body)
    BY <1>4, <1>5, <2>1, Loop
  <2> QED BY <2>2 DEF LoopValues
<1>8. \A i \in 1 .. n : h[i] = h[i - 1] \o ss[i]
  <2> SUFFICES ASSUME NEW i \in 1 .. n PROVE h[i] = h[i - 1] \o ss[i] OBVIOUS
  <2>1. i - 1 \in 0 .. n BY <1>1
  <2> QED BY <1>6, <1>7, <2>1
<1>9. h[1] = ss[1]
  <2>1. 1 \in 1 .. n /\ 1 - 1 = 0 BY <1>1
  <2>2. <<>> \o ss[1] = ss[1] BY <1>2, <2>1, ConcatEmptySeq
  <2> QED BY <1>7, <1>8, <2>1, <2>2
<1> DEFINE Flatten(f) == [i \in 1 .. n |-> IF i = 1 THEN ss[i] ELSE f[i - 1] \o ss[i]]
           g == [i \in 1 .. n |-> h[i]]
           f == CHOOSE f : f = Flatten(f)
<1>10. g = Flatten(g)
  <2>1. \A i \in 1 .. n : i # 1 => i - 1 \in 1 .. n BY <1>1
  <2> QED BY <1>8, <1>9, <2>1
<1>11. f = Flatten(f)
  <2> HIDE DEF Flatten, g
  <2> QED BY <1>10
<1>12. FlattenSeq(ss) = f[n] BY <1>1 DEF FlattenSeq, n
<1>13. /\ f[1] = ss[1]
       /\ \A i \in 2 .. n : f[i] = f[i - 1] \o ss[i]
  <2> HIDE DEF f
  <2>1. 1 \in 1 .. n /\ \A i \in 2 .. n : i \in 1 .. n /\ i # 1 BY <1>1
  <2> QED BY <1>11, <2>1
<1>14. f \in [1 .. n -> Seq(S)]
  <2>1. f = [i \in 1 .. n |-> f[i]]
    <3> HIDE DEF f
    <3> QED BY <1>11
  <2> DEFINE T == {k \in Nat : k \in 1 .. n => f[k] \in Seq(S)}
  <2>2. 0 \in T OBVIOUS
  <2> HIDE DEF f
  <2>3. ASSUME NEW k \in Nat, k \in T, k + 1 \in 1 .. n PROVE f[k + 1] \in Seq(S)
    <3>1. CASE k = 0 BY <1>2, <1>13, <2>3, <3>1
    <3>2. CASE k # 0
      <4>1. k \in 1 .. n /\ k + 1 \in 2 .. n /\ (k + 1) - 1 = k BY <1>1, <2>3, <3>2
      <4> QED BY <1>3, <1>13, <2>3, <4>1
    <3> QED BY <3>1, <3>2
  <2>4. \A k \in Nat : k \in T => k + 1 \in T BY <2>3
  <2>5. Nat \subseteq T
    <3> HIDE DEF T
    <3> QED BY <2>2, <2>4, Induction
  <2>6. \A i \in 1 .. n : f[i] \in Seq(S) BY <2>5
  <2> QED BY <2>1, <2>6
<1> HIDE DEF f
<1> QED BY <1>12, <1>13, <1>14 DEF n

\* FlattenSeq(ss) has the elements of the sequences in ss, and no others.
LEMMA FlattenElements ==
    ASSUME NEW S, NEW ss \in Seq(Seq(S))
    PROVE  /\ FlattenSeq(ss) \in Seq(S)
           /\ \A x : x \in Range(FlattenSeq(ss)) <=> \E i \in DOMAIN ss : x \in Range(ss[i])
<1>1. CASE ss = <<>>
  <2>1. Len(ss) = 0 /\ DOMAIN ss = {} BY <1>1
  <2>2. FlattenSeq(ss) = <<>> BY <1>1, <2>1 DEF FlattenSeq
  <2>3. Range(<<>>) = {} BY DEF Range
  <2> QED BY <2>1, <2>2, <2>3, EmptySeq
<1>2. CASE ss # <<>>
  <2> DEFINE n == Len(ss)
  <2>1. PICK g \in [1 .. n -> Seq(S)] :
            /\ g[1] = ss[1]
            /\ \A i \in 2 .. n : g[i] = g[i - 1] \o ss[i]
            /\ FlattenSeq(ss) = g[n]
    BY <1>2, FlattenSteps
  <2>2. n \in Nat \ {0} /\ DOMAIN ss = 1 .. n BY <1>2, EmptySeq, LenProperties
  <2>3. \A i \in 1 .. n : ss[i] \in Seq(S) BY ElementOfSeq
  <2> HIDE DEF n
  <2> DEFINE InFirst(x, k) == \E i \in 1 .. k : x \in Range(ss[i])
             T == {k \in Nat : k \in 1 .. n =>
                      \A x : x \in Range(g[k]) <=> InFirst(x, k)}
  <2>4. 0 \in T OBVIOUS
  <2>5. ASSUME NEW k \in Nat, k \in T, k + 1 \in 1 .. n
        PROVE  \A x : x \in Range(g[k + 1]) <=> InFirst(x, k + 1)
    <3> SUFFICES ASSUME NEW x PROVE x \in Range(g[k + 1]) <=> InFirst(x, k + 1) OBVIOUS
    <3>1. CASE k = 0
      <4>1. 1 .. (k + 1) = {1} BY <3>1
      <4> QED BY <2>1, <3>1, <4>1
    <3>2. CASE k # 0
      <4>1. k \in 1 .. n /\ k + 1 \in 2 .. n /\ (k + 1) - 1 = k BY <2>2, <2>5, <3>2
      <4>2. g[k + 1] = g[k] \o ss[k + 1] BY <2>1, <4>1
      <4>3. g[k] \in Seq(S) /\ ss[k + 1] \in Seq(S) BY <2>1, <2>3, <2>5, <4>1
      <4>4. Range(g[k + 1]) = Range(g[k]) \cup Range(ss[k + 1])
        BY <4>2, <4>3, RangeConcatenation
      <4>5. x \in Range(g[k]) <=> InFirst(x, k) BY <2>5, <4>1
      <4>6. 1 .. (k + 1) = (1 .. k) \cup {k + 1} BY <4>1
      <4> QED BY <4>4, <4>5, <4>6
    <3> QED BY <3>1, <3>2
  <2>6. \A k \in Nat : k \in T => k + 1 \in T
    <3> SUFFICES ASSUME NEW k \in Nat, k \in T PROVE k + 1 \in T OBVIOUS
    <3>1. k + 1 \in Nat OBVIOUS
    <3>2. k + 1 \in 1 .. n =>
              \A x : x \in Range(g[k + 1]) <=> InFirst(x, k + 1)
      BY <2>5
    <3> HIDE DEF InFirst
    <3> QED BY <3>1, <3>2
  <2>7. Nat \subseteq T
    <3> HIDE DEF T
    <3> QED BY <2>4, <2>6, Induction
  <2>8. n \in T
    <3> HIDE DEF T
    <3> QED BY <2>2, <2>7
  <2>9. n \in 1 .. n BY <2>2
  <2> QED BY <2>1, <2>2, <2>8, <2>9
<1> QED BY <1>1, <1>2

\* Induction up to a bound.
LEMMA InductionUpTo ==
    ASSUME NEW n \in Nat, NEW T, 0 \in T, \A i \in 1 .. n : i - 1 \in T => i \in T
    PROVE  0 .. n \subseteq T
<1> DEFINE U == {k \in Nat : k \in 0 .. n => k \in T}
<1>1. 0 \in U OBVIOUS
<1>2. ASSUME NEW k \in Nat, k \in U PROVE k + 1 \in U
  <2> SUFFICES ASSUME k + 1 \in 0 .. n PROVE k + 1 \in T OBVIOUS
  <2>1. k \in T /\ k + 1 \in 1 .. n /\ (k + 1) - 1 = k BY <1>2
  <2> QED BY <2>1
<1>3. Nat \subseteq U
  <2> HIDE DEF U
  <2> QED BY <1>1, <1>2, Induction
<1> QED BY <1>3

\* What KeepOnly has kept after each item.
LEMMA KeepSteps ==
    ASSUME NEW S, NEW s \in Seq(S), NEW wanted
    PROVE  \E g :
               /\ g[0] = <<>>
               /\ \A i \in 1 .. Len(s) :
                     g[i] = IF s[i] \in wanted
                            THEN Append(g[i - 1], s[i]) ELSE g[i - 1]
               /\ KeepOnly(s, wanted) = g[Len(s)]
<1> DEFINE n == Len(s)
           Wanted(i) == s[i] \in wanted
           Body == [i \in 1 .. n |-> [t \in Seq(S) |->
                       IF Wanted(i) THEN Append(t, s[i]) ELSE t]]
           Filter(f) == [i \in 0 .. n |->
                IF i = 0 THEN <<>>
                ELSE IF Wanted(i) THEN Append(f[i - 1], s[i]) ELSE f[i - 1]]
           f == CHOOSE f : f = Filter(f)
<1>1. n \in Nat BY LenProperties
<1>2. \A i \in 1 .. n : s[i] \in S BY ElementOfSeq
<1> HIDE DEF Wanted
<1>3. Body \in [1 .. n -> [Seq(S) -> Seq(S)]] BY <1>2, AppendProperties
<1>4. <<>> \in Seq(S) BY EmptySeq
<1>5. \A i \in 1 .. n, t \in Seq(S) :
          Body[i][t] = IF Wanted(i) THEN Append(t, s[i]) ELSE t
  OBVIOUS
<1>6. PICK h \in [0 .. n -> Seq(S)] :
          h[0] = <<>> /\ \A i \in 1 .. n : h[i] = Body[i][h[i - 1]]
  <2> HIDE DEF Body, n
  <2>1. \E h \in [0 .. n -> Seq(S)] : LoopValues(h, n, <<>>, Body)
    BY <1>1, <1>3, <1>4, Loop
  <2> QED BY <2>1 DEF LoopValues
<1> HIDE DEF Body, n
<1>7. h = Filter(h)
  <2>1. \A i \in 1 .. n : h[i] = IF Wanted(i) THEN Append(h[i - 1], s[i]) ELSE h[i - 1]
    <3> SUFFICES ASSUME NEW i \in 1 .. n
                 PROVE  h[i] = IF Wanted(i) THEN Append(h[i - 1], s[i]) ELSE h[i - 1]
      OBVIOUS
    <3>1. i - 1 \in 0 .. n BY <1>1
    <3> QED BY <1>5, <1>6, <3>1
  <2>2. \A i \in 0 .. n : i = 0 \/ i \in 1 .. n BY <1>1
  <2> QED BY <1>6, <2>1, <2>2
<1>8. f = Filter(f)
  <2> HIDE DEF Filter
  <2> QED BY <1>7
<1>9. KeepOnly(s, wanted) = f[n] BY DEF KeepOnly, Wanted, n
<1> HIDE DEF f
<1>10. f[0] = <<>>
  <2>1. 0 \in 0 .. n BY <1>1
  <2> QED BY <1>8, <2>1
<1>11. \A i \in 1 .. n : f[i] = IF Wanted(i) THEN Append(f[i - 1], s[i]) ELSE f[i - 1]
  <2>1. \A i \in 1 .. n : i \in 0 .. n /\ i # 0 BY <1>1
  <2> QED BY <1>8, <2>1
<1> QED BY <1>9, <1>10, <1>11 DEF n, Wanted

\* The first m of a sequence are wanted, and the others are not.
FirstWanted(s, wanted, m) ==
    /\ \A i \in 1 .. m : s[i] \in wanted
    /\ \A i \in (m + 1) .. Len(s) : s[i] \notin wanted

\* KeepOnly keeps what is wanted of the sequence, and no more than there is; if the wanted
\* come first, it keeps just these.
LEMMA KeepOnlyKeeps ==
    ASSUME NEW S, NEW s \in Seq(S), NEW wanted
    PROVE  LET kept == KeepOnly(s, wanted)
           IN  /\ kept \in Seq(S) /\ Len(kept) <= Len(s)
               /\ Range(kept) \subseteq Range(s) \cap wanted
               /\ \A m \in 0 .. Len(s) :
                     FirstWanted(s, wanted, m) =>
                         Len(kept) = m /\ \A i \in 1 .. m : kept[i] = s[i]
<1> DEFINE n == Len(s)
           Wanted(i) == s[i] \in wanted
           R == Range(s) \cap wanted
<1>1. PICK g :
          /\ g[0] = <<>>
          /\ \A i \in 1 .. n : g[i] = IF Wanted(i) THEN Append(g[i - 1], s[i]) ELSE g[i - 1]
          /\ KeepOnly(s, wanted) = g[n]
  BY KeepSteps
<1>2. n \in Nat BY LenProperties
<1>3. \A i \in 1 .. n : s[i] \in S BY ElementOfSeq
<1>4. \A i \in 1 .. n : Wanted(i) => s[i] \in R
  BY LenProperties DEF Range
<1> HIDE DEF Wanted, n, R
<1> DEFINE Kept(i) == g[i] \in Seq(S) /\ Len(g[i]) <= i /\ g[i] \in Seq(R)
           T == {i \in 0 .. n : Kept(i)}
<1>5. Kept(0) BY <1>1, EmptySeq
<1>6. ASSUME NEW i \in 1 .. n, Kept(i - 1) PROVE Kept(i)
  <2>1. CASE Wanted(i)
    <3>1. g[i] = Append(g[i - 1], s[i]) BY <1>1, <2>1
    <3>2. Append(g[i - 1], s[i]) \in Seq(S) /\ Len(Append(g[i - 1], s[i])) = Len(g[i - 1]) + 1
      BY <1>3, <1>6, AppendProperties
    <3>3. Append(g[i - 1], s[i]) \in Seq(R) BY <1>4, <1>6, <2>1, AppendProperties
    <3>4. Len(g[i - 1]) \in Nat BY <1>6, LenProperties
    <3> QED BY <1>2, <1>6, <3>1, <3>2, <3>3, <3>4
  <2>2. CASE ~ Wanted(i)
    <3>1. g[i] = g[i - 1] BY <1>1, <2>2
    <3>2. Len(g[i - 1]) \in Nat BY <1>6, LenProperties
    <3> QED BY <1>2, <1>6, <3>1, <3>2
  <2> QED BY <2>1, <2>2
<1>7. Kept(n)
  <2>1. 0 \in T BY <1>2, <1>5
  <2>2. \A i \in 1 .. n : i - 1 \in T => i \in T
    <3> HIDE DEF Kept
    <3> QED BY <1>2, <1>6
  <2>3. 0 .. n \subseteq T
    <3> HIDE DEF T
    <3> QED BY <1>2, <2>1, <2>2, InductionUpTo
  <2>4. n \in 0 .. n BY <1>2
  <2> QED BY <2>3, <2>4
<1>8. ASSUME NEW m \in 0 .. n, \A i \in 1 .. m : Wanted(i), \A i \in (m + 1) .. n : ~ Wanted(i)
      PROVE  Len(g[n]) = m /\ \A j \in 1 .. m : g[n][j] = s[j]
  <2> DEFINE Counts(i) == /\ g[i] \in Seq(S) /\ Len(g[i]) = IF i <= m THEN i ELSE m
                          /\ \A j \in 1 .. m : j <= i => g[i][j] = s[j]
             V == {i \in 0 .. n : Counts(i)}
  <2>1. 0 \in V
    <3>1. 0 \in 0 .. n /\ 0 <= m BY <1>2
    <3>2. g[0] \in Seq(S) /\ Len(g[0]) = 0 BY <1>1, EmptySeq
    <3> QED BY <3>1, <3>2
  <2>2. ASSUME NEW i \in 1 .. n, Counts(i - 1) PROVE Counts(i)
    <3>1. CASE i <= m
      <4>1. i \in 1 .. m /\ i - 1 <= m BY <1>2, <3>1
      <4>2. g[i] = Append(g[i - 1], s[i]) BY <1>1, <1>8, <4>1
      <4>3. /\ Append(g[i - 1], s[i]) \in Seq(S)
            /\ Len(Append(g[i - 1], s[i])) = Len(g[i - 1]) + 1
            /\ \A j \in 1 .. Len(g[i - 1]) : Append(g[i - 1], s[i])[j] = g[i - 1][j]
            /\ Append(g[i - 1], s[i])[Len(g[i - 1]) + 1] = s[i]
        BY <1>3, <2>2, AppendProperties
      <4>4. Len(g[i - 1]) = i - 1 /\ Len(g[i - 1]) + 1 = i BY <1>2, <2>2, <4>1
      <4>5. ASSUME NEW j \in 1 .. m, j <= i PROVE g[i][j] = s[j]
        <5>1. CASE j = i BY <4>2, <4>3, <4>4, <5>1
        <5>2. CASE j # i
          <6>1. j <= i - 1 /\ j \in 1 .. Len(g[i - 1]) BY <4>4, <4>5, <5>2
          <6> QED BY <2>2, <4>2, <4>3, <6>1
        <5> QED BY <5>1, <5>2
      <4> QED BY <3>1, <4>2, <4>3, <4>4, <4>5
    <3>2. CASE i > m
      <4>1. i \in (m + 1) .. n BY <1>2, <3>2
      <4>2. g[i] = g[i - 1] BY <1>1, <1>8, <4>1
      <4>3. /\ i - 1 <= m => i - 1 = m
            /\ \A j \in 1 .. m : j <= i - 1
        BY <1>2, <3>2
      <4> QED BY <2>2, <3>2, <4>2, <4>3
    <3> QED BY <1>2, <3>1, <3>2
  <2>3. \A i \in 1 .. n : i - 1 \in V => i \in V
    <3> HIDE DEF Counts
    <3> QED BY <1>2, <2>2
  <2>4. 0 .. n \subseteq V
    <3> HIDE DEF V
    <3> QED BY <1>2, <2>1, <2>3, InductionUpTo
  <2>5. n \in 0 .. n BY <1>2
  <2>6. Counts(n) BY <2>4, <2>5
  <2>7. \A j \in 1 .. m : j <= n BY <1>2
  <2> QED BY <1>2, <2>6, <2>7
<1>9. Range(g[n]) \subseteq R BY <1>7, RangeOfSeq
<1> QED BY <1>1, <1>7, <1>8, <1>9 DEF FirstWanted, n, Wanted, R

-----------------------------------------------------------------------------
(* The sizes of a suite that pass CannotMeet                               *)

\* What CannotMeetConstraintError is not returned for.
SizesThatFit == {size \in AttackSizes : ~ CannotMeet(size, NodeCount, Len(Targetable))}

\* Only sizes that can be met are tested.
LEMMA SizesTestedFit ==
    ASSUME config.sizes \in Seq(AttackSizes)
    PROVE  SizesTested \in Seq(SizesThatFit)
<1> DEFINE S == SizesThatFit
           sizes == config.sizes
           n == Len(sizes)
           Count(size) == NodesToTarget(size, NodeCount, Len(Targetable))
           Skip(size, t) ==
               \/ CannotMeet(size, NodeCount, Len(Targetable))
               \/ \E s \in Range(t) : Count(s) = Count(size)
           Body == [i \in 1 .. n |-> [t \in Seq(S) |->
                       IF Skip(sizes[i], t) THEN t ELSE Append(t, sizes[i])]]
           Tested(f) == [i \in 0 .. n |->
                IF i = 0 THEN <<>>
                ELSE IF Skip(sizes[i], f[i - 1]) THEN f[i - 1]
                     ELSE Append(f[i - 1], sizes[i])]
           f == CHOOSE f : f = Tested(f)
<1>1. n \in Nat BY LenProperties
<1>2. \A i \in 1 .. n : \A t : ~ Skip(sizes[i], t) => sizes[i] \in S
  BY ElementOfSeq DEF SizesThatFit
<1>9. SizesTested = f[n] BY DEF SizesTested
<1> HIDE DEF Skip, S
<1>3. Body \in [1 .. n -> [Seq(S) -> Seq(S)]] BY <1>2, AppendProperties
<1>4. <<>> \in Seq(S) BY EmptySeq
<1>5. \A i \in 1 .. n, t \in Seq(S) :
          Body[i][t] = IF Skip(sizes[i], t) THEN t ELSE Append(t, sizes[i])
  OBVIOUS
<1>6. PICK h \in [0 .. n -> Seq(S)] :
          h[0] = <<>> /\ \A i \in 1 .. n : h[i] = Body[i][h[i - 1]]
  <2> HIDE DEF Body, n
  <2>1. \E h \in [0 .. n -> Seq(S)] : LoopValues(h, n, <<>>, Body)
    BY <1>1, <1>3, <1>4, Loop
  <2> QED BY <2>1 DEF LoopValues
<1> HIDE DEF Body, n, sizes
<1>7. h = Tested(h)
  <2>1. \A i \in 1 .. n :
            h[i] = IF Skip(sizes[i], h[i - 1]) THEN h[i - 1] ELSE Append(h[i - 1], sizes[i])
    <3> SUFFICES ASSUME NEW i \in 1 .. n
                 PROVE  h[i] = IF Skip(sizes[i], h[i - 1]) THEN h[i - 1]
                               ELSE Append(h[i - 1], sizes[i])
      OBVIOUS
    <3>1. i - 1 \in 0 .. n BY <1>1
    <3> QED BY <1>5, <1>6, <3>1
  <2>2. \A i \in 0 .. n : i = 0 \/ i \in 1 .. n BY <1>1
  <2> QED BY <1>6, <2>1, <2>2
<1>8. f = Tested(f)
  <2> HIDE DEF Tested
  <2> QED BY <1>7
<1> HIDE DEF f
<1>10. f[0] = <<>>
  <2>1. 0 \in 0 .. n BY <1>1
  <2> QED BY <1>8, <2>1
<1>11. \A i \in 1 .. n :
           f[i] = IF Skip(sizes[i], f[i - 1]) THEN f[i - 1] ELSE Append(f[i - 1], sizes[i])
  <2>1. \A i \in 1 .. n : i \in 0 .. n /\ i # 0 BY <1>1
  <2> QED BY <1>8, <2>1
<1> DEFINE T == {i \in 0 .. n : f[i] \in Seq(S)}
<1>12. 0 \in T
  <2>1. 0 \in 0 .. n BY <1>1
  <2> QED BY <1>4, <1>10, <2>1
<1>13. ASSUME NEW i \in 1 .. n, i - 1 \in T PROVE i \in T
  <2>1. f[i - 1] \in Seq(S) /\ i \in 0 .. n BY <1>1, <1>13
  <2>2. CASE Skip(sizes[i], f[i - 1]) BY <1>11, <2>1, <2>2
  <2>3. CASE ~ Skip(sizes[i], f[i - 1])
    <3>1. sizes[i] \in S BY <1>2, <2>3
    <3>2. Append(f[i - 1], sizes[i]) \in Seq(S) BY <2>1, <3>1, AppendProperties
    <3> QED BY <1>11, <2>1, <2>3, <3>2
  <2> QED BY <2>2, <2>3
<1>14. 0 .. n \subseteq T
  <2> HIDE DEF T
  <2> QED BY <1>1, <1>12, <1>13, InductionUpTo
<1>15. n \in 0 .. n BY <1>1
<1> QED BY <1>9, <1>14, <1>15 DEF S

-----------------------------------------------------------------------------
(* The network that is composed when it is neither refused nor picked for  *)
(* ever, and where its nodes stand: the bootnode first, the nodes to test  *)
(* next, the extra nodes last, each with its place for an index.           *)

LEMMA ModInRange ==
    ASSUME NEW a \in Int, NEW n \in Nat \ {0}
    PROVE  a % n \in 0 .. (n - 1)
OBVIOUS

LEMMA DivBounds ==
    ASSUME NEW a \in Int, NEW n \in Nat \ {0}
    PROVE  a \div n \in Int /\ n * (a \div n) <= a /\ a < n * (a \div n) + n
OBVIOUS

\* Each client of the other layer has its turn as often as the multiplier says.
LEMMA DivBelow ==
    ASSUME NEW n \in Nat \ {0}, NEW m \in Nat, NEW a \in Nat, a < m * n
    PROVE  a \div n \in Nat /\ a \div n < m
<1>1. PICK q \in Int : q = a \div n BY DivBounds
<1>2. n * q <= a /\ a < n * q + n BY <1>1, DivBounds
<1>3. q < m
  <2> SUFFICES ASSUME q >= m PROVE FALSE BY <1>1
  <2>1. n * q >= n * m OBVIOUS
  <2> QED BY <1>2, <2>1
<1>4. q >= 0
  <2> SUFFICES ASSUME q + 1 <= 0 PROVE FALSE BY <1>1
  <2>1. n * (q + 1) <= 0 OBVIOUS
  <2> QED BY <1>2, <2>1
<1> QED BY <1>1, <1>3, <1>4

NodesOf(c) ==
    [index : Nat \ {0}, execution : Range(c.execs), consensus : Range(c.conss)]

RunsTarget(c, node) == Runs(node, c.target, IsTargetExecutionClient(c))

Composes(c) == Valid(c) /\ ~ ComposeNetworkRefuses(c) /\ ~ PicksForever(c)

\* The nodes to test come after the bootnode and run the target.
LEMMA NodesToTestComposed ==
    ASSUME NEW c \in Configs, Composes(c)
    PROVE  /\ NodesToTest(c) \in Seq(NodesOf(c)) /\ NodesToTest(c) # <<>>
           /\ \A i \in 1 .. Len(NodesToTest(c)) :
                 NodesToTest(c)[i].index = i + 1 /\ RunsTarget(c, NodesToTest(c)[i])
<1> DEFINE exec == IsTargetExecutionClient(c)
           others == IF exec THEN c.conss ELSE c.execs
           times == IF c.multiplier = 0 THEN 1 ELSE c.multiplier
           n == Len(others) * times
           Other(i) == others[((i - 1) \div times) + 1]
<1>1. /\ c.execs \in Seq(Range(c.execs)) /\ c.conss \in Seq(Range(c.conss))
      /\ c.multiplier \in Nat
  BY ConfigsAssumption
<1>2. times \in Nat \ {0} BY <1>1
<1>3. /\ c.bootEl \in Range(c.execs) /\ c.bootCl \in Range(c.conss)
      /\ exec \/ c.target \in Range(c.conss)
  BY DEF Composes, Valid, ComposeNetworkRefuses, IsTargetConsensusClient
<1>4. exec => c.target \in Range(c.execs) BY DEF IsTargetExecutionClient
<1>5. others \in Seq(Range(others)) /\ Len(others) \in Nat \ {0}
  <2>1. others \in Seq(Range(others)) BY <1>1
  <2>2. Range(others) # {} BY <1>3
  <2>3. Len(others) \in Nat /\ DOMAIN others = 1 .. Len(others) BY <2>1, LenProperties
  <2>4. Len(others) # 0 BY <2>2, <2>3 DEF Range
  <2> QED BY <2>1, <2>3, <2>4
<1> DEFINE node(i) == IF exec THEN Node(i + 1, c.target, Other(i))
                              ELSE Node(i + 1, Other(i), c.target)
<1>6. NodesToTest(c) = [i \in 1 .. n |-> node(i)] BY DEF NodesToTest
<1>7. \A i \in 1 .. n : Other(i) \in Range(others)
  <2> HIDE DEF others, times
  <2> SUFFICES ASSUME NEW i \in 1 .. n PROVE Other(i) \in Range(others) OBVIOUS
  <2>1. n \in Nat BY <1>2, <1>5
  <2>2. i - 1 \in Nat /\ i - 1 < Len(others) * times BY <2>1
  <2>3. (i - 1) \div times \in Nat /\ (i - 1) \div times < Len(others)
    BY <1>2, <1>5, <2>2, DivBelow
  <2>4. ((i - 1) \div times) + 1 \in 1 .. Len(others) BY <1>5, <2>3
  <2> QED BY <1>5, <2>4, ElementOfSeq
<1>8. n \in Nat \ {0}
  <2> HIDE DEF others, times
  <2> QED BY <1>2, <1>5
<1> HIDE DEF n, Other, times
<1>9. \A i \in 1 .. n :
         /\ node(i) \in NodesOf(c)
         /\ node(i).index = i + 1 /\ RunsTarget(c, node(i))
  <2> SUFFICES ASSUME NEW i \in 1 .. n
               PROVE  /\ node(i) \in NodesOf(c)
                      /\ node(i).index = i + 1 /\ RunsTarget(c, node(i))
    OBVIOUS
  <2>1. i + 1 \in Nat \ {0} BY <1>8
  <2>2. CASE exec
    BY <1>4, <1>7, <2>1, <2>2 DEF Node, NodesOf, RunsTarget, Runs
  <2>3. CASE ~ exec
    BY <1>3, <1>7, <2>1, <2>3 DEF Node, NodesOf, RunsTarget, Runs
  <2> QED BY <2>2, <2>3
<1> HIDE DEF node
<1>10. NodesToTest(c) \in [1 .. n -> NodesOf(c)] BY <1>6, <1>9
<1>11. NodesToTest(c) \in Seq(NodesOf(c)) /\ Len(NodesToTest(c)) = n
  BY <1>8, <1>10
<1> QED BY <1>6, <1>8, <1>9, <1>11

\* The extra nodes go on with the numbers, and none of them runs the target.
LEMMA ExtraNodesComposed ==
    ASSUME NEW c \in Configs, Composes(c), c.percent # 0,
           NEW first \in Nat \ {0}, NEW count \in Nat
    PROVE  /\ ExtraNodes(c, first, count) \in Seq(NodesOf(c))
           /\ Len(ExtraNodes(c, first, count)) = count
           /\ \A k \in 1 .. count :
                 /\ ExtraNodes(c, first, count)[k].index = first + k - 1
                 /\ ~ RunsTarget(c, ExtraNodes(c, first, count)[k])
<1> DEFINE execs == OtherExecs(c)
           conss == OtherConss(c)
           E == Range(c.execs) \ {c.target}
           C == Range(c.conss) \ {c.target}
           exec(k) == execs[(((k - 1) \div Len(conss)) % Len(execs)) + 1]
           cons(k) == conss[((k - 1) % Len(conss)) + 1]
           node(k) == Node(first + k - 1, exec(k), cons(k))
<1>1. c.execs \in Seq(Range(c.execs)) /\ c.conss \in Seq(Range(c.conss))
  BY ConfigsAssumption
<1>2. execs # <<>> /\ conss # <<>>
  BY DEF Composes, PicksForever, ComposeNetworkRefuses
<1>3. execs \in Seq(Range(c.execs)) /\ Range(execs) \subseteq E
  BY <1>1, KeepOnlyKeeps DEF OtherExecs
<1>4. conss \in Seq(Range(c.conss)) /\ Range(conss) \subseteq C
  BY <1>1, KeepOnlyKeeps DEF OtherConss
<1>5. /\ Len(execs) \in Nat \ {0} /\ \A i \in 1 .. Len(execs) : execs[i] \in E
      /\ Len(conss) \in Nat \ {0} /\ \A i \in 1 .. Len(conss) : conss[i] \in C
  BY <1>2, <1>3, <1>4, EmptySeq, LenProperties DEF Range
<1>6. ExtraNodes(c, first, count) = [k \in 1 .. count |-> node(k)] BY DEF ExtraNodes
<1> HIDE DEF execs, conss, E, C
<1>7. \A k \in 1 .. count : exec(k) \in E /\ cons(k) \in C
  <2> SUFFICES ASSUME NEW k \in 1 .. count PROVE exec(k) \in E /\ cons(k) \in C OBVIOUS
  <2>1. k - 1 \in Int OBVIOUS
  <2>2. (k - 1) \div Len(conss) \in Int BY <1>5, <2>1, DivBounds
  <2>3. ((k - 1) \div Len(conss)) % Len(execs) \in 0 .. (Len(execs) - 1)
    BY <1>5, <2>2, ModInRange
  <2>4. (k - 1) % Len(conss) \in 0 .. (Len(conss) - 1) BY <1>5, <2>1, ModInRange
  <2>5. /\ (((k - 1) \div Len(conss)) % Len(execs)) + 1 \in 1 .. Len(execs)
        /\ ((k - 1) % Len(conss)) + 1 \in 1 .. Len(conss)
    BY <1>5, <2>3, <2>4
  <2> QED BY <1>5, <2>5
<1> HIDE DEF exec, cons
<1>8. \A k \in 1 .. count :
         /\ node(k) \in NodesOf(c)
         /\ node(k).index = first + k - 1 /\ ~ RunsTarget(c, node(k))
  <2> SUFFICES ASSUME NEW k \in 1 .. count
               PROVE  /\ node(k) \in NodesOf(c)
                      /\ node(k).index = first + k - 1 /\ ~ RunsTarget(c, node(k))
    OBVIOUS
  <2>1. first + k - 1 \in Nat \ {0} OBVIOUS
  <2> QED BY <1>7, <2>1 DEF Node, NodesOf, RunsTarget, Runs, E, C
<1> HIDE DEF node
<1>9. ExtraNodes(c, first, count) \in [1 .. count -> NodesOf(c)] BY <1>6, <1>8
<1> QED BY <1>6, <1>8, <1>9

LEMMA TimesMonotone ==
    ASSUME NEW a \in Int, NEW b \in Int, a <= b, NEW k \in Nat
    PROVE  k * a <= k * b
<1>1. PICK d \in Nat : b = a + d OBVIOUS
<1>2. k * d \in Nat OBVIOUS
<1>3. k * b = k * a + k * d BY <1>1
<1> QED BY <1>2, <1>3

\* A percentage as a float32: half a unit off at most.
LEMMA PercentAsFloat ==
    ASSUME NEW percent \in Nat, 1 <= percent, percent <= 100
    PROVE  LET scale == ScaleOf(percent)
               mantissa == Mantissa(percent, scale)
           IN  /\ scale \in Nat /\ 8388608 <= scale
               /\ mantissa \in Nat /\ 8388608 <= mantissa
               /\ percent * scale - 50 <= 100 * mantissa
               /\ 100 * mantissa <= percent * scale + 50
<1> DEFINE scale == ScaleOf(percent)
           Normal(e) == 8388608 <= Mantissa(percent, e) /\ Mantissa(percent, e) < 16777216
           Fits(k) == Normal(8388608 * k)
<1>1. \E e \in Scales : Normal(e)
  <2>1. percent < 2 => Fits(128) BY DEF Mantissa
  <2>2. 2 <= percent /\ percent < 4 => Fits(64) BY DEF Mantissa
  <2>3. 4 <= percent /\ percent < 7 => Fits(32) BY DEF Mantissa
  <2>4. 7 <= percent /\ percent < 13 => Fits(16) BY DEF Mantissa
  <2>5. 13 <= percent /\ percent < 25 => Fits(8) BY DEF Mantissa
  <2>6. 25 <= percent /\ percent < 50 => Fits(4) BY DEF Mantissa
  <2>7. 50 <= percent /\ percent < 100 => Fits(2) BY DEF Mantissa
  <2>8. 100 <= percent => Fits(1) BY DEF Mantissa
  <2>9. \A k \in {1, 2, 4, 8, 16, 32, 64, 128} : 8388608 * k \in Scales BY DEF Scales
  <2>10. \E k \in {1, 2, 4, 8, 16, 32, 64, 128} : Fits(k)
    <3> HIDE DEF Fits
    <3> QED BY <2>1, <2>2, <2>3, <2>4, <2>5, <2>6, <2>7, <2>8
  <2> QED BY <2>9, <2>10
<1>2. scale \in Scales /\ Normal(scale) BY <1>1 DEF ScaleOf
<1>3. scale \in Nat /\ 8388608 <= scale BY <1>2 DEF Scales
<1> HIDE DEF scale
<1>4. percent * scale + 50 \in Int BY <1>3
<1>5. PICK q \in Int : q = (percent * scale + 50) \div 100 BY <1>4, DivBounds
<1>6. 100 * q <= percent * scale + 50 /\ percent * scale + 50 < 100 * q + 100
  BY <1>4, <1>5, DivBounds
<1>7. Mantissa(percent, scale) = q BY <1>5 DEF Mantissa
<1>8. /\ Mantissa(percent, scale) \in Nat
      /\ percent * scale - 50 <= 100 * Mantissa(percent, scale)
      /\ 100 * Mantissa(percent, scale) <= percent * scale + 50
  BY <1>2, <1>3, <1>6, <1>7
<1> QED BY <1>2, <1>3, <1>8 DEF scale

\* The float32 quotient of a network of fewer than 1000 nodes is at most one short of the
\* exact one, and not past it.
LEMMA NetworkSizeRounded ==
    ASSUME NEW percent \in Nat, 1 <= percent, percent <= 100,
           NEW targets \in Nat, 1 <= targets, targets <= 999,
           100 * targets < 1000 * percent
    PROVE  LET n == NetworkSize(percent, targets)
           IN  /\ n \in Nat
               /\ percent * n <= 100 * targets /\ 100 * targets <= percent * (n + 1)
<1> DEFINE scale == ScaleOf(percent)
           mantissa == Mantissa(percent, scale)
           whole == (targets * scale) \div mantissa
           power == CHOOSE k \in Powers : k <= whole /\ whole < 2 * k
           unit == (power * mantissa) \div 16777216
           lacking == (whole + 1) * mantissa - targets * scale
           n == IF lacking <= unit THEN whole + 1 ELSE whole
<1>1. /\ scale \in Nat /\ 8388608 <= scale
      /\ mantissa \in Nat /\ 8388608 <= mantissa
      /\ percent * scale - 50 <= 100 * mantissa
      /\ 100 * mantissa <= percent * scale + 50
  BY PercentAsFloat
<1>2. NetworkSize(percent, targets) = n BY DEF NetworkSize
<1> HIDE DEF scale, mantissa
<1>3. targets * scale \in Int /\ mantissa \in Nat \ {0} BY <1>1
<1>4. /\ whole \in Int
      /\ mantissa * whole <= targets * scale
      /\ targets * scale < mantissa * whole + mantissa
  BY <1>3, DivBounds
<1> HIDE DEF whole
<1>5. whole \in Nat /\ 1 <= whole /\ whole <= 1000
  <2>1. mantissa <= targets * scale
    <3>1. percent * scale <= 100 * scale BY <1>1
    <3>2. mantissa <= scale BY <1>1, <3>1
    <3>3. scale * 1 <= scale * targets BY <1>1, TimesMonotone
    <3> QED BY <1>1, <3>2, <3>3
  <2>2. whole >= 1
    <3> SUFFICES ASSUME whole <= 0 PROVE FALSE BY <1>4
    <3>1. mantissa * whole <= mantissa * 0 BY <1>3, <1>4, TimesMonotone
    <3> QED BY <1>3, <1>4, <2>1, <3>1
  <2>3. whole <= 1000
    <3> SUFFICES ASSUME whole >= 1001 PROVE FALSE BY <1>4
    <3>1. mantissa * 1001 <= mantissa * whole BY <1>3, <1>4, TimesMonotone
    <3>2. scale * (100 * targets) <= scale * (1000 * percent - 1) BY <1>1, TimesMonotone
    <3>3. scale * (100 * targets) = 100 * (targets * scale) BY <1>1
    <3>4. scale * (1000 * percent - 1) = 1000 * (percent * scale) - scale BY <1>1
    <3>5. percent * scale \in Nat BY <1>1
    <3> HIDE DEF power
    <3> QED BY <1>1, <1>3, <1>4, <3>1, <3>2, <3>3, <3>4, <3>5
  <2> QED BY <1>4, <2>2, <2>3
<1>6. power \in Nat /\ power <= whole
  <2>1. \E k \in Powers : k <= whole /\ whole < 2 * k BY <1>5 DEF Powers
  <2>2. power \in Powers /\ power <= whole BY <2>1
  <2> HIDE DEF power
  <2> QED BY <2>2 DEF Powers
<1> HIDE DEF power
<1>7. unit \in Int /\ 16777216 * unit <= targets * scale
  <2>1. power * mantissa \in Int BY <1>3, <1>6
  <2>2. unit \in Int /\ 16777216 * unit <= power * mantissa BY <2>1, DivBounds
  <2>3. mantissa * power <= mantissa * whole BY <1>3, <1>5, <1>6, TimesMonotone
  <2> HIDE DEF unit
  <2> QED BY <1>3, <1>4, <1>5, <1>6, <2>2, <2>3
<1> HIDE DEF unit
<1>8. n \in Nat /\ (n = whole \/ n = whole + 1)
  BY <1>5
<1>9. mantissa * n <= targets * scale + IF n = whole THEN 0 ELSE unit
  <2>1. CASE lacking <= unit
    <3>1. n = whole + 1 /\ n # whole BY <1>5, <2>1
    <3>2. (whole + 1) * mantissa = mantissa * (whole + 1) BY <1>3, <1>5
    <3>3. mantissa * (whole + 1) \in Int BY <1>3, <1>5
    <3> QED BY <1>3, <1>7, <2>1, <3>1, <3>2, <3>3
  <2>2. CASE ~ lacking <= unit
    BY <1>3, <1>4, <1>5, <2>2
  <2> QED BY <2>1, <2>2
<1> HIDE DEF n
<1>10. percent * n <= 100 * targets
  <2>1. n * (percent * scale - 50) <= n * (100 * mantissa) BY <1>1, <1>8, TimesMonotone
  <2>2. n * (percent * scale - 50) = scale * (percent * n) - 50 * n
        /\ n * (100 * mantissa) = 100 * (mantissa * n)
    BY <1>1, <1>8
  <2>3. scale * targets <= scale * 999 BY <1>1, TimesMonotone
  <2>4. 16777216 * (mantissa * n - targets * scale) <= 999 * scale
    <3>1. mantissa * n \in Int BY <1>1, <1>8
    <3> QED BY <1>1, <1>3, <1>7, <1>9, <2>3, <3>1
  <2> SUFFICES ASSUME 100 * targets + 1 <= percent * n PROVE FALSE BY <1>8
  <2>5. scale * (100 * targets + 1) <= scale * (percent * n)
    BY <1>1, <1>8, TimesMonotone
  <2>6. scale * (100 * targets + 1) = 100 * (targets * scale) + scale BY <1>1
  <2>7. mantissa * n \in Int /\ scale * (percent * n) \in Int BY <1>1, <1>8
  <2>8. scale <= 50 * n + 100 * (mantissa * n - targets * scale)
    BY <1>1, <1>3, <1>8, <2>1, <2>2, <2>5, <2>6, <2>7
  <2>9. n <= 1001 BY <1>5, <1>8
  <2> DEFINE over == mantissa * n - targets * scale
  <2>10. over \in Int BY <1>3, <2>7
  <2> HIDE DEF over
  <2>11. 16777216 * over <= 999 * scale /\ scale <= 50 * n + 100 * over
    BY <2>4, <2>8 DEF over
  <2> QED BY <1>1, <1>8, <2>9, <2>10, <2>11
<1>11. 100 * targets <= percent * (whole + 1)
  <2> SUFFICES ASSUME percent * (whole + 1) + 1 <= 100 * targets PROVE FALSE BY <1>5
  <2>1. (whole + 1) * (100 * mantissa) <= (whole + 1) * (percent * scale + 50)
    BY <1>1, <1>5, TimesMonotone
  <2>2. /\ (whole + 1) * (100 * mantissa) = 100 * (mantissa * whole + mantissa)
        /\ (whole + 1) * (percent * scale + 50)
              = scale * (percent * (whole + 1)) + 50 * (whole + 1)
    BY <1>1, <1>5
  <2>3. scale * (percent * (whole + 1) + 1) <= scale * (100 * targets)
    BY <1>1, <1>5, TimesMonotone
  <2>4. /\ scale * (percent * (whole + 1) + 1) = scale * (percent * (whole + 1)) + scale
        /\ scale * (100 * targets) = 100 * (targets * scale)
    BY <1>1, <1>5
  <2>5. scale * (percent * (whole + 1)) \in Int /\ mantissa * whole \in Int
    BY <1>1, <1>5
  <2>6. scale <= 50 * (whole + 1)
    BY <1>1, <1>3, <1>4, <1>5, <2>1, <2>2, <2>3, <2>4, <2>5
  <2> QED BY <1>1, <1>5, <2>6
<1>12. percent * (whole + 1) <= percent * (n + 1)
  BY <1>5, <1>8, TimesMonotone
<1>13. 100 * targets <= percent * (n + 1) BY <1>5, <1>8, <1>11, <1>12
<1> QED BY <1>2, <1>8, <1>10, <1>13

\* A share that is not refused leaves room for the bootnode.
LEMMA ShareLeavesRoom ==
    ASSUME NEW percent \in Nat, 1 <= percent, percent <= 100,
           NEW targets \in Nat, 1 <= targets, targets <= 999,
           100 * targets < 1000 * percent, ~ PercentRefused(percent, targets)
    PROVE  /\ NodesToAdd(percent, targets) \in Nat
           /\ LET n == targets + 1 + NodesToAdd(percent, targets)
              IN  100 * targets >= percent * n /\ 100 * targets <= percent * (n + 1)
<1> DEFINE n == NetworkSize(percent, targets)
<1>1. n \in Nat /\ percent * n <= 100 * targets /\ 100 * targets <= percent * (n + 1)
  BY NetworkSizeRounded
<1>2. ~ (n - targets < 1)
  <2>1. percent \in 0 .. 100 OBVIOUS
  <2> HIDE DEF n
  <2> QED BY <2>1 DEF PercentRefused, n
<1>3. NodesToAdd(percent, targets) = n - targets - 1 BY DEF NodesToAdd
<1> HIDE DEF n
<1>4. NodesToAdd(percent, targets) \in Nat BY <1>1, <1>2, <1>3
<1>5. targets + 1 + NodesToAdd(percent, targets) = n BY <1>1, <1>3
<1> QED BY <1>1, <1>4, <1>5

\* The bootnode first, then the nodes that run the target, then the others, each with its
\* place for a number.
LEMMA NetworkComposed ==
    ASSUME NEW c \in Configs, Composes(c)
    PROVE  LET network == ComposeNetworkTopology(c)
               targets == Len(NodesToTest(c))
               n == Len(network)
           IN  /\ network \in Seq(NodesOf(c)) /\ targets \in Nat \ {0} /\ n >= targets + 1
               /\ \A i \in 1 .. n : network[i].index = i
               /\ \A i \in 2 .. (targets + 1) : RunsTarget(c, network[i])
               /\ \A i \in (targets + 2) .. n : ~ RunsTarget(c, network[i])
               /\ n < 1000
               /\ c.percent # 0 =>
                     100 * targets >= c.percent * n /\ 100 * targets <= c.percent * (n + 1)
<1> DEFINE network == ComposeNetworkTopology(c)
           test == NodesToTest(c)
           t == Len(test)
           S == NodesOf(c)
           composed == <<Bootnode(c)>> \o test
           count == NodesToAdd(c.percent, t)
           extra == ExtraNodes(c, t + 2, count)
<1>1. /\ test \in Seq(S) /\ test # <<>>
      /\ \A i \in 1 .. t : test[i].index = i + 1 /\ RunsTarget(c, test[i])
  BY NodesToTestComposed
<1>2. t \in Nat \ {0} BY <1>1, EmptySeq
<1>3. Bootnode(c) \in S /\ Bootnode(c).index = 1
  BY DEF Bootnode, Node, NodesOf, Composes, ComposeNetworkRefuses
<1> HIDE DEF S, test
<1>4. /\ composed \in Seq(S) /\ Len(composed) = t + 1
      /\ composed[1] = Bootnode(c) /\ \A i \in 2 .. (t + 1) : composed[i] = test[i - 1]
  <2>1. <<Bootnode(c)>> \in Seq(S) /\ Len(<<Bootnode(c)>>) = 1 BY <1>3
  <2>2. /\ composed \in Seq(S) /\ Len(composed) = 1 + t
        /\ \A i \in 1 .. (1 + t) :
              composed[i] = IF i <= 1 THEN <<Bootnode(c)>>[i] ELSE test[i - 1]
    BY <1>1, <2>1, ConcatProperties
  <2>3. <<Bootnode(c)>>[1] = Bootnode(c) OBVIOUS
  <2> HIDE DEF composed
  <2> QED BY <1>2, <2>2, <2>3
<1>5. /\ \A i \in 1 .. (t + 1) : composed[i].index = i
      /\ \A i \in 2 .. (t + 1) : RunsTarget(c, composed[i])
  <2>1. ASSUME NEW i \in 2 .. (t + 1)
        PROVE  composed[i].index = i /\ RunsTarget(c, composed[i])
    <3>1. i - 1 \in 1 .. t /\ (i - 1) + 1 = i BY <1>2
    <3> QED BY <1>1, <1>4, <3>1
  <2>2. \A i \in 1 .. (t + 1) : i = 1 \/ i \in 2 .. (t + 1) BY <1>2
  <2> QED BY <1>3, <1>4, <2>1, <2>2
<1>6. CASE c.percent = 0
  <2>1. network = composed BY <1>6 DEF ComposeNetworkTopology, test
  <2>2. (t + 2) .. (t + 1) = {} /\ t + 1 < 1000 BY <1>2, NetworksAssumption DEF test
  <2> HIDE DEF composed, network
  <2> QED BY <1>2, <1>4, <1>5, <1>6, <2>1, <2>2 DEF S, test, network
<1>7. CASE c.percent # 0
  <2>0. ~ PercentRefused(c.percent, t)
    BY <1>7 DEF Composes, ComposeNetworkRefuses, test
  <2>1. /\ c.percent \in Nat /\ 1 <= c.percent /\ c.percent <= 100
        /\ t <= 999 /\ 100 * t < 1000 * c.percent
    <3>1. c.percent \in 0 .. 100 BY <2>0 DEF PercentRefused
    <3>2. c.percent \in 1 .. 100 BY <1>7, <3>1
    <3>3. t + 1 < 1000 /\ 100 * t < 1000 * c.percent
      BY <3>2, NetworksAssumption DEF test
    <3> HIDE DEF t
    <3> QED BY <1>2, <3>2, <3>3
  <2>2. /\ count \in Nat
        /\ LET n == t + 1 + count
           IN  100 * t >= c.percent * n /\ 100 * t <= c.percent * (n + 1)
    BY <1>2, <2>0, <2>1, ShareLeavesRoom
  <2> HIDE DEF count
  <2>3. /\ extra \in Seq(S) /\ Len(extra) = count
        /\ \A k \in 1 .. count : extra[k].index = t + 2 + k - 1 /\ ~ RunsTarget(c, extra[k])
    <3>1. t + 2 \in Nat \ {0} BY <1>2
    <3> QED BY <1>7, <2>2, <3>1, ExtraNodesComposed DEF S
  <2>4. network = composed \o extra
    <3>1. composed[Len(composed)].index + 1 = t + 2 /\ Len(composed) - 1 = t
      BY <1>2, <1>4, <1>5
    <3> QED BY <1>7, <3>1 DEF ComposeNetworkTopology, test, count
  <2> HIDE DEF composed, network, extra
  <2>5. /\ network \in Seq(S) /\ Len(network) = t + 1 + count
        /\ \A i \in 1 .. (t + 1 + count) :
              network[i] = IF i <= t + 1 THEN composed[i] ELSE extra[i - (t + 1)]
    <3>1. Len(composed) = t + 1 /\ Len(extra) = count BY <1>4, <2>3
    <3>2. composed \in Seq(S) /\ extra \in Seq(S) BY <1>4, <2>3
    <3>3. /\ network \in Seq(S) /\ Len(network) = Len(composed) + Len(extra)
          /\ \A i \in 1 .. Len(composed) + Len(extra) :
                network[i] = IF i <= Len(composed) THEN composed[i]
                             ELSE extra[i - Len(composed)]
      BY <2>4, <3>2, ConcatProperties
    <3> QED BY <3>1, <3>3
  <2>6. \A i \in 1 .. (t + 1) : network[i] = composed[i] BY <1>2, <2>2, <2>5
  <2>7. ASSUME NEW i \in (t + 2) .. (t + 1 + count)
        PROVE  network[i].index = i /\ ~ RunsTarget(c, network[i])
    <3>1. i - (t + 1) \in 1 .. count /\ t + 2 + (i - (t + 1)) - 1 = i
      BY <1>2, <2>2
    <3>2. network[i] = extra[i - (t + 1)] BY <1>2, <2>2, <2>5
    <3> QED BY <2>3, <3>1, <3>2
  <2>8. \A i \in 1 .. (t + 1 + count) : i \in 1 .. (t + 1) \/ i \in (t + 2) .. (t + 1 + count)
    BY <1>2, <2>2
  <2>9. /\ \A i \in 1 .. Len(network) : network[i].index = i
        /\ \A i \in 2 .. (t + 1) : RunsTarget(c, network[i])
    <3>1. \A i \in 2 .. (t + 1) : i \in 1 .. (t + 1) OBVIOUS
    <3> QED BY <1>5, <2>5, <2>6, <2>7, <2>8, <3>1
  <2>10. t + 1 + count < 1000
    <3> SUFFICES ASSUME t + 1 + count >= 1000 PROVE FALSE BY <1>2, <2>2
    <3>1. c.percent * 1000 <= c.percent * (t + 1 + count)
      BY <1>2, <2>1, <2>2, TimesMonotone
    <3> QED BY <1>2, <2>1, <2>2, <3>1
  <2> QED BY <1>2, <2>2, <2>5, <2>7, <2>9, <2>10 DEF S, test, network
<1> QED BY <1>6, <1>7, ConfigsAssumption

-----------------------------------------------------------------------------
(* The targets: the nodes next to the bootnode, as many as the size means. *)

Composed == config \in Configs /\ Composes(config) /\ nodes = ComposeNetworkTopology(config)

\* The targetable nodes are those made to be tested.
LEMMA TargetableNodes ==
    ASSUME Composed
    PROVE  /\ nodes \in Seq(NodesOf(config)) /\ NodeCount \in Nat \ {0}
           /\ Targetable \in Seq(NodesOf(config))
           /\ Len(Targetable) = Len(NodesToTest(config))
           /\ Len(Targetable) \in Nat \ {0} /\ Len(Targetable) < NodeCount
           /\ \A i \in 1 .. Len(Targetable) : Targetable[i] = nodes[i + 1]
           /\ \A node \in Range(Targetable) : \E i \in 2 .. NodeCount : node = nodes[i]
<1> DEFINE t == Len(NodesToTest(config))
           n == Len(nodes)
           S == NodesOf(config)
           rest == Tail(nodes)
           W == {node \in Range(rest) : RunsTarget(config, node)}
<1>1. /\ nodes \in Seq(S) /\ t \in Nat \ {0} /\ n >= t + 1
      /\ \A i \in 2 .. (t + 1) : RunsTarget(config, nodes[i])
      /\ \A i \in (t + 2) .. n : ~ RunsTarget(config, nodes[i])
  BY NetworkComposed DEF Composed
<1>2. n \in Nat \ {0} /\ nodes # <<>> BY <1>1, LenProperties
<1>3. /\ rest \in Seq(S) /\ Len(rest) = n - 1
      /\ \A i \in 1 .. (n - 1) : rest[i] = nodes[i + 1]
  <2>1. /\ rest \in Seq(S) /\ Len(rest) = n - 1
        /\ \A i \in 1 .. Len(rest) : rest[i] = nodes[i + 1]
    BY <1>1, <1>2, HeadTailProperties
  <2> QED BY <2>1
<1>4. \A i \in 1 .. (n - 1) : rest[i] \in W <=> RunsTarget(config, nodes[i + 1])
  <2> HIDE DEF rest
  <2>1. \A i \in 1 .. (n - 1) : rest[i] \in Range(rest) BY <1>3, LenProperties DEF Range
  <2> QED BY <1>3, <2>1
<1>5. Targetable = KeepOnly(rest, W)
  BY DEF Targetable, FilterNodes, RunsTarget, IsExecClient
<1> HIDE DEF W, rest, S, n, t
<1>6. /\ Targetable \in Seq(S)
      /\ Range(Targetable) \subseteq Range(rest)
      /\ \A m \in 0 .. Len(rest) :
            FirstWanted(rest, W, m) => Len(Targetable) = m /\ \A i \in 1 .. m : Targetable[i] = rest[i]
  BY <1>3, <1>5, KeepOnlyKeeps
<1>7. Len(Targetable) = t /\ \A i \in 1 .. t : Targetable[i] = rest[i]
  <2>1. t \in 0 .. Len(rest) BY <1>1, <1>2, <1>3
  <2>2. ASSUME NEW i \in 1 .. t PROVE rest[i] \in W
    <3>1. i \in 1 .. (n - 1) /\ i + 1 \in 2 .. (t + 1) BY <1>1, <1>2
    <3> QED BY <1>1, <1>4, <3>1
  <2>3. ASSUME NEW i \in (t + 1) .. Len(rest) PROVE rest[i] \notin W
    <3>1. i \in 1 .. (n - 1) /\ i + 1 \in (t + 2) .. n BY <1>1, <1>2, <1>3
    <3> QED BY <1>1, <1>4, <3>1
  <2> QED BY <1>6, <2>1, <2>2, <2>3 DEF FirstWanted
<1>8. ASSUME NEW node \in Range(Targetable) PROVE \E i \in 2 .. n : node = nodes[i]
  <2>1. node \in Range(rest) BY <1>6
  <2>2. PICK j \in 1 .. (n - 1) : node = rest[j] BY <1>3, <2>1, LenProperties DEF Range
  <2>3. j + 1 \in 2 .. n BY <1>2
  <2> QED BY <1>3, <2>2, <2>3
<1>9. \A i \in 1 .. t : Targetable[i] = nodes[i + 1]
  <2>1. \A i \in 1 .. t : i \in 1 .. (n - 1) BY <1>1, <1>2
  <2> QED BY <1>3, <1>7, <2>1
<1> QED BY <1>1, <1>2, <1>6, <1>7, <1>8, <1>9 DEF n, t, S, NodeCount

\* An attack size that can be met means a number of nodes there are, and the share of the
\* network that its name says.
LEMMA SizesMeanTheirNames ==
    ASSUME NEW n \in Nat \ {0}, NEW targetable \in Nat \ {0}, targetable < n,
           NEW size \in AttackSizes, ~ CannotMeet(size, n, targetable)
    PROVE  LET k == NodesToTarget(size, n, targetable)
           IN  /\ k \in 1 .. targetable
               /\ size = "AttackMinority" => 3 * k < n
               /\ size = "AttackSuperminority" => 3 * k >= n /\ 2 * k < n
               /\ size = "AttackMajority" => 2 * k > n /\ 3 * k < 2 * n
               /\ size = "AttackSupermajority" => 3 * k > 2 * n /\ k < n
<1> DEFINE k == NodesToTarget(size, n, targetable)
<1>1. k # 0 BY DEF CannotMeet
<1>2. CASE size = "AttackOne" BY <1>2 DEF NodesToTarget
<1>3. CASE size = "AttackAll" BY <1>3 DEF NodesToTarget
<1>4. CASE size = "AttackMinority"
  <2>1. k = (32 * n) \div 100 + 0 BY <1>4 DEF NodesToTarget
  <2>2. k <= targetable BY <1>4, <2>1 DEF CannotMeet
  <2> HIDE DEF k
  <2> QED BY <1>1, <1>4, <2>1, <2>2 DEF k
<1>5. CASE size = "AttackSuperminority"
  <2>1. k = (34 * n) \div 100 + (IF 3 * ((34 * n) \div 100) < n THEN 1 ELSE 0)
    BY <1>5 DEF NodesToTarget
  <2>2. k <= targetable /\ 2 * k < n
    BY <1>5, <2>1 DEF CannotMeet
  <2> HIDE DEF k
  <2> QED BY <1>1, <1>5, <2>1, <2>2 DEF k
<1>6. CASE size = "AttackMajority"
  <2>1. k = (51 * n) \div 100 + (IF 2 * ((51 * n) \div 100) <= n THEN 1 ELSE 0)
    BY <1>6 DEF NodesToTarget
  <2>2. k <= targetable /\ 100 * k < 66 * n
    BY <1>6, <2>1 DEF CannotMeet
  <2> HIDE DEF k
  <2> QED BY <1>1, <1>6, <2>1, <2>2 DEF k
<1>7. CASE size = "AttackSupermajority"
  <2>1. k = (67 * n) \div 100 + (IF 3 * ((67 * n) \div 100) <= 2 * n THEN 1 ELSE 0)
    BY <1>7 DEF NodesToTarget
  <2>2. k <= targetable BY <1>7, <2>1 DEF CannotMeet
  <2> HIDE DEF k
  <2> QED BY <1>1, <1>7, <2>1, <2>2 DEF k
<1> QED BY <1>2, <1>3, <1>4, <1>5, <1>6, <1>7 DEF AttackSizes

-----------------------------------------------------------------------------
(* The tests: each is made of a dimension, a size that passed and a fault  *)
(* that was not refused, its plan of the steps for its targets and a wait. *)

\* The tests that a suite for the network can have.
SuiteTests ==
    {Test(dimension, size, fault) :
        dimension \in TargetingSpecs, size \in SizesThatFit,
        fault \in {f \in Range(config.faults) : ~ FaultRefused(config.type, f)}}

\* A suite is composed of such tests.
LEMMA SuiteComposed ==
    ASSUME Composed, ComposeSuite
    PROVE  Range(tests') \subseteq SuiteTests
<1> DEFINE dims == config.dimensions
           faults == config.faults
           fit == SizesTested
           U == {Test(d, s, f) : d \in TargetingSpecs, s \in SizesThatFit, f \in Range(faults)}
           one(d, s) == [f \in DOMAIN faults |-> Test(dims[d], fit[s], faults[f])]
           two(d) == [s \in DOMAIN fit |-> one(d, s)]
           all == [d \in DOMAIN dims |-> FlattenSeq(two(d))]
<1>1. /\ dims \in Seq(TargetingSpecs) /\ faults \in Seq(Range(faults))
      /\ fit \in Seq(SizesThatFit)
  BY ConfigsAssumption, SizesTestedFit DEF Composed
<1>2. /\ Len(dims) \in Nat /\ DOMAIN dims = 1 .. Len(dims)
      /\ Len(fit) \in Nat /\ DOMAIN fit = 1 .. Len(fit)
      /\ Len(faults) \in Nat /\ DOMAIN faults = 1 .. Len(faults)
  BY <1>1, LenProperties
<1>3. \A d \in DOMAIN dims : dims[d] \in TargetingSpecs BY <1>1, <1>2
<1>4. \A s \in DOMAIN fit : fit[s] \in SizesThatFit BY <1>1, <1>2, ElementOfSeq
<1>5. \A f \in DOMAIN faults : faults[f] \in Range(faults) BY DEF Range
<1>6. tests' = FlattenSeq(all) /\ ~ SuiteRefused BY DEF ComposeSuite
<1> HIDE DEF dims, fit, faults
<1>7. ASSUME NEW d \in DOMAIN dims, NEW s \in DOMAIN fit PROVE one(d, s) \in Seq(U)
  <2>1. \A f \in DOMAIN faults : Test(dims[d], fit[s], faults[f]) \in U
    BY <1>3, <1>4, <1>5, <1>7
  <2>2. one(d, s) \in [1 .. Len(faults) -> U]
    <3> HIDE DEF U
    <3> QED BY <1>2, <2>1
  <2> HIDE DEF U, one
  <2> QED BY <1>2, <2>2
<1> HIDE DEF U, one
<1>8. ASSUME NEW d \in DOMAIN dims PROVE two(d) \in Seq(Seq(U))
  <2>1. two(d) \in [1 .. Len(fit) -> Seq(U)] BY <1>2, <1>7, <1>8
  <2> HIDE DEF two
  <2> QED BY <1>2, <2>1
<1>9. all \in Seq(Seq(U))
  <2>1. \A d \in DOMAIN dims : FlattenSeq(two(d)) \in Seq(U) BY <1>8, FlattenElements
  <2> HIDE DEF two
  <2>2. all \in [1 .. Len(dims) -> Seq(U)] BY <1>2, <2>1
  <2> HIDE DEF all
  <2> QED BY <1>2, <2>2
<1>10. SUFFICES ASSUME NEW x \in Range(tests') PROVE x \in SuiteTests OBVIOUS
<1>11. PICK d \in DOMAIN dims : x \in Range(FlattenSeq(two(d)))
  <2>1. PICK d \in DOMAIN all : x \in Range(all[d]) BY <1>6, <1>9, <1>10, FlattenElements
  <2> QED BY <2>1
<1>12. PICK s \in DOMAIN fit : x \in Range(one(d, s))
  <2>1. PICK s \in DOMAIN two(d) : x \in Range(two(d)[s]) BY <1>8, <1>11, FlattenElements
  <2> QED BY <2>1
<1>13. PICK f \in DOMAIN faults : x = Test(dims[d], fit[s], faults[f])
  BY <1>12 DEF one, Range
<1>14. ~ FaultRefused(config.type, faults[f])
  <2>1. SizesTested # <<>> /\ config.dimensions # <<>>
    BY <1>2, <1>11, <1>12 DEF dims, fit
  <2> QED BY <1>5, <1>6, <2>1 DEF SuiteRefused, faults
<1> QED BY <1>3, <1>4, <1>5, <1>13, <1>14 DEF SuiteTests, faults

\* What one test of a suite is made of.
LEMMA SuiteTest ==
    ASSUME Composed, NEW test \in SuiteTests
    PROVE  \E dimension \in TargetingSpecs, size \in SizesThatFit,
              fault \in {f \in Range(config.faults) : ~ FaultRefused(config.type, f)} :
               LET count == NodesToTarget(size, NodeCount, Len(Targetable))
               IN  /\ test.size = size
                   /\ count \in 1 .. Len(Targetable)
                   /\ test.targets = [i \in 1 .. count |->
                          TargetSelector(dimension, IsExecClient, NodeCount, Targetable[i])]
                   /\ Len(test.targets) = count
                   /\ test.plan = PlanSteps(config.type, fault, test.targets)
<1>1. PICK dimension \in TargetingSpecs, size \in SizesThatFit,
           fault \in {f \in Range(config.faults) : ~ FaultRefused(config.type, f)} :
              test = Test(dimension, size, fault)
  BY DEF SuiteTests
<1> DEFINE count == NodesToTarget(size, NodeCount, Len(Targetable))
<1>2. count \in 1 .. Len(Targetable)
  BY TargetableNodes, SizesMeanTheirNames DEF SizesThatFit
<1>3. /\ test.size = size
      /\ test.targets = [i \in 1 .. count |->
             TargetSelector(dimension, IsExecClient, NodeCount, Targetable[i])]
      /\ test.plan = PlanSteps(config.type, fault, test.targets)
  BY <1>1 DEF Test
<1> HIDE DEF count
<1>4. Len(test.targets) = count BY <1>2, <1>3, TargetableNodes
<1> QED BY <1>2, <1>3, <1>4 DEF count

\* A sequence made of a set has each of its elements once.
LEMMA SetToSeqLists ==
    ASSUME NEW S, IsFiniteSet(S)
    PROVE  /\ SetToSeq(S) \in Seq(S) /\ Len(SetToSeq(S)) = Cardinality(S)
           /\ DOMAIN SetToSeq(S) = 1 .. Cardinality(S)
           /\ Range(SetToSeq(S)) = S
<1> DEFINE n == Cardinality(S)
           f == SetToSeq(S)
<1>1. n \in Nat /\ ExistsBijection(1 .. n, S) BY FS_CardinalityType
<1>2. \E g \in [1 .. n -> S] : IsInjective(g)
  BY <1>1 DEF ExistsBijection, Bijection, Injection
<1>3. f \in [1 .. n -> S] /\ IsInjective(f) BY <1>2 DEF SetToSeq
<1> HIDE DEF f
<1>4. f \in Injection(1 .. n, S) BY <1>3 DEF Injection
<1>5. IsFiniteSet(1 .. n) /\ Cardinality(1 .. n) = n
  <2>1. /\ IsFiniteSet(1 .. n)
        /\ Cardinality(1 .. n) = IF 1 > n THEN 0 ELSE n - 1 + 1
    BY <1>1, FS_Interval
  <2> QED BY <1>1, <2>1
<1>6. f \in Surjection(1 .. n, S) BY <1>4, <1>5, FS_Injection
<1>7. \A x \in S : \E i \in 1 .. n : f[i] = x BY <1>6 DEF Surjection
<1>8. Range(f) = S BY <1>3, <1>7 DEF Range
<1> HIDE DEF n
<1>9. f \in Seq(S) /\ Len(f) = n /\ DOMAIN f = 1 .. n BY <1>1, <1>3
<1> QED BY <1>8, <1>9 DEF f, n

\* A target has a pod or more, all of one node, and a client pod among them.
LEMMA TargetPods ==
    ASSUME NEW dimension \in TargetingSpecs, NEW isExecClient \in BOOLEAN, NEW n, NEW node
    PROVE  LET target == TargetSelector(dimension, isExecClient, n, node)
           IN  /\ IsFiniteSet(target) /\ target # {}
               /\ \A pod \in target : \E client \in {"el", "cl", "val"} :
                     pod = NodeIdTag(n, node, client)
               /\ \E client \in {"el", "cl"} : NodeIdTag(n, node, client) \in target
<1> DEFINE tag(client) == NodeIdTag(n, node, client)
           target == TargetSelector(dimension, isExecClient, n, node)
           I == Impacted(dimension, isExecClient, node)
<1>1. I \subseteq {"el", "cl", "val"} /\ ("el" \in I \/ "cl" \in I)
  BY DEF Impacted, TargetingSpecs
<1>2. target = {tag(client) : client \in I} BY DEF TargetSelector
<1> HIDE DEF I, target
<1>3. target # {} BY <1>1, <1>2
<1>4. target \subseteq {tag("el"), tag("cl"), tag("val")} BY <1>1, <1>2
<1>5. IsFiniteSet({tag("el"), tag("cl"), tag("val")})
  <2> HIDE DEF tag
  <2>1. IsFiniteSet({tag("el")}) BY FS_Singleton
  <2>2. IsFiniteSet({tag("el")} \cup {tag("cl")}) BY <2>1, FS_AddElement
  <2>3. IsFiniteSet(({tag("el")} \cup {tag("cl")}) \cup {tag("val")}) BY <2>2, FS_AddElement
  <2>4. ({tag("el")} \cup {tag("cl")}) \cup {tag("val")} = {tag("el"), tag("cl"), tag("val")}
    OBVIOUS
  <2> QED BY <2>3, <2>4
<1>6. IsFiniteSet(target)
  <2> HIDE DEF tag
  <2> QED BY <1>4, <1>5, FS_Subset
<1>7. ASSUME NEW pod \in target
      PROVE  \E client \in {"el", "cl", "val"} : pod = tag(client)
  BY <1>1, <1>2
<1>8. \E client \in {"el", "cl"} : tag(client) \in target
  BY <1>1, <1>2
<1> QED BY <1>3, <1>6, <1>7, <1>8 DEF target

\* A step for each pod, with its path.
StepForEach(steps, pods) ==
    /\ Len(steps) = Cardinality(pods)
    /\ \A s \in Range(steps) :
          s.pods = pods /\ \E pod \in pods : s.path = {VolumePath(pod)}
    /\ \A pod \in pods : \E s \in Range(steps) :
          s.pods = pods /\ s.path = {VolumePath(pod)}

\* The steps for one target inject its fault into all of it.
LEMMA StepsOfTarget ==
    ASSUME NEW type \in FaultTypes, NEW fault, NEW pods, IsFiniteSet(pods), pods # {}
    PROVE  LET steps == TargetSteps(type, fault, pods)
           IN  /\ steps \in Seq(Range(steps)) /\ Range(steps) # {}
               /\ \A s \in Range(steps) :
                     /\ s.type = "injectFault" /\ s.kind = Kind[type] /\ s.pods = pods
                     /\ s.duration = FaultDuration(type, fault)
               /\ type = "IOLatency" => StepForEach(steps, pods)
<1> DEFINE steps == TargetSteps(type, fault, pods)
           base == InjectStep(type, fault, pods)
<1>1. /\ base.type = "injectFault" /\ base.kind = Kind[type] /\ base.pods = pods
      /\ base.duration = FaultDuration(type, fault)
  BY DEF InjectStep
<1>2. CASE type # "IOLatency"
  <2>1. steps = <<base>> BY <1>2 DEF TargetSteps
  <2> HIDE DEF steps, base
  <2>2. Range(steps) = {base} /\ steps \in Seq({base}) BY <2>1 DEF Range
  <2> QED BY <1>1, <1>2, <2>2 DEF steps
<1>3. CASE type = "IOLatency"
  <2> DEFINE values == SetToSeq(pods)
             n == Cardinality(pods)
             step(i) == [base EXCEPT !.path = {VolumePath(values[i])}]
  <2>1. /\ n \in Nat /\ DOMAIN values = 1 .. n /\ Range(values) = pods
    BY SetToSeqLists, FS_CardinalityType
  <2>2. steps = [i \in 1 .. n |-> step(i)]
    BY <1>3, <2>1 DEF TargetSteps, BuildIOLatencyFault
  <2>3. \A i \in 1 .. n :
            /\ step(i).type = "injectFault" /\ step(i).kind = Kind[type]
            /\ step(i).pods = pods /\ step(i).duration = FaultDuration(type, fault)
            /\ step(i).path = {VolumePath(values[i])}
    BY DEF InjectStep
  <2>4. /\ \A i \in 1 .. n : values[i] \in pods
        /\ \A pod \in pods : \E i \in 1 .. n : values[i] = pod
    <3> HIDE DEF values, n
    <3> QED BY <2>1 DEF Range
  <2> HIDE DEF step, steps, values, n
  <2>5. /\ DOMAIN steps = 1 .. n /\ \A i \in 1 .. n : steps[i] = step(i)
        /\ Range(steps) = {step(i) : i \in 1 .. n}
    BY <2>2 DEF Range
  <2>6. steps \in [1 .. n -> Range(steps)] BY <2>2, <2>5
  <2>7. steps \in Seq(Range(steps)) /\ Len(steps) = n BY <2>1, <2>6
  <2>8. \A i \in 1 .. n : step(i) \in Range(steps) BY <2>5
  <2>9. Range(steps) # {} BY <2>4, <2>8
  <2>10. \A s \in Range(steps) :
             /\ s.type = "injectFault" /\ s.kind = Kind[type] /\ s.pods = pods
             /\ s.duration = FaultDuration(type, fault)
             /\ \E pod \in pods : s.path = {VolumePath(pod)}
    BY <2>3, <2>4, <2>5
  <2>11. \A pod \in pods : \E s \in Range(steps) :
             s.pods = pods /\ s.path = {VolumePath(pod)}
    BY <2>3, <2>4, <2>8
  <2>12. StepForEach(steps, pods) BY <2>7, <2>10, <2>11 DEF StepForEach, n
  <2> QED BY <2>7, <2>9, <2>10, <2>12 DEF steps, n
<1> QED BY <1>2, <1>3

\* A plan is the steps of its targets, and a wait.
PlanIs(plan, type, fault, m, targets, n) ==
    /\ DOMAIN plan = 1 .. (n + 1) /\ Len(plan) = n + 1
    /\ plan[n + 1] = WaitStep
    /\ \A i \in 1 .. n : \E j \in 1 .. m :
          plan[i] \in Range(TargetSteps(type, fault, targets[j]))
    /\ \A j \in 1 .. m : \A s \in Range(TargetSteps(type, fault, targets[j])) :
          \E i \in 1 .. n : plan[i] = s

LEMMA PlanOfTargets ==
    ASSUME NEW type \in FaultTypes, NEW fault, NEW m \in Nat, NEW targets,
           targets = [i \in 1 .. m |-> targets[i]],
           \A i \in 1 .. m : IsFiniteSet(targets[i]) /\ targets[i] # {}
    PROVE  \E n \in Nat : PlanIs(PlanSteps(type, fault, targets), type, fault, m, targets, n)
<1> DEFINE steps(j) == TargetSteps(type, fault, targets[j])
           S == UNION {Range(steps(j)) : j \in 1 .. m}
           all == [j \in 1 .. m |-> steps(j)]
           flat == FlattenSeq(all)
           plan == PlanSteps(type, fault, targets)
<1>1. \A j \in 1 .. m : steps(j) \in Seq(S)
  <2> SUFFICES ASSUME NEW j \in 1 .. m PROVE steps(j) \in Seq(S) OBVIOUS
  <2>1. steps(j) \in Seq(Range(steps(j))) BY StepsOfTarget
  <2>2. Range(steps(j)) \subseteq S OBVIOUS
  <2> HIDE DEF S, steps
  <2> QED BY <2>1, <2>2, SeqMonotonic
<1>2. DOMAIN targets = 1 .. m OBVIOUS
<1>3. plan = flat \o <<WaitStep>> BY <1>2 DEF PlanSteps
<1> HIDE DEF S, steps, plan
<1>4. all \in [1 .. m -> Seq(S)] BY <1>1
<1>5. all \in Seq(Seq(S)) /\ DOMAIN all = 1 .. m BY <1>4
<1>6. /\ flat \in Seq(S)
      /\ \A x : x \in Range(flat) <=> \E j \in 1 .. m : x \in Range(all[j])
  <2> HIDE DEF all
  <2> QED BY <1>5, FlattenElements
<1>7. \A j \in 1 .. m : all[j] = steps(j) OBVIOUS
<1> HIDE DEF flat, all
<1> DEFINE n == Len(flat)
           U == S \cup {WaitStep}
<1>8. n \in Nat /\ DOMAIN flat = 1 .. n BY <1>6, LenProperties
<1>9. /\ DOMAIN plan = 1 .. (n + 1) /\ Len(plan) = n + 1 /\ plan[n + 1] = WaitStep
      /\ \A i \in 1 .. n : plan[i] = flat[i]
  <2>1. flat \in Seq(U) BY <1>6, SeqMonotonic
  <2>2. <<WaitStep>> \in Seq(U) /\ Len(<<WaitStep>>) = 1 OBVIOUS
  <2> HIDE DEF n, U
  <2>3. /\ plan \in Seq(U) /\ Len(plan) = Len(flat) + Len(<<WaitStep>>)
        /\ \A i \in 1 .. Len(flat) + Len(<<WaitStep>>) :
              plan[i] = IF i <= Len(flat) THEN flat[i] ELSE <<WaitStep>>[i - Len(flat)]
    BY <1>3, <2>1, <2>2, ConcatProperties
  <2>4. /\ Len(plan) = n + 1
        /\ \A i \in 1 .. n + 1 :
              plan[i] = IF i <= n THEN flat[i] ELSE <<WaitStep>>[i - n]
    BY <2>2, <2>3 DEF n
  <2>5. DOMAIN plan = 1 .. (n + 1) BY <2>3, <2>4, LenProperties
  <2>6. n + 1 \in 1 .. n + 1 /\ ~ (n + 1 <= n) /\ (n + 1) - n = 1 BY <1>8
  <2>7. plan[n + 1] = WaitStep BY <2>4, <2>6
  <2>8. \A i \in 1 .. n : i \in 1 .. n + 1 /\ i <= n BY <1>8
  <2> QED BY <2>4, <2>5, <2>7, <2>8
<1>11. ASSUME NEW i \in 1 .. n PROVE \E j \in 1 .. m : plan[i] \in Range(steps(j))
  <2>1. flat[i] \in Range(flat) BY <1>8 DEF Range
  <2> QED BY <1>6, <1>7, <1>9, <2>1
<1>12. ASSUME NEW j \in 1 .. m, NEW s \in Range(steps(j)) PROVE \E i \in 1 .. n : plan[i] = s
  <2>1. s \in Range(flat) BY <1>6, <1>7
  <2>2. PICK i \in 1 .. n : flat[i] = s BY <1>8, <2>1 DEF Range
  <2> QED BY <1>9, <2>2
<1> HIDE DEF n
<1> QED BY <1>8, <1>9, <1>11, <1>12 DEF plan, steps, PlanIs

-----------------------------------------------------------------------------
(* What a suite promises.  All of it follows from Planned: there are no    *)
(* tests before there is a network, and then they are tests composed for   *)
(* the network composed for the configuration.                             *)

Planned == IF nodes = <<>> THEN tests = <<>>
                           ELSE Composed /\ Range(tests) \subseteq SuiteTests

\* Every target of a test is a target selector of a node that is not the bootnode.
LEMMA TargetsOfTest ==
    ASSUME Composed, NEW test \in SuiteTests
    PROVE  \E m \in Nat \ {0}, dimension \in TargetingSpecs :
               /\ test.targets = [i \in 1 .. m |-> test.targets[i]] /\ Len(test.targets) = m
               /\ m <= Len(Targetable)
               /\ \A i \in 1 .. m :
                     /\ test.targets[i] =
                            TargetSelector(dimension, IsExecClient, NodeCount, Targetable[i])
                     /\ IsFiniteSet(test.targets[i]) /\ test.targets[i] # {}
                     /\ \E k \in 2 .. NodeCount : Targetable[i] = nodes[k]
<1>1. PICK dimension \in TargetingSpecs, size \in SizesThatFit :
          LET count == NodesToTarget(size, NodeCount, Len(Targetable))
          IN  /\ count \in 1 .. Len(Targetable)
              /\ test.targets = [i \in 1 .. count |->
                     TargetSelector(dimension, IsExecClient, NodeCount, Targetable[i])]
              /\ Len(test.targets) = count
  BY SuiteTest
<1>2. PICK m : m = NodesToTarget(size, NodeCount, Len(Targetable)) OBVIOUS
<1>3. /\ m \in Nat \ {0} /\ m <= Len(Targetable) /\ Len(test.targets) = m
      /\ test.targets = [i \in 1 .. m |->
             TargetSelector(dimension, IsExecClient, NodeCount, Targetable[i])]
  BY <1>1, <1>2, TargetableNodes
<1>4. IsExecClient \in BOOLEAN BY DEF IsExecClient, IsTargetExecutionClient
<1>5. ASSUME NEW i \in 1 .. m
      PROVE  /\ test.targets[i] =
                    TargetSelector(dimension, IsExecClient, NodeCount, Targetable[i])
             /\ IsFiniteSet(test.targets[i]) /\ test.targets[i] # {}
             /\ \E k \in 2 .. NodeCount : Targetable[i] = nodes[k]
  <2>1. test.targets[i] = TargetSelector(dimension, IsExecClient, NodeCount, Targetable[i])
    BY <1>3
  <2>2. Targetable[i] \in Range(Targetable)
    BY <1>3, TargetableNodes, LenProperties DEF Range
  <2> QED BY <1>4, <2>1, <2>2, TargetPods, TargetableNodes
<1>6. test.targets = [i \in 1 .. m |-> test.targets[i]] BY <1>3
<1> QED BY <1>3, <1>5, <1>6

LEMMA SuiteSizesAsNamed == Planned => SizesAsNamed
<1> SUFFICES ASSUME Planned, NEW test \in Range(tests)
             PROVE  LET k == Len(test.targets)
                        n == Len(nodes)
                    IN  /\ test.size = "AttackMinority" => 3 * k < n
                        /\ test.size = "AttackSuperminority" => 3 * k >= n /\ 2 * k < n
                        /\ test.size = "AttackMajority" => 2 * k > n /\ 3 * k < 2 * n
                        /\ test.size = "AttackSupermajority" => 3 * k > 2 * n /\ k < n
  BY DEF SizesAsNamed
<1>1. Composed /\ test \in SuiteTests BY DEF Planned, Range
<1>2. PICK size \in SizesThatFit :
          /\ test.size = size
          /\ Len(test.targets) = NodesToTarget(size, NodeCount, Len(Targetable))
  BY <1>1, SuiteTest
<1>3. /\ NodeCount \in Nat \ {0} /\ Len(Targetable) \in Nat \ {0}
      /\ Len(Targetable) < NodeCount
  BY <1>1, TargetableNodes
<1>4. size \in AttackSizes /\ ~ CannotMeet(size, NodeCount, Len(Targetable))
  BY DEF SizesThatFit
<1> QED BY <1>2, <1>3, <1>4, SizesMeanTheirNames DEF NodeCount

LEMMA NetworkHasShare == Planned => ShareOfTargets
<1> SUFFICES ASSUME Planned, nodes # <<>>, config.percent # 0
             PROVE  /\ 100 * Len(Targetable) >= config.percent * Len(nodes)
                    /\ 100 * Len(Targetable) <= config.percent * (Len(nodes) + 1)
  BY DEF ShareOfTargets
<1>1. Composed BY DEF Planned
<1>2. Len(Targetable) = Len(NodesToTest(config)) BY <1>1, TargetableNodes
<1> QED BY <1>1, <1>2, NetworkComposed DEF Composed

HasPlaces(s, m) == s = [i \in 1 .. m |-> s[i]]

\* What a plan of a test consists of: the steps of its targets, in which each target has
\* one or more, and a wait.
PlanOfTestIs(test, fault, m, n) ==
    /\ m \in Nat \ {0} /\ n \in Nat
    /\ config.type \in FaultTypes /\ ~ FaultRefused(config.type, fault)
    /\ HasPlaces(test.targets, m) /\ DOMAIN test.targets = 1 .. m
    /\ test.plan = PlanSteps(config.type, fault, test.targets)
    /\ \A j \in 1 .. m : IsFiniteSet(test.targets[j]) /\ test.targets[j] # {}
    /\ PlanIs(test.plan, config.type, fault, m, test.targets, n)
    /\ InjectSteps(test) = 1 .. n

\* The plan of every test a suite can have is of that kind.
LEMMA PlanOfTest ==
    ASSUME Composed, NEW test \in SuiteTests
    PROVE  \E fault, m, n : PlanOfTestIs(test, fault, m, n)
<1>1. PICK fault : /\ ~ FaultRefused(config.type, fault)
                   /\ test.plan = PlanSteps(config.type, fault, test.targets)
  BY SuiteTest
<1>2. PICK m \in Nat \ {0} :
          /\ test.targets = [i \in 1 .. m |-> test.targets[i]] /\ Len(test.targets) = m
          /\ \A i \in 1 .. m : IsFiniteSet(test.targets[i]) /\ test.targets[i] # {}
  BY TargetsOfTest
<1>3. config.type \in FaultTypes BY DEF Composed, Composes, Valid
<1> DEFINE plan == PlanSteps(config.type, fault, test.targets)
<1>4. PICK n \in Nat : PlanIs(plan, config.type, fault, m, test.targets, n)
  BY <1>2, <1>3, PlanOfTargets
<1>5. /\ DOMAIN plan = 1 .. (n + 1) /\ plan[n + 1] = WaitStep
      /\ \A i \in 1 .. n : \E j \in 1 .. m :
            plan[i] \in Range(TargetSteps(config.type, fault, test.targets[j]))
  BY <1>4 DEF PlanIs
<1> HIDE DEF plan
<1>6. DOMAIN test.targets = 1 .. m /\ HasPlaces(test.targets, m) BY <1>2 DEF HasPlaces
<1>7. \A i \in 1 .. n : plan[i].type = "injectFault"
  <2> SUFFICES ASSUME NEW i \in 1 .. n PROVE plan[i].type = "injectFault" OBVIOUS
  <2>1. PICK j \in 1 .. m :
            plan[i] \in Range(TargetSteps(config.type, fault, test.targets[j]))
    BY <1>5
  <2> QED BY <1>2, <1>3, <2>1, StepsOfTarget
<1>8. plan[n + 1].type # "injectFault" BY <1>5 DEF WaitStep
<1>9. {i \in 1 .. (n + 1) : plan[i].type = "injectFault"} = 1 .. n
  BY <1>5, <1>7, <1>8
<1>10. InjectSteps(test) = 1 .. n BY <1>1, <1>5, <1>9 DEF InjectSteps, plan
<1>11. PlanIs(test.plan, config.type, fault, m, test.targets, n) BY <1>1, <1>4 DEF plan
<1>12. PlanOfTestIs(test, fault, m, n)
  BY <1>1, <1>2, <1>3, <1>6, <1>10, <1>11 DEF PlanOfTestIs
<1> QED BY <1>12

\* Up to 999 nodes the planner pads as many digits as their number has.
LEMMA WidthIsDigits ==
    ASSUME NEW n \in Nat, 1 <= n, n < 1000
    PROVE  Width(n) = Digits(n)
<1>1. /\ PowersOfTen[1] = 1 /\ PowersOfTen[2] = 10
      /\ PowersOfTen[3] = 100 /\ PowersOfTen[4] = 1000
  BY DEF PowersOfTen
<1>2. Width(n) = IF n < 10 THEN 1 ELSE IF n < 100 THEN 2 ELSE 3 BY DEF Width
<1>3. \A d \in 1 .. 3 : (PowersOfTen[d] <= n /\ n < PowersOfTen[d + 1]) <=> d = Width(n)
  <2> TAKE d \in 1 .. 3
  <2>1. CASE d = 1 BY <1>1, <1>2, <2>1
  <2>2. CASE d = 2 BY <1>1, <1>2, <2>2
  <2>3. CASE d = 3 BY <1>1, <1>2, <2>3
  <2> QED BY <2>1, <2>2, <2>3
<1>4. Width(n) \in 1 .. 3 BY <1>2
<1> QED BY <1>3, <1>4 DEF Digits

\* Kurtosis names the clients of the network file as the planner does.
LEMMA PodsOfNetwork ==
    ASSUME Composed, NEW k \in 1 .. NodeCount, NEW client \in {"el", "cl"}
    PROVE  NodeIdTag(NodeCount, nodes[k], client) \in KurtosisPods(SerializeNodes(nodes))
<1> DEFINE file == SerializeNodes(nodes)
           read == DeserializeNetworkTopology(file)
           Clients1(i) ==
               {"el", "cl"} \cup IF file[i].valMaxCpu # 0 THEN {"cl-validator"} ELSE {}
           Pod(i, c) ==
               [client |-> c, width |-> Digits(Len(read)), index |-> read[i].index,
                execution |-> read[i].execution, consensus |-> read[i].consensus]
<1>1. /\ nodes \in Seq(NodesOf(config)) /\ NodeCount = Len(nodes) /\ NodeCount \in Nat \ {0}
      /\ DOMAIN nodes = 1 .. NodeCount
  BY TargetableNodes, LenProperties DEF NodeCount
<1>2. nodes[k] \in NodesOf(config) /\ nodes[k].index = k /\ NodeCount < 1000
  BY <1>1, NetworkComposed, ElementOfSeq DEF Composed
<1>3. /\ DOMAIN file = 1 .. NodeCount
      /\ file[k].elType = nodes[k].execution /\ file[k].clType = nodes[k].consensus
  BY <1>1 DEF SerializeNodes, Participant
<1> HIDE DEF file
<1>4. /\ DOMAIN read = 1 .. NodeCount /\ Len(read) = NodeCount
      /\ read[k] = Node(k, nodes[k].execution, nodes[k].consensus)
  BY <1>1, <1>3 DEF DeserializeNetworkTopology
<1> HIDE DEF read
<1>5. Pod(k, client) = NodeIdTag(NodeCount, nodes[k], client)
  <2>1. Digits(Len(read)) = Width(NodeCount)
    BY <1>1, <1>2, <1>4, WidthIsDigits
  <2> QED BY <1>2, <1>4, <2>1 DEF NodeIdTag, Node
<1>6. client \in Clients1(k) OBVIOUS
<1>7. KurtosisPods(file) = UNION {{Pod(i, c) : c \in Clients1(i)} : i \in DOMAIN read}
  BY DEF KurtosisPods, read
<1> HIDE DEF Clients1, Pod
<1> QED BY <1>4, <1>5, <1>6, <1>7 DEF file

\* The pods of a target are of one node that the network has and that is not the bootnode,
\* the clients among them are pods that Kurtosis makes, and there is one.
LEMMA PodsOfTarget ==
    ASSUME Composed, NEW test \in SuiteTests, NEW i \in DOMAIN test.targets
    PROVE  LET made == KurtosisPods(SerializeNodes(nodes))
           IN  /\ \A pod \in test.targets[i] :
                     /\ pod.client # "val" => pod \in made
                     /\ pod.index = Targetable[i].index /\ pod.index # 1
               /\ test.targets[i] \cap made # {}
<1>1. PICK m \in Nat \ {0}, dimension \in TargetingSpecs :
          /\ test.targets = [j \in 1 .. m |-> test.targets[j]] /\ Len(test.targets) = m
          /\ m <= Len(Targetable)
          /\ \A j \in 1 .. m :
                /\ test.targets[j] =
                       TargetSelector(dimension, IsExecClient, NodeCount, Targetable[j])
                /\ IsFiniteSet(test.targets[j]) /\ test.targets[j] # {}
                /\ \E k \in 2 .. NodeCount : Targetable[j] = nodes[k]
  BY TargetsOfTest
<1>2. i \in 1 .. m BY <1>1
<1>3. PICK k \in 2 .. NodeCount : Targetable[i] = nodes[k] BY <1>1, <1>2
<1>4. /\ test.targets[i] = TargetSelector(dimension, IsExecClient, NodeCount, nodes[k])
      /\ IsExecClient \in BOOLEAN
  BY <1>1, <1>2, <1>3 DEF IsExecClient, IsTargetExecutionClient
<1>5. NodeCount \in Nat \ {0} /\ NodeCount = Len(nodes)
  BY TargetableNodes DEF NodeCount
<1>6. k \in 1 .. NodeCount /\ nodes[k].index = k /\ k # 1
  BY <1>5, NetworkComposed DEF Composed
<1>7. \A client \in {"el", "cl"} :
         NodeIdTag(NodeCount, nodes[k], client) \in KurtosisPods(SerializeNodes(nodes))
  BY <1>6, PodsOfNetwork
<1>8. ASSUME NEW pod \in test.targets[i]
      PROVE  /\ pod.client # "val" => pod \in KurtosisPods(SerializeNodes(nodes))
             /\ pod.index = Targetable[i].index /\ pod.index # 1
  <2>1. PICK client \in {"el", "cl", "val"} : pod = NodeIdTag(NodeCount, nodes[k], client)
    BY <1>4, TargetPods
  <2>2. pod.client = client /\ pod.index = nodes[k].index BY <2>1 DEF NodeIdTag
  <2> QED BY <1>3, <1>6, <1>7, <2>1, <2>2
<1>9. \E client \in {"el", "cl"} : NodeIdTag(NodeCount, nodes[k], client) \in test.targets[i]
  BY <1>4, TargetPods
<1> QED BY <1>7, <1>8, <1>9

LEMMA TargetsExist == Planned => TargetsWillExist
<1> DEFINE made == KurtosisPods(SerializeNodes(nodes))
<1> SUFFICES ASSUME Planned, NEW test \in Range(tests), NEW i \in InjectSteps(test)
             PROVE  /\ {pod \in test.plan[i].pods : pod.client # "val"} \subseteq made
                    /\ test.plan[i].pods \cap made # {}
                    /\ \A pod \in test.plan[i].pods : pod.index # 1
  BY DEF TargetsWillExist
<1>1. Composed /\ test \in SuiteTests BY DEF Planned, Range
<1>2. PICK fault, m, n : PlanOfTestIs(test, fault, m, n)
  BY <1>1, PlanOfTest
<1>3. PICK j \in 1 .. m :
          test.plan[i] \in Range(TargetSteps(config.type, fault, test.targets[j]))
  BY <1>2 DEF PlanOfTestIs, PlanIs
<1>4. test.plan[i].pods = test.targets[j] /\ j \in DOMAIN test.targets
  BY <1>2, <1>3, StepsOfTarget DEF PlanOfTestIs
<1> HIDE DEF made
<1>5. /\ \A pod \in test.targets[j] : (pod.client # "val" => pod \in made) /\ pod.index # 1
      /\ test.targets[j] \cap made # {}
  BY <1>1, <1>4, PodsOfTarget DEF made
<1> QED BY <1>4, <1>5

\* A fault that is not refused lasts as long as can be read, but for a clock skew.
LEMMA DurationReadable ==
    ASSUME NEW type \in FaultTypes, NEW fault, ~ FaultRefused(type, fault)
    PROVE  FaultDuration(type, fault) = "duration" \/ Kind[type] = "TimeChaos"
<1>1. CASE type = "ClockSkew" BY <1>1 DEF Kind
<1>2. CASE type = "RestartContainers" BY <1>2 DEF FaultDuration
<1>3. CASE type \in {"IOLatency", "NetworkLatency"}
  <2>1. "duration" \in DOMAIN RequiredFields[type] /\ RequiredFields[type]["duration"] = "duration"
    BY <1>3 DEF RequiredFields
  <2>2. fault["duration"] = "duration" BY <2>1 DEF FaultRefused
  <2> QED BY <1>3, <2>2 DEF FaultDuration
<1> QED BY <1>1, <1>2, <1>3 DEF FaultTypes

LEMMA PlansEnd == Planned => PlansCanBeWaitedFor
<1> SUFFICES ASSUME Planned, NEW test \in Range(tests)
             PROVE  LET steps == InjectSteps(test)
                    IN  /\ steps = 1 .. (Len(test.plan) - 1)
                        /\ test.plan[Len(test.plan)].type = "waitForFaultCompletion"
                        /\ UNION {test.plan[i].pods : i \in steps} = UNION Range(test.targets)
                        /\ \A i \in steps :
                              \/ test.plan[i].duration = "duration"
                              \/ test.plan[i].kind = "TimeChaos"
  BY DEF PlansCanBeWaitedFor
<1>1. Composed /\ test \in SuiteTests BY DEF Planned, Range
<1>2. PICK fault, m, n : PlanOfTestIs(test, fault, m, n) BY <1>1, PlanOfTest
<1>3. /\ m \in Nat \ {0} /\ n \in Nat
      /\ InjectSteps(test) = 1 .. n /\ Len(test.plan) = n + 1 /\ test.plan[n + 1] = WaitStep
      /\ DOMAIN test.targets = 1 .. m
  BY <1>2 DEF PlanOfTestIs, PlanIs
<1>4. InjectSteps(test) = 1 .. (Len(test.plan) - 1) BY <1>3
<1>5. test.plan[Len(test.plan)].type = "waitForFaultCompletion" BY <1>3 DEF WaitStep
<1>6. ASSUME NEW i \in 1 .. n
      PROVE  \E j \in 1 .. m :
                /\ test.plan[i] \in Range(TargetSteps(config.type, fault, test.targets[j]))
                /\ test.plan[i].pods = test.targets[j]
                /\ test.plan[i].kind = Kind[config.type]
                /\ test.plan[i].duration = FaultDuration(config.type, fault)
  <2>1. PICK j \in 1 .. m :
            test.plan[i] \in Range(TargetSteps(config.type, fault, test.targets[j]))
    BY <1>2 DEF PlanOfTestIs, PlanIs
  <2> QED BY <1>2, <2>1, StepsOfTarget DEF PlanOfTestIs
<1>7. ASSUME NEW j \in 1 .. m PROVE \E i \in 1 .. n : test.plan[i].pods = test.targets[j]
  <2>1. Range(TargetSteps(config.type, fault, test.targets[j])) # {}
    BY <1>2, StepsOfTarget DEF PlanOfTestIs
  <2>2. PICK s \in Range(TargetSteps(config.type, fault, test.targets[j])) :
            s.pods = test.targets[j]
    BY <1>2, <2>1, StepsOfTarget DEF PlanOfTestIs
  <2>3. PICK i \in 1 .. n : test.plan[i] = s BY <1>2, <2>2 DEF PlanOfTestIs, PlanIs
  <2> QED BY <2>2, <2>3
<1>8. UNION {test.plan[i].pods : i \in InjectSteps(test)} = UNION Range(test.targets)
  <2> DEFINE P(i) == test.plan[i].pods
  <2>1. Range(test.targets) = {test.targets[j] : j \in 1 .. m} BY <1>3 DEF Range
  <2>2. \A i \in 1 .. n : \E j \in 1 .. m : P(i) = test.targets[j] BY <1>6
  <2>3. \A j \in 1 .. m : \E i \in 1 .. n : P(i) = test.targets[j] BY <1>7
  <2>4. {P(i) : i \in InjectSteps(test)} = {P(i) : i \in 1 .. n} BY <1>3
  <2> HIDE DEF P
  <2>5. {P(i) : i \in 1 .. n} = Range(test.targets) BY <2>1, <2>2, <2>3
  <2>6. UNION {P(i) : i \in InjectSteps(test)} = UNION Range(test.targets) BY <2>4, <2>5
  <2> QED BY <2>6 DEF P
<1>9. ASSUME NEW i \in 1 .. n
      PROVE  test.plan[i].duration = "duration" \/ test.plan[i].kind = "TimeChaos"
  BY <1>2, <1>6, DurationReadable DEF PlanOfTestIs
<1> QED BY <1>3, <1>4, <1>5, <1>8, <1>9

LEMMA DisjointUnion ==
    ASSUME NEW A, NEW B, IsFiniteSet(A), IsFiniteSet(B), A \cap B = {}
    PROVE  IsFiniteSet(A \cup B) /\ Cardinality(A \cup B) = Cardinality(A) + Cardinality(B)
<1>1. Cardinality(A) \in Nat /\ Cardinality(B) \in Nat BY FS_CardinalityType
<1>2. Cardinality(A \cap B) = 0 BY FS_EmptySet
<1>3. /\ IsFiniteSet(A \cup B)
      /\ Cardinality(A \cup B) = Cardinality(A) + Cardinality(B) - Cardinality(A \cap B)
  BY FS_Union
<1> QED BY <1>1, <1>2, <1>3

\* The elements of the first n of a sequence of sets.
AllOf(P, n) == UNION {P[i] : i \in 1 .. n}

\* As many items as the sets have elements, when each part has as many as its set and the
\* sets are disjoint.
LEMMA FlattenCounts ==
    ASSUME NEW S, NEW ss \in Seq(Seq(S)), ss # <<>>, NEW P,
           \A i \in 1 .. Len(ss) : IsFiniteSet(P[i]) /\ Cardinality(P[i]) = Len(ss[i]),
           \A i, j \in 1 .. Len(ss) : i # j => P[i] \cap P[j] = {}
    PROVE  /\ IsFiniteSet(AllOf(P, Len(ss)))
           /\ Cardinality(AllOf(P, Len(ss))) = Len(FlattenSeq(ss))
<1> DEFINE n == Len(ss)
           U(k) == AllOf(P, k)
<1>1. PICK g \in [1 .. n -> Seq(S)] :
          /\ g[1] = ss[1]
          /\ \A i \in 2 .. n : g[i] = g[i - 1] \o ss[i]
          /\ FlattenSeq(ss) = g[n]
  BY FlattenSteps
<1>2. n \in Nat \ {0} /\ \A i \in 1 .. n : ss[i] \in Seq(S) BY EmptySeq, ElementOfSeq
<1>3. /\ \A i \in 1 .. n : IsFiniteSet(P[i]) /\ Cardinality(P[i]) = Len(ss[i])
      /\ \A i, j \in 1 .. n : i # j => P[i] \cap P[j] = {}
  OBVIOUS
<1> HIDE DEF n
<1> DEFINE Counts(k) == k # 0 => IsFiniteSet(U(k)) /\ Cardinality(U(k)) = Len(g[k])
           T == {k \in 0 .. n : Counts(k)}
<1>4. 0 \in T BY <1>2
<1>5. ASSUME NEW k \in 1 .. n, Counts(k - 1) PROVE Counts(k)
  <2>1. CASE k = 1
    <3>1. U(1) = P[1]
      <4>1. 1 .. 1 = {1} OBVIOUS
      <4> QED BY <4>1 DEF AllOf
    <3>2. 1 \in 1 .. n BY <1>2
    <3>3. IsFiniteSet(P[1]) /\ Cardinality(P[1]) = Len(g[1]) BY <1>1, <1>3, <3>2
    <3> HIDE DEF U
    <3> QED BY <2>1, <3>1, <3>3
  <2>2. CASE k # 1
    <3>1. k - 1 # 0 /\ k - 1 \in 1 .. n /\ k \in 2 .. n BY <1>2, <2>2
    <3>2. U(k) = U(k - 1) \cup P[k]
      <4>1. 1 .. k = (1 .. (k - 1)) \cup {k} BY <1>2
      <4> QED BY <4>1 DEF AllOf
    <3>3. U(k - 1) \cap P[k] = {}
      <4>1. \A i \in 1 .. (k - 1) : P[i] \cap P[k] = {} BY <1>2, <1>3
      <4> QED BY <4>1 DEF AllOf
    <3>4. /\ IsFiniteSet(U(k - 1)) /\ Cardinality(U(k - 1)) = Len(g[k - 1])
          /\ IsFiniteSet(P[k]) /\ Cardinality(P[k]) = Len(ss[k])
      BY <1>3, <1>5, <3>1
    <3>5. g[k] = g[k - 1] \o ss[k] /\ g[k - 1] \in Seq(S) /\ ss[k] \in Seq(S)
      BY <1>1, <1>2, <3>1
    <3>6. Len(g[k]) = Len(g[k - 1]) + Len(ss[k]) BY <3>5, ConcatProperties
    <3> HIDE DEF U
    <3>7. /\ IsFiniteSet(U(k - 1) \cup P[k])
          /\ Cardinality(U(k - 1) \cup P[k]) = Cardinality(U(k - 1)) + Cardinality(P[k])
      BY <3>3, <3>4, DisjointUnion
    <3> QED BY <3>2, <3>4, <3>6, <3>7
  <2> QED BY <2>1, <2>2
<1>6. 0 .. n \subseteq T
  <2>1. \A k \in 1 .. n : k - 1 \in T => k \in T
    <3> HIDE DEF Counts
    <3> QED BY <1>2, <1>5
  <2> HIDE DEF T
  <2> QED BY <1>2, <1>4, <2>1, InductionUpTo
<1>7. Counts(n)
  <2>1. n \in 0 .. n BY <1>2
  <2> QED BY <1>6, <2>1
<1> QED BY <1>1, <1>2, <1>7 DEF n

\* With one step for each pod there are as many steps as pods.
LEMMA StepsCounted ==
    ASSUME NEW fault, NEW m \in Nat \ {0}, NEW targets,
           HasPlaces(targets, m),
           \A i \in 1 .. m : IsFiniteSet(targets[i]) /\ targets[i] # {},
           \A i, j \in 1 .. m : i # j => targets[i] \cap targets[j] = {}
    PROVE  /\ IsFiniteSet(AllOf(targets, m))
           /\ Len(PlanSteps("IOLatency", fault, targets)) = Cardinality(AllOf(targets, m)) + 1
<1> DEFINE steps(j) == TargetSteps("IOLatency", fault, targets[j])
           S == UNION {Range(steps(j)) : j \in 1 .. m}
           all == [j \in 1 .. m |-> steps(j)]
           flat == FlattenSeq(all)
<1>0. "IOLatency" \in FaultTypes BY DEF FaultTypes
<1>1. \A j \in 1 .. m : steps(j) \in Seq(S) /\ Len(steps(j)) = Cardinality(targets[j])
  <2> SUFFICES ASSUME NEW j \in 1 .. m
               PROVE  steps(j) \in Seq(S) /\ Len(steps(j)) = Cardinality(targets[j])
    OBVIOUS
  <2>1. steps(j) \in Seq(Range(steps(j))) /\ Len(steps(j)) = Cardinality(targets[j])
    BY <1>0, StepsOfTarget DEF StepForEach
  <2>2. Range(steps(j)) \subseteq S OBVIOUS
  <2> HIDE DEF S, steps
  <2> QED BY <2>1, <2>2, SeqMonotonic
<1>2. DOMAIN targets = 1 .. m BY DEF HasPlaces
<1>3. PlanSteps("IOLatency", fault, targets) = flat \o <<WaitStep>>
  BY <1>2 DEF PlanSteps
<1> HIDE DEF S, steps
<1>4. all \in [1 .. m -> Seq(S)] BY <1>1
<1>5. all \in Seq(Seq(S)) /\ Len(all) = m /\ \A j \in 1 .. m : all[j] = steps(j) BY <1>4
<1> HIDE DEF all
<1>6. flat \in Seq(S) BY <1>5, FlattenElements
<1>7. all # <<>> BY <1>5, EmptySeq
<1>8. /\ \A i \in 1 .. Len(all) :
             IsFiniteSet(targets[i]) /\ Cardinality(targets[i]) = Len(all[i])
      /\ \A i, j \in 1 .. Len(all) : i # j => targets[i] \cap targets[j] = {}
  BY <1>1, <1>5
<1>9. /\ IsFiniteSet(AllOf(targets, Len(all)))
      /\ Cardinality(AllOf(targets, Len(all))) = Len(flat)
  BY <1>5, <1>7, <1>8, FlattenCounts
<1> DEFINE U == S \cup {WaitStep}
<1>10. flat \in Seq(U) BY <1>6, SeqMonotonic
<1>11. <<WaitStep>> \in Seq(U) /\ Len(<<WaitStep>>) = 1 OBVIOUS
<1> HIDE DEF flat, U
<1>12. Len(flat \o <<WaitStep>>) = Len(flat) + 1 BY <1>10, <1>11, ConcatProperties
<1> QED BY <1>3, <1>5, <1>9, <1>12

\* No two targets of a test have a pod in common.
LEMMA TargetsDisjoint ==
    ASSUME Composed, NEW test \in SuiteTests,
           NEW i \in DOMAIN test.targets, NEW j \in DOMAIN test.targets, i # j
    PROVE  test.targets[i] \cap test.targets[j] = {}
<1> SUFFICES ASSUME NEW pod, pod \in test.targets[i], pod \in test.targets[j] PROVE FALSE
  OBVIOUS
<1>1. PICK m \in Nat \ {0}, dimension \in TargetingSpecs :
          /\ test.targets = [k \in 1 .. m |-> test.targets[k]] /\ Len(test.targets) = m
          /\ m <= Len(Targetable)
          /\ \A k \in 1 .. m :
                /\ test.targets[k] =
                       TargetSelector(dimension, IsExecClient, NodeCount, Targetable[k])
                /\ IsFiniteSet(test.targets[k]) /\ test.targets[k] # {}
                /\ \E l \in 2 .. NodeCount : Targetable[k] = nodes[l]
  BY TargetsOfTest
<1>2. i \in 1 .. m /\ j \in 1 .. m BY <1>1
<1>3. /\ NodeCount \in Nat \ {0} /\ NodeCount = Len(nodes)
      /\ Len(Targetable) \in Nat \ {0} /\ Len(Targetable) < NodeCount
      /\ \A k \in 1 .. Len(Targetable) : Targetable[k] = nodes[k + 1]
  BY TargetableNodes DEF NodeCount
<1>4. \A k \in 1 .. NodeCount : nodes[k].index = k
  BY <1>3, NetworkComposed DEF Composed
<1>5. \A k \in 1 .. m : Targetable[k].index = k + 1
  <2> SUFFICES ASSUME NEW k \in 1 .. m PROVE Targetable[k].index = k + 1 OBVIOUS
  <2>1. k \in 1 .. Len(Targetable) /\ k + 1 \in 1 .. NodeCount BY <1>1, <1>3
  <2> QED BY <1>3, <1>4, <2>1
<1>6. pod.index = Targetable[i].index /\ pod.index = Targetable[j].index BY PodsOfTarget
<1>7. Targetable[i].index = i + 1 /\ Targetable[j].index = j + 1 BY <1>2, <1>5
<1>8. i + 1 # j + 1 BY <1>2
<1> QED BY <1>6, <1>7, <1>8

LEMMA PodsOnPaths == Planned => EachPodOnItsPath
<1> SUFFICES ASSUME Planned, config.type = "IOLatency", NEW test \in Range(tests)
             PROVE  LET steps == InjectSteps(test)
                        pods == UNION Range(test.targets)
                    IN  /\ Cardinality(steps) = Cardinality(pods)
                        /\ \A pod \in pods : \E i \in steps :
                              /\ pod \in test.plan[i].pods
                              /\ VolumePath(pod) \in test.plan[i].path
                        /\ (\A target \in Range(test.targets) : Cardinality(target) = 1) =>
                              \A i \in steps, pod \in pods :
                                  pod \in test.plan[i].pods =>
                                      VolumePath(pod) \in test.plan[i].path
  BY DEF EachPodOnItsPath
<1>1. Composed /\ test \in SuiteTests BY DEF Planned, Range
<1>2. PICK fault, m, n : PlanOfTestIs(test, fault, m, n) BY <1>1, PlanOfTest
<1>3. /\ m \in Nat \ {0} /\ n \in Nat /\ "IOLatency" \in FaultTypes
      /\ InjectSteps(test) = 1 .. n /\ Len(test.plan) = n + 1
      /\ DOMAIN test.targets = 1 .. m
      /\ \A j \in 1 .. m : IsFiniteSet(test.targets[j]) /\ test.targets[j] # {}
  BY <1>2 DEF PlanOfTestIs, PlanIs
<1>4. Range(test.targets) = {test.targets[j] : j \in 1 .. m} BY <1>3 DEF Range
<1>5. UNION Range(test.targets) = AllOf(test.targets, m) BY <1>4 DEF AllOf
<1>6. Cardinality(1 .. n) = Cardinality(UNION Range(test.targets))
  <2>1. \A i, j \in 1 .. m : i # j => test.targets[i] \cap test.targets[j] = {}
    BY <1>1, <1>3, TargetsDisjoint
  <2> DEFINE plan == PlanSteps("IOLatency", fault, test.targets)
  <2>2. /\ IsFiniteSet(AllOf(test.targets, m))
        /\ Len(plan) = Cardinality(AllOf(test.targets, m)) + 1
    <3>1. HasPlaces(test.targets, m) BY <1>2 DEF PlanOfTestIs
    <3> HIDE DEF plan
    <3> QED BY <1>3, <2>1, <3>1, StepsCounted DEF plan
  <2>5. Len(plan) = n + 1 BY <1>2, <1>3 DEF PlanOfTestIs
  <2> HIDE DEF plan
  <2>3. Cardinality(1 .. n) = n
    <3>1. Cardinality(1 .. n) = IF 1 > n THEN 0 ELSE n - 1 + 1 BY <1>3, FS_Interval
    <3> QED BY <1>3, <3>1
  <2>4. Cardinality(AllOf(test.targets, m)) \in Nat BY <2>2, FS_CardinalityType
  <2>6. Cardinality(AllOf(test.targets, m)) = n BY <1>3, <2>2, <2>4, <2>5
  <2> QED BY <1>5, <2>3, <2>6
<1>7. ASSUME NEW i \in 1 .. n
      PROVE  \E j \in 1 .. m :
                /\ test.plan[i].pods = test.targets[j]
                /\ \E pod \in test.targets[j] : test.plan[i].path = {VolumePath(pod)}
  <2>1. PICK j \in 1 .. m :
            test.plan[i] \in Range(TargetSteps("IOLatency", fault, test.targets[j]))
    BY <1>2 DEF PlanOfTestIs, PlanIs
  <2>2. StepForEach(TargetSteps("IOLatency", fault, test.targets[j]), test.targets[j])
    BY <1>3, StepsOfTarget
  <2> QED BY <2>1, <2>2 DEF StepForEach
<1>8. ASSUME NEW pod \in UNION Range(test.targets)
      PROVE  \E i \in 1 .. n :
                pod \in test.plan[i].pods /\ VolumePath(pod) \in test.plan[i].path
  <2>1. PICK j \in 1 .. m : pod \in test.targets[j] BY <1>4
  <2>2. PICK s \in Range(TargetSteps("IOLatency", fault, test.targets[j])) :
            s.pods = test.targets[j] /\ s.path = {VolumePath(pod)}
    <3>1. StepForEach(TargetSteps("IOLatency", fault, test.targets[j]), test.targets[j])
      BY <1>3, StepsOfTarget
    <3> QED BY <2>1, <3>1 DEF StepForEach
  <2>3. PICK i \in 1 .. n : test.plan[i] = s BY <1>2, <2>2 DEF PlanOfTestIs, PlanIs
  <2> QED BY <2>1, <2>2, <2>3
<1>9. ASSUME \A target \in Range(test.targets) : Cardinality(target) = 1,
             NEW i \in 1 .. n, NEW pod \in test.plan[i].pods
      PROVE  VolumePath(pod) \in test.plan[i].path
  <2>1. PICK j \in 1 .. m :
            /\ test.plan[i].pods = test.targets[j]
            /\ \E one \in test.targets[j] : test.plan[i].path = {VolumePath(one)}
    BY <1>7
  <2>2. IsFiniteSet(test.targets[j]) /\ Cardinality(test.targets[j]) = 1
    BY <1>3, <1>4, <1>9
  <2>3. PICK x : test.targets[j] = {x} BY <2>2, FS_Singleton
  <2> QED BY <2>1, <2>3
<1> QED BY <1>3, <1>6, <1>8, <1>9

-----------------------------------------------------------------------------
(* The invariant of BuildPlan: Planned, and that nothing of an earlier     *)
(* plan is left where it composes.                                         *)

PlannedAtPlace ==
    /\ place \in {"removeNetwork", "removeSuite", "network"} =>
            nodes = <<>> /\ tests = <<>> /\ Valid(config)
    /\ place = "suite" => nodes # <<>> /\ tests = <<>>
    /\ place # "returned" => plans # 0

OneFile(f) == f = {} \/ \E content \in FileType : f = {content}

PlanTypeOK ==
    /\ config \in Configs /\ place \in Places /\ plans \in 0 .. MaxPlans
    /\ files \in [{"network", "suite"} -> SUBSET FileType]
    /\ OneFile(files.network) /\ OneFile(files.suite)

PlanInv == PlanTypeOK /\ PlannedAtPlace /\ Planned

LEMMA NothingPlanned == nodes = <<>> /\ tests = <<>> => Planned
<1>1. Range(<<>>) = {} BY DEF Range
<1> QED BY <1>1 DEF Planned

LEMMA SuiteTestsKept == UNCHANGED <<config, nodes>> => SuiteTests' = SuiteTests
<1> SUFFICES ASSUME UNCHANGED <<config, nodes>> PROVE SuiteTests' = SuiteTests OBVIOUS
<1>1. /\ NodeCount' = NodeCount /\ Targetable' = Targetable /\ IsExecClient' = IsExecClient
  BY DEF NodeCount, Targetable, IsExecClient
<1>2. SizesThatFit' = SizesThatFit BY <1>1 DEF SizesThatFit
<1>3. \A d, s, f : Test(d, s, f)' = Test(d, s, f) BY <1>1 DEF Test
<1> QED BY <1>2, <1>3 DEF SuiteTests

LEMMA PlannedKept == Planned /\ UNCHANGED <<config, nodes, tests>> => Planned'
<1> SUFFICES ASSUME Planned, UNCHANGED <<config, nodes, tests>> PROVE Planned' OBVIOUS
<1>1. SuiteTests' = SuiteTests BY SuiteTestsKept
<1>2. Composed' = Composed BY DEF Composed
<1> QED BY <1>1, <1>2 DEF Planned

LEMMA InitPlans == Init => PlanInv
<1> SUFFICES ASSUME Init PROVE PlanInv OBVIOUS
<1>1. Planned BY NothingPlanned DEF Init
<1>2. PlanTypeOK BY MaxPlansAssumption DEF Init, PlanTypeOK, OneFile, Places
<1> QED BY <1>1, <1>2 DEF Init, PlanInv, PlannedAtPlace

LEMMA StepPlans == PlanInv /\ [Next]_vars => PlanInv'
<1> SUFFICES ASSUME PlanInv, [Next]_vars PROVE PlanInv' OBVIOUS
<1>0. PlanTypeOK /\ PlannedAtPlace /\ Planned BY DEF PlanInv
\* The steps of writePlans, and those that do nothing but go on or return.
<1>1. ASSUME UNCHANGED <<config, nodes, tests, plans>>,
             \/ files' = files
             \/ /\ place # "returned"
                /\ \E f \in {"network", "suite"}, whole \in BOOLEAN :
                      files' = [files EXCEPT ![f] = {Content(whole)}]
             \/ \E f \in {"network", "suite"} : files' = [files EXCEPT ![f] = {}],
             \/ place' = place
             \/ place' \in {"returned", "picking"} /\ (place' = "picking" => place # "returned")
             \/ place = "removeNetwork" /\ place' = "removeSuite"
             \/ place = "removeSuite" /\ place' = "network"
             \/ place # "returned" /\ place' \in {"writeNetwork", "createSuite", "writeSuite"}
      PROVE  PlanInv'
  <2>1. Planned' BY <1>0, <1>1, PlannedKept
  <2>2. PlannedAtPlace' BY <1>0, <1>1 DEF PlannedAtPlace
  <2>3. PlanTypeOK'
    <3>1. CASE files' = files BY <1>0, <1>1, <3>1 DEF PlanTypeOK, Places
    <3>2. ASSUME NEW f \in {"network", "suite"}, NEW whole \in BOOLEAN, place # "returned",
                 files' = [files EXCEPT ![f] = {Content(whole)}]
          PROVE  PlanTypeOK'
      <4>1. plans \in 1 .. MaxPlans
        BY <1>0, <3>2, MaxPlansAssumption DEF PlanTypeOK, PlannedAtPlace
      <4>2. Content(whole) \in FileType
        BY <1>0, <4>1, ConfigsAssumption DEF Content, FileType, PlanTypeOK
      <4>3. OneFile({Content(whole)}) /\ {Content(whole)} \in SUBSET FileType
        BY <4>2 DEF OneFile
      <4> HIDE DEF OneFile
      <4> QED BY <1>0, <1>1, <3>2, <4>3 DEF PlanTypeOK, Places
    <3>3. ASSUME NEW f \in {"network", "suite"}, files' = [files EXCEPT ![f] = {}]
          PROVE  PlanTypeOK'
      <4>1. OneFile({}) BY DEF OneFile
      <4> HIDE DEF OneFile
      <4> QED BY <1>0, <1>1, <3>3, <4>1 DEF PlanTypeOK, Places
    <3> QED BY <1>1, <3>1, <3>2, <3>3
  <2> QED BY <2>1, <2>2, <2>3 DEF PlanInv
<1>2. ASSUME NEW c \in Configs, LoadPlannerConfig(c) PROVE PlanInv'
  <2>1. Planned'
    <3>1. nodes' = <<>> /\ tests' = <<>> BY <1>2 DEF LoadPlannerConfig
    <3>2. Range(tests') = {} BY <3>1 DEF Range
    <3> QED BY <3>1, <3>2 DEF Planned
  <2>2. PlanTypeOK' BY <1>0, <1>2, MaxPlansAssumption DEF LoadPlannerConfig, PlanTypeOK, Places
  <2>3. PlannedAtPlace'
    BY <1>0, <1>2, MaxPlansAssumption DEF LoadPlannerConfig, PlannedAtPlace, PlanTypeOK
  <2> QED BY <2>1, <2>2, <2>3 DEF PlanInv
<1>3. CASE RemoveNetwork BY <1>1, <1>3 DEF RemoveNetwork
<1>4. CASE RemoveSuite BY <1>1, <1>4 DEF RemoveSuite
<1>5. CASE ComposeNetwork
  <2>1. /\ config \in Configs /\ Valid(config) /\ nodes = <<>> /\ tests = <<>> /\ plans # 0
        /\ ~ ComposeNetworkRefuses(config) /\ ~ PicksForever(config)
        /\ nodes' = ComposeNetworkTopology(config) /\ place' = "suite"
        /\ UNCHANGED <<config, tests, files, plans>>
    BY <1>0, <1>5 DEF ComposeNetwork, PlannedAtPlace, PlanTypeOK
  <2>2. Composed' BY <2>1 DEF Composed, Composes
  <2>3. nodes' # <<>>
    <3>1. Len(nodes') \in Nat /\ Len(nodes') # 0
      BY <2>1, NetworkComposed, LenProperties DEF Composes
    <3> QED BY <3>1
  <2>4. Range(tests') = {} BY <2>1 DEF Range
  <2>5. Planned' BY <2>2, <2>3, <2>4 DEF Planned
  <2>6. PlanTypeOK' BY <1>0, <2>1 DEF PlanTypeOK, Places
  <2>7. PlannedAtPlace' BY <2>1, <2>3 DEF PlannedAtPlace
  <2> QED BY <2>5, <2>6, <2>7 DEF PlanInv
<1>6. CASE ComposeNetworkFails BY <1>1, <1>6 DEF ComposeNetworkFails
<1>7. CASE PickForever BY <1>1, <1>7 DEF PickForever
<1>8. CASE ComposeSuite
  <2>1. /\ nodes # <<>> /\ plans # 0 /\ place' = "createNetwork"
        /\ UNCHANGED <<config, nodes, files, plans>>
    BY <1>0, <1>8 DEF ComposeSuite, PlannedAtPlace
  <2>2. Composed BY <1>0, <2>1 DEF Planned
  <2>3. Range(tests') \subseteq SuiteTests BY <1>8, <2>2, SuiteComposed
  <2>4. SuiteTests' = SuiteTests BY <2>1, SuiteTestsKept
  <2>5. Planned'
    <3>1. Composed' BY <2>1, <2>2 DEF Composed
    <3> QED BY <2>1, <2>3, <2>4, <3>1 DEF Planned
  <2>6. PlanTypeOK' BY <1>0, <2>1 DEF PlanTypeOK, Places
  <2>7. PlannedAtPlace' BY <2>1 DEF PlannedAtPlace
  <2> QED BY <2>5, <2>6, <2>7 DEF PlanInv
<1>9. CASE ComposeSuiteFails BY <1>1, <1>9 DEF ComposeSuiteFails
<1>10. CASE CreateNetwork BY <1>1, <1>10 DEF CreateNetwork
<1>11. CASE WriteNetwork BY <1>1, <1>11 DEF WriteNetwork
<1>12. CASE CreateSuite BY <1>1, <1>12 DEF CreateSuite
<1>13. CASE WriteSuite BY <1>1, <1>13 DEF WriteSuite
<1>14. CASE CutShort BY <1>1, <1>14 DEF CutShort
<1>15. CASE UNCHANGED vars BY <1>1, <1>15 DEF vars
<1> QED
  BY <1>2, <1>3, <1>4, <1>5, <1>6, <1>7, <1>8, <1>9, <1>10, <1>11, <1>12, <1>13, <1>14, <1>15
     DEF Next

LEMMA PlansAlways == Spec => []PlanInv
BY InitPlans, StepPlans, PTL DEF Spec

\* The types of the planner's state: among them, that every test has a target
\* (targeting.go:45-103) and every file at most one content (file.go:45-75).
THEOREM PlannerTyped == Spec => []TypeOK
<1>1. PlanInv => TypeOK
  <2> SUFFICES ASSUME PlanInv PROVE TypeOK OBVIOUS
  <2>0. PlanTypeOK /\ Planned BY DEF PlanInv
  <2>1. nodes \in Seq(NodeType)
    <3>1. CASE nodes = <<>> BY <3>1, EmptySeq
    <3>2. CASE nodes # <<>>
      <4>1. Composed BY <2>0, <3>2 DEF Planned
      <4>2. nodes \in Seq(NodesOf(config)) /\ config \in Configs
        BY <4>1, TargetableNodes DEF Composed
      <4>3. NodesOf(config) \subseteq NodeType BY <4>2 DEF NodesOf, NodeType, Clients
      <4> QED BY <4>2, <4>3, SeqMonotonic
    <3> QED BY <3>1, <3>2
  <2>2. ASSUME NEW test \in Range(tests)
        PROVE  test.size \in AttackSizes /\ test.targets # <<>>
    <3>1. Composed /\ test \in SuiteTests BY <2>0, <2>2 DEF Planned, Range
    <3>2. PICK size \in SizesThatFit : test.size = size BY <3>1, SuiteTest
    <3>3. PICK fault, m, n : PlanOfTestIs(test, fault, m, n) BY <3>1, PlanOfTest
    <3>4. DOMAIN test.targets = 1 .. m /\ m \in Nat \ {0} BY <3>3 DEF PlanOfTestIs
    <3>5. test.targets # <<>> BY <3>4
    <3> QED BY <3>2, <3>5 DEF SizesThatFit
  <2>3. ASSUME NEW f, OneFile(f) PROVE Cardinality(f) <= 1 /\ f \subseteq FileType
    <3>1. CASE f = {} BY <3>1, FS_EmptySet
    <3>2. CASE f # {}
      <4>1. PICK content \in FileType : f = {content} BY <2>3, <3>2 DEF OneFile
      <4>2. IsFiniteSet(f) /\ Cardinality(f) = 1 BY <4>1, FS_Singleton
      <4> QED BY <4>1, <4>2
    <3> QED BY <3>1, <3>2
  <2>4. \A f \in {"network", "suite"} : OneFile(files[f]) BY <2>0 DEF PlanTypeOK
  <2>5. config \in Configs /\ place \in Places /\ plans \in 0 .. MaxPlans
    BY <2>0 DEF PlanTypeOK
  <2> QED BY <2>1, <2>2, <2>3, <2>4, <2>5 DEF TypeOK
<1> QED BY <1>1, PlansAlways, PTL

\* An attack on a minority, a majority and so on is on that share of the network, for any
\* number of nodes (types.go:22-42, targeting.go:45-103).
THEOREM PlannedSizesAsNamed == Spec => []SizesAsNamed
<1>1. PlanInv => SizesAsNamed BY SuiteSizesAsNamed DEF PlanInv
<1> QED BY <1>1, PlansAlways, PTL

\* The targets have the share of the network that was asked for, and not more than they
\* must (network_builder.go:152-172).
THEOREM PlannedShareOfTargets == Spec => []ShareOfTargets
<1>1. PlanInv => ShareOfTargets BY NetworkHasShare DEF PlanInv
<1> QED BY <1>1, PlansAlways, PTL

\* Every pod that a planned fault selects is one that Kurtosis makes of the network file,
\* and not of the bootnode (targeting.go:113-225, step_builder.go:20-42,
\* serialization.go:87-124).
THEOREM PlannedTargetsWillExist == Spec => []TargetsWillExist
<1>1. PlanInv => TargetsWillExist BY TargetsExist DEF PlanInv
<1> QED BY <1>1, PlansAlways, PTL

\* A planned test injects into every target, and can be waited for at its end
\* (test_builder.go:8-123, suite_builder.go:82-229).
THEOREM PlannedCanBeWaitedFor == Spec => []PlansCanBeWaitedFor
<1>1. PlanInv => PlansCanBeWaitedFor BY PlansEnd DEF PlanInv
<1> QED BY <1>1, PlansAlways, PTL

\* An I/O fault has a step for each pod, with the path of its volume (step_builder.go:89-113,
\* faults.go:232-283).
THEOREM PlannedOnTheirPaths == Spec => []EachPodOnItsPath
<1>1. PlanInv => EachPodOnItsPath BY PodsOnPaths DEF PlanInv
<1> QED BY <1>1, PlansAlways, PTL

-----------------------------------------------------------------------------
(* Project.  Its commands take no step that the planner could not, so what *)
(* is proved of the planner's files holds; and as long as no plan goes on  *)
(* between the two reads of a start, what it has read is what is there.    *)

StartPlaces == {"none", "readSuite", "readNetwork", "setup", "testing", "failed"}

\* What a start has read so far.
StartAgrees ==
    /\ start.at = "readNetwork" /\ ~ start.overlapped => start.suite = files.suite
    /\ start.at = "setup" /\ ~ start.overlapped =>
          \A suite \in start.suite, network \in start.network :
              suite.whole /\ network.whole /\ network.plan = suite.plan

StartTypeOK ==
    /\ start \in [at : StartPlaces, suite : SUBSET Contents, network : SUBSET Contents,
                  imported : BOOLEAN, overlapped : BOOLEAN]
    /\ devnet \subseteq Contents

ProjectIInv == StartTypeOK /\ StartAgrees /\ SuiteMeetsItsNetwork

\* A command is a step of the planner, or leaves its state alone.
LEMMA CommandPlans == [ProjectNext]_projectVars => [Next]_vars
BY DEF ProjectNext, projectVars, InitializeProject, Mkdir, MkdirSuites, MkdirNetworks,
       InitCutShort, MakePlanDirectory, Plan, StartSuite, ReadSuite, ReadNetwork,
       StartFails, ImportDevnet, MakeDevnet, CreateDevnet, GenesisFails, RemoveDevnet,
       Starts

\* The commands of a project run the planner.
THEOREM ProjectPlans == ProjectSpec => Spec
<1>1. ProjectInit => Init BY DEF ProjectInit
<1> QED BY <1>1, CommandPlans, PTL DEF ProjectSpec, Spec

\* So the files of two plans never meet in a project either.
THEOREM ProjectFilesAgree == ProjectSpec => []FilesAgree
BY ProjectPlans, PlanFilesAgree, PTL

\* Nor does a project break what a plan promises, whatever init and start do beside it.
THEOREM ProjectPlanned ==
    ProjectSpec => [](/\ TypeOK /\ SizesAsNamed /\ ShareOfTargets /\ TargetsWillExist
                      /\ PlansCanBeWaitedFor /\ EachPodOnItsPath)
BY ProjectPlans, PlannerTyped, PlannedSizesAsNamed, PlannedShareOfTargets,
   PlannedTargetsWillExist, PlannedCanBeWaitedFor, PlannedOnTheirPaths, PTL

LEMMA ProjectInitEstablishes == ProjectInit => ProjectIInv
<1> SUFFICES ASSUME ProjectInit PROVE ProjectIInv OBVIOUS
<1>1. start.at = "none" /\ StartTypeOK
  BY DEF ProjectInit, NotStarted, StartTypeOK, StartPlaces
<1> QED BY <1>1 DEF ProjectIInv, StartAgrees, SuiteMeetsItsNetwork

\* A command that leaves the files alone and reads none.
LEMMA OtherCommandPreserves ==
    ASSUME ProjectIInv, files' = files, devnet' \in {devnet, {}},
           \/ start' = start
           \/ start' = [NotStarted EXCEPT !.at = "readSuite"]
           \/ start' = [start EXCEPT !.at = "failed"]
    PROVE  ProjectIInv'
<1>1. CASE start' = start
  BY <1>1 DEF ProjectIInv, StartTypeOK, StartAgrees, SuiteMeetsItsNetwork, HasNamespace
<1>2. CASE start' = [NotStarted EXCEPT !.at = "readSuite"]
  <2>1. start'.at = "readSuite" /\ StartTypeOK'
    BY <1>2 DEF NotStarted, ProjectIInv, StartTypeOK, StartPlaces
  <2> QED BY <2>1 DEF ProjectIInv, StartAgrees, SuiteMeetsItsNetwork
<1>3. CASE start' = [start EXCEPT !.at = "failed"]
  <2>1. start'.at = "failed" /\ StartTypeOK'
    BY <1>3 DEF ProjectIInv, StartTypeOK, StartPlaces
  <2> QED BY <2>1 DEF ProjectIInv, StartAgrees, SuiteMeetsItsNetwork
<1> QED BY <1>1, <1>2, <1>3

LEMMA CommandPreserves == IInv /\ ProjectIInv /\ [ProjectNext]_projectVars => ProjectIInv'
<1> SUFFICES ASSUME IInv, ProjectIInv, [ProjectNext]_projectVars PROVE ProjectIInv' OBVIOUS
<1>0. /\ StartTypeOK /\ StartAgrees /\ SuiteMeetsItsNetwork
      /\ files \in [network : SUBSET Contents, suite : SUBSET Contents]
      /\ FilesAgree
  BY DEF ProjectIInv, IInv, FilesTypeOK
<1>1. ASSUME NEW force \in BOOLEAN, InitializeProject(force) PROVE ProjectIInv'
  BY <1>1, OtherCommandPreserves DEF InitializeProject, vars
<1>2. CASE MkdirSuites BY <1>2, OtherCommandPreserves DEF MkdirSuites, Mkdir, vars
<1>3. CASE MkdirNetworks BY <1>3, OtherCommandPreserves DEF MkdirNetworks, Mkdir, vars
<1>4. CASE InitCutShort BY <1>4, OtherCommandPreserves DEF InitCutShort, vars
<1>5. ASSUME NEW dir \in Directories, MakePlanDirectory(dir) PROVE ProjectIInv'
  BY <1>5, OtherCommandPreserves DEF MakePlanDirectory, vars
\* The planner goes on: a start that is between its two reads is marked.
<1>6. CASE Plan
  <2>1. /\ start'.at = start.at /\ start'.suite = start.suite
        /\ start'.network = start.network /\ start'.imported = start.imported
        /\ (start.overlapped => start'.overlapped)
        /\ (start.at = "readNetwork" => start'.overlapped)
        /\ StartTypeOK'
    BY <1>0, <1>6 DEF Plan, StartTypeOK
  <2> QED BY <1>0, <2>1 DEF ProjectIInv, StartAgrees, SuiteMeetsItsNetwork, HasNamespace
<1>7. CASE StartSuite BY <1>7, OtherCommandPreserves DEF StartSuite, Starts, vars
<1>8. CASE ReadSuite
  <2>1. /\ start'.at = "readNetwork" /\ start'.suite = files'.suite
        /\ StartTypeOK'
    BY <1>0, <1>8 DEF ReadSuite, Starts, vars, StartTypeOK, StartPlaces
  <2> QED BY <2>1 DEF ProjectIInv, StartAgrees, SuiteMeetsItsNetwork
\* What has been read of the suite is still there, and agrees with the network.
<1>9. CASE ReadNetwork
  <2>1. /\ start.at = "readNetwork" /\ NamesNetwork
        /\ start'.at = "setup" /\ start'.suite = start.suite
        /\ start'.network = files.network /\ start'.overlapped = start.overlapped
        /\ StartTypeOK'
    BY <1>0, <1>9 DEF ReadNetwork, Starts, StartTypeOK, StartPlaces
  <2>2. ASSUME ~ start'.overlapped,
               NEW suite \in start'.suite, NEW network \in start'.network
        PROVE  suite.whole /\ network.whole /\ network.plan = suite.plan
    <3>1. suite \in files.suite /\ network \in files.network /\ suite.whole
      BY <1>0, <2>1, <2>2 DEF StartAgrees, NamesNetwork
    <3> QED BY <1>0, <3>1 DEF FilesAgree
  <2> QED BY <2>1, <2>2 DEF ProjectIInv, StartAgrees, SuiteMeetsItsNetwork
<1>10. CASE StartFails BY <1>10, OtherCommandPreserves DEF StartFails, Starts, vars
<1>11. CASE ImportDevnet
  <2>1. /\ start'.at = "testing" /\ start'.imported /\ start'.suite = start.suite
        /\ HasNamespace /\ StartTypeOK'
    BY <1>0, <1>11 DEF ImportDevnet, Starts, StartTypeOK, StartPlaces
  <2> QED BY <2>1 DEF ProjectIInv, StartAgrees, SuiteMeetsItsNetwork, HasNamespace
<1>12. CASE CreateDevnet
  <2>1. /\ start.at = "setup" /\ start'.at = "testing" /\ start'.suite = start.suite
        /\ start'.network = start.network /\ start'.overlapped = start.overlapped
        /\ StartTypeOK'
    BY <1>0, <1>12 DEF CreateDevnet, MakeDevnet, Starts, StartTypeOK, StartPlaces
  <2> QED BY <1>0, <2>1 DEF ProjectIInv, StartAgrees, SuiteMeetsItsNetwork
<1>13. CASE GenesisFails
  <2>1. start'.at = "failed" /\ StartTypeOK'
    BY <1>0, <1>13 DEF GenesisFails, MakeDevnet, Starts, StartTypeOK, StartPlaces
  <2> QED BY <2>1 DEF ProjectIInv, StartAgrees, SuiteMeetsItsNetwork
<1>14. CASE RemoveDevnet BY <1>14, OtherCommandPreserves DEF RemoveDevnet, vars
<1>15. CASE UNCHANGED projectVars BY <1>15, OtherCommandPreserves DEF projectVars, vars
<1> QED
  BY <1>1, <1>2, <1>3, <1>4, <1>5, <1>6, <1>7, <1>8, <1>9, <1>10, <1>11, <1>12, <1>13,
     <1>14, <1>15 DEF ProjectNext

\* Without a plan going on between its two reads, and without a devnet that is there
\* already, a start runs a suite on the network planned with it (config.go:42-75,
\* file.go:10-75, kurtosis.go:87-123).
THEOREM SuitesMeetTheirNetworks == ProjectSpec => []SuiteMeetsItsNetwork
<1>1. Init => IInv BY InitEstablishes
<1>2. IInv /\ [Next]_vars => IInv' BY StepPreserves
<1>3. ProjectIInv => SuiteMeetsItsNetwork BY DEF ProjectIInv
<1> QED
  BY <1>1, <1>2, <1>3, ProjectPlans, ProjectInitEstablishes, CommandPreserves, PTL
     DEF Spec, ProjectSpec
=============================================================================
