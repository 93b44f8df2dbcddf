--------------------------- MODULE NetworkTopology ---------------------------
(***************************************************************************)
(* pkg/plan/network: the nodes of a planned network.  A client is its name;*)
(* images, cpu and memory are left out.  A configuration c is the part of  *)
(* the planner's file that decides the plan: see Planner.                  *)
(***************************************************************************)
EXTENDS Integers, Sequences, SequencesExt, Functions

CONSTANT Sidecars    \* the consensus clients with a validator of their own

Node(index, execution, consensus) ==
    [index |-> index, execution |-> execution, consensus |-> consensus]

IsTargetExecutionClient(c) == c.target \in Range(c.execs)
IsTargetConsensusClient(c) == c.target \in Range(c.conss)

Bootnode(c) == Node(1, c.bootEl, c.bootCl)

\* The target client next to every client of the other layer, multiplier times each.
\* The bootnode has index 1.
NodesToTest(c) ==
    LET others == IF IsTargetExecutionClient(c) THEN c.conss ELSE c.execs
        times == IF c.multiplier = 0 THEN 1 ELSE c.multiplier
        Other(i) == others[((i - 1) \div times) + 1]
    IN  [i \in 1 .. Len(others) * times |->
            IF IsTargetExecutionClient(c) THEN Node(i + 1, c.target, Other(i))
                                          ELSE Node(i + 1, Other(i), c.target)]

\* The percentage is a float32 of the file, here of one in hundredths: a mantissa of 24
\* bits over a power of two.
Scales == {8388608 * k : k \in {1, 2, 4, 8, 16, 32, 64, 128}}
Mantissa(percent, scale) == (percent * scale + 50) \div 100
ScaleOf(percent) ==
    CHOOSE scale \in Scales : /\ 8388608 <= Mantissa(percent, scale)
                              /\ Mantissa(percent, scale) < 16777216

\* The powers of two up to the size of a network: a quotient between one and the next is
\* rounded to a multiple of its 8388608th part.
Powers == {1, 2, 4, 8, 16, 32, 64, 128, 256, 512}

\* Line 157, cut to an integer: the float32 quotient.  It is the integer above when that is
\* no further than half of a last bit.
NetworkSize(percent, targets) ==
    LET scale == ScaleOf(percent)
        mantissa == Mantissa(percent, scale)
        whole == (targets * scale) \div mantissa
        power == CHOOSE k \in Powers : k <= whole /\ whole < 2 * k
        lacking == (whole + 1) * mantissa - targets * scale
    IN  IF lacking <= (power * mantissa) \div 16777216 THEN whole + 1 ELSE whole

\* Mutant: the bootnode is not one of the network's nodes.
NodesToAddToTargets(percent, targets) == NetworkSize(percent, targets) - targets

NodesToAdd(percent, targets) == NetworkSize(percent, targets) - targets - 1

\* Lines 153 and 158.
PercentRefused(percent, targets) ==
    percent \in 0 .. 100 => NetworkSize(percent, targets) - targets < 1

\* A loop that leaves out what is not wanted: SelectSeq, as a recursive function that
\* proofs can unfold.
KeepOnly(s, wanted) ==
    LET kept[i \in 0 .. Len(s)] ==
            IF i = 0 THEN <<>>
            ELSE IF s[i] \in wanted THEN Append(kept[i - 1], s[i]) ELSE kept[i - 1]
    IN  kept[Len(s)]

\* The clients that extra nodes are made of.
OtherExecs(c) == KeepOnly(c.execs, Range(c.execs) \ {c.target})
OtherConss(c) == KeepOnly(c.conss, Range(c.conss) \ {c.target})

\* Every pair of other clients in turn, and again from the first.
ExtraNodes(c, start, count) ==
    LET execs == OtherExecs(c)
        conss == OtherConss(c)
    IN  [k \in 1 .. count |->
            Node(start + k - 1, execs[(((k - 1) \div Len(conss)) % Len(execs)) + 1],
                                conss[((k - 1) % Len(conss)) + 1])]

\* The loop of pickExtraNodeClients leaves only when it has just added the last node.
PicksForever(c) ==
    LET targets == Len(NodesToTest(c))
    IN  /\ c.percent # 0
        /\ ~ PercentRefused(c.percent, targets)
        /\ \/ NodesToAdd(c.percent, targets) = 0
           \/ OtherExecs(c) = <<>> \/ OtherConss(c) = <<>>

ComposeNetworkRefuses(c) ==
    \/ c.target = "all"
    \/ ~ IsInjective(c.execs) \/ ~ IsInjective(c.conss)
    \/ c.bootEl \notin Range(c.execs) \/ c.bootCl \notin Range(c.conss)
    \/ c.percent # 0 /\ PercentRefused(c.percent, Len(NodesToTest(c)))

ComposeNetworkTopology(c) ==
    LET composed == <<Bootnode(c)>> \o NodesToTest(c)
        targets == Len(composed) - 1
    IN  IF c.percent = 0
        THEN composed
        ELSE composed \o ExtraNodes(c, composed[Len(composed)].index + 1,
                                       NodesToAdd(c.percent, targets))
=============================================================================
