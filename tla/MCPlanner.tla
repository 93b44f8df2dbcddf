------------------------------ MODULE MCPlanner ------------------------------
(* Planner for TLC.  Networks of 3 to 29 nodes, so that the numbers of pods are *)
(* padded in some and every attack size can and cannot be met; a share of       *)
(* targets that is exact, that is not, that cannot be met and that needs no     *)
(* extra node, and some with nine targets whose float32 quotient is a node      *)
(* short of the exact one; a bootnode that runs the target client; and clients  *)
(* configured twice, or not at all.                                             *)
EXTENDS Project

\* Every field there is, each of the kind it is read as.
Complete ==
    [skew |-> "text", duration |-> "duration", grace_period |-> "duration",
     delay |-> "duration", jitter |-> "duration", percent |-> "number",
     correlation |-> "number", loss_percent |-> "number", direction |-> "text"]
OddDuration == [Complete EXCEPT !.duration = "text"]
NoGrace == [field \in DOMAIN Complete \ {"grace_period"} |-> Complete[field]]

Config(execs, conss, target, bootCl, percent, multiplier, sizes) ==
    [execs |-> execs, conss |-> conss, target |-> target, bootEl |-> "geth",
     bootCl |-> bootCl, percent |-> percent, multiplier |-> multiplier, sizes |-> sizes,
     dimensions |-> <<"MatchingNode", "MatchingClient">>,
     type |-> "NetworkLatency", faults |-> <<Complete>>, namespace |-> FALSE]

Rising == <<"AttackOne", "AttackMinority", "AttackSuperminority", "AttackMajority",
            "AttackSupermajority", "AttackAll">>
Execs == <<"geth", "reth">>
Conss == <<"prysm", "teku", "lighthouse">>

Networks ==
    {Config(Execs, Conss, target, "teku", percent, multiplier, sizes) :
        target \in {"reth", "prysm"}, percent \in {0, 34, 50, 60, 75, 90},
        multiplier \in {0, 2}, sizes \in {Rising, Reverse(Rising)}}

Rounded ==
    {Config(Execs, Conss, "reth", "teku", percent, 3, Rising) : percent \in {30, 36, 60}}

Faults ==
    {[Config(Execs, Conss, target, "teku", 34, 0, Rising)
        EXCEPT !.type = type, !.faults = faults, !.dimensions = dimensions, !.namespace = TRUE] :
        target \in {"reth", "prysm"},
        type \in {"ClockSkew", "RestartContainers", "IOLatency", "PacketLoss"},
        faults \in {<<Complete>>, <<OddDuration>>, <<Complete, NoGrace>>},
        dimensions \in {<<"MatchingNode">>, <<"MatchingClient">>}}

Faulty ==
    {Config(Execs, Conss, "all", "teku", 0, 1, Rising),
     Config(Execs, Conss, "teku", "teku", 50, 1, Rising),
     Config(Execs, Conss, "nimbus", "teku", 0, 1, Rising),
     Config(Execs, Conss, "reth", "nimbus", 0, 1, Rising),
     Config(Execs, <<"teku", "teku">>, "reth", "teku", 0, 1, Rising),
     Config(<<"geth">>, Conss, "geth", "teku", 50, 1, Rising),
     Config(Execs, Conss, "reth", "teku", 101, 1, Rising),
     Config(Execs, Conss, "reth", "teku", -34, 1, Rising)}

AllConfigs == Networks \cup Rounded \cup Faults \cup Faulty
=============================================================================
