SPECIFICATION FairSpec
CONSTANTS
    n1 = n1
    n2 = n2
    n3 = n3
    Nodes = {n1, n2, n3}
    Numbers = {0, 1}
    Hashes = {"None", "N/A", "A", "B"}
    Layer <- Mixed
    Checks <- TwoChecks
    NoGrace = NoGrace
    GracePeriods = {0, 2, NoGrace}
    MaxElapsed = 3
CHECK_DEADLOCK FALSE
INVARIANTS
    TypeOK
    FailuresReported
    RoundsWithinGrace
    DeadNotJudged
PROPERTIES
    RecoveryTimesKept
    ChecksEnd
