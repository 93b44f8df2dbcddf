SPECIFICATION Spec
CONSTANTS
    Pods = {p1, p2}
    Messages = {m1}
    Plans <- AllPlans
SYMMETRY Symmetry
CHECK_DEADLOCK FALSE
INVARIANTS
    TypeOK
    ReportedPodsFaulted
PROPERTY ImplementsPlanRun
