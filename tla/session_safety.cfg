SPECIFICATION Spec
CONSTANTS
    Pods = {p1, p2, p3}
    Messages = {m1, m2}
    Faults <- AllFaults
SYMMETRY Symmetry
CHECK_DEADLOCK FALSE
INVARIANTS
    TypeOK
    ProgressMeansInjected
    CompletedMeansRecovered
    PodsUnderTestSound
    PanicNeedsFailedRecovery
PROPERTIES
    StatusGoesForward
    ImplementsLifecycle
