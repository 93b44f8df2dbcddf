SPECIFICATION Spec
CONSTANTS
    Pods = {p1, p2}
    Messages = {m1}
    Faults <- TimedFaults
CHECK_DEADLOCK FALSE
INVARIANT NeverPanics
