SPECIFICATION Spec
CONSTANTS
    Pods = 2
    Retries = 2
CHECK_DEADLOCK FALSE
INVARIANT NeverPanics
