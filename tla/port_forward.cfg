SPECIFICATION FairSpec
CONSTANTS
    Pods = 2
    Retries = 2
CHECK_DEADLOCK FALSE
INVARIANTS
    TypeOK
    OneForwarderPerPort
    SessionsComplete
PROPERTY OpenEnds
