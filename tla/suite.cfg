SPECIFICATION FairSpec
CONSTANTS
    Tests = 2
    MaxRuns = 2
CHECK_DEADLOCK FALSE
INVARIANTS
    TypeOK
    FileSpeaksForSuite
    LeftBehind
    JudgedAlone
    NetworkUpUnlessGenesisFailed
PROPERTIES
    OnlyOwnDestroyed
    RunEnds
