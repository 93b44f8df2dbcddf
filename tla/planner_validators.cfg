SPECIFICATION ProjectSpec
CONSTANTS
    Sidecars = {"prysm"}
    Configs <- AllConfigs
    MaxPlans = 1
CHECK_DEADLOCK FALSE
INVARIANT SelectorsMatch
