SPECIFICATION ProjectSpec
CONSTANTS
    Sidecars = {"prysm"}
    Configs <- AllConfigs
    MaxPlans = 2
CHECK_DEADLOCK FALSE
INVARIANTS
    TypeOK
    FilesAgree
    TargetsWillExist
    SizesAsNamed
    ShareOfTargets
    PlansCanBeWaitedFor
    EachPodOnItsPath
    SuiteMeetsItsNetwork
