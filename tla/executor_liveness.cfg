SPECIFICATION FairSpec
CONSTANTS
    Pods = {p1}
    Messages = {m1}
    Plans <- TimedPlans
CHECK_DEADLOCK FALSE
PROPERTIES
    InjectionWaitEnds
    PlanEnds
