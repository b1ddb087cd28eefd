SPECIFICATION OperatedSpec
CONSTANTS
    NJobs = 2
    Jobs <- MCJobs
    Stages = {1}
    Profiles = {"deterministic"}
    Plan <- MCPlan
    Drivers = {"cli"}
    Offered = {"cancel-batch", "cancel-job", "damage", "drift"}
    MaxAttempt = 5
    MaxCrash = 1
    MaxFault = 2
    MaxRot = 1
PROPERTIES
    RetryIsExplicit
    EventuallySettled
CHECK_DEADLOCK FALSE
