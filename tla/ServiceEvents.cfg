SPECIFICATION Spec
CONSTANTS
    NJobs = 1
    Jobs <- MCJobs
    Stages = {1, 2, 3}
    Profiles = {"deterministic", "fast"}
    Plan <- MCPlan
    Drivers = {"cli", "gui"}
    Offered = {"config", "retry", "damage", "drift", "lose"}
    MaxAttempt = 2
    MaxCrash = 1
    MaxFault = 2
    MaxRot = 1
INVARIANTS
    CommittedPrefix
    RowsHonest
PROPERTIES
    ImplementsJournal
CHECK_DEADLOCK FALSE
