SPECIFICATION Spec
CONSTANTS
    NJobs = 2
    Jobs <- MCJobs
    Stages = {1, 3}
    Profiles = {"deterministic"}
    Plan <- MCPlan
    Drivers = {"gui"}
    Offered = {"cancel-batch", "cancel-job", "pause", "lose"}
    MaxAttempt = 2
    MaxCrash = 1
    MaxFault = 0
    MaxRot = 1
INVARIANTS
    RowsHonest
    OffersAccepted
    RecoveryWorks
PROPERTIES
    ManifestOnExit
    CancelSettles
CHECK_DEADLOCK FALSE
