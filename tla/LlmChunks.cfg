SPECIFICATION Spec
CONSTANTS
    Config <- MCConfig
    Values = {"a", "b"}
    MaxConcurrency = 1
    MaxRetries = 1
    MaxRuns = 2
    MaxFaults = 1
CHECK_DEADLOCK FALSE
INVARIANTS
    PlansRight
PROPERTIES
    FailureLeavesNothing
    EarlierKept
    Ends
