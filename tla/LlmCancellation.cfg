SPECIFICATION Spec
CONSTANTS
    Config <- MCConfig
    Values = {"a"}
    MaxConcurrency = 1
    MaxRetries = 0
    MaxRuns = 1
    MaxFaults = 0
CHECK_DEADLOCK FALSE
PROPERTIES
    CancellationRetains
