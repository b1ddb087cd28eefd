SPECIFICATION SpecFiles
CONSTANTS
    Claims = {c1, c2, c3}
    NoClaim = NoClaim
    Hosts = {h1, h2}
    Pids = {p1, p2}
    MaxEvents = 5
    MaxCrash = 2
    MaxPowerLoss = 2
    MaxShortWrite = 1
    MaxSyncError = 2
SYMMETRY ClaimSymmetry
INVARIANTS
    CrashesReadable
    AckedKept
    ManifestNotAhead
    InspectionTrue
PROPERTIES
    ImplementsLock
