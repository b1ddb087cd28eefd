SPECIFICATION SpecPages
CONSTANTS
    None = None
    Inputs = {i1, i2}
    Presets = {p1}
    j1 = j1
    j2 = j2
    Jobs <- MCJobs
    Before <- MCBefore
    MaxEdits = 4
    MaxClicks = 2
    MaxSaves = 2
    MaxExports = 4
    MaxSaveFaults = 1
    Programs = {a, b}
    Profiles = {"default", "other"}
    MaxFaults = 1
CHECK_DEADLOCK FALSE
INVARIANTS
    DraftCurrent
    PanelIsTarget
    SavedKept
    ReadersAgree
PROPERTIES
    EventuallyShown
