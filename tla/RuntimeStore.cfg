SPECIFICATION SpecStore
CONSTANTS
    Managed = {m1}
    External = {x1}
    Procs = {p1, p2}
    Users = {u1}
    None = None
    MaxCommands = 4
    MaxInterruptions = 1
INVARIANTS
    Protected
    InUseIntact
PROPERTIES
    ImplementsSlot
    Repaired
