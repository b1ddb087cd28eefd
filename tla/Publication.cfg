SPECIFICATION MCSpec
CONSTANTS
    j1 = j1
    j2 = j2
    c1 = c1
    c2 = c2
    d1 = d1
    d2 = d2
    Jobs = {j1, j2}
    Contents = {c1, c2}
    Dirs = {d1, d2}
    NumFiles = 2
    MaxFaults = 1
INVARIANTS
    ReceiptTrue
PROPERTIES
    Whole
    PublishedAtLast
