SPECIFICATION Spec
CONSTANTS
    r1 = r1
    r2 = r2
    r3 = r3
    r4 = r4
    k1 = k1
    k2 = k2
    Requests = {r1, r2, r3, r4}
    Keys = {k1, k2}
    McpKeys = {k2}
    MaxLapses = 2
    None = None
SYMMETRY RequestSymmetry
INVARIANTS WritesOwed NoLeakedLock
CHECK_DEADLOCK FALSE
