SPECIFICATION Spec
CONSTANTS
    u1 = u1
    h1 = h1
    c1 = c1
    t1 = t1
    t2 = t2
    NoUrl = NoUrl
    Web = {u1}
    Insecure = {}
    Custom = {}
    Tasks = {t1, t2}
    Validity = 1
    MaxTime = 2
    MaxRequests = 3
    MaxOutages = 0
    MaxFaults = 0
INVARIANT OverrideKept
SYMMETRY Symmetry
