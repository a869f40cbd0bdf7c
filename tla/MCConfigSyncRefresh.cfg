SPECIFICATION Spec
CONSTANTS
    d1 = d1
    d2 = d2
    m1 = m1
    w1 = w1
    w2 = w2
    e1 = e1
    e2 = e2
    Devices = {d1}
    Muds = {m1}
    Enforcers = {e1, e2}
    Workers = {w1}
    Modulus = 4
    AdminVersions = {}
    MaxRequests = 3
    MaxFaults = 0
INVARIANT InSync
SYMMETRY Symmetry
