SPECIFICATION Spec
CONSTANTS
    n1 = n1
    n2 = n2
    w1 = w1
    w2 = w2
    Names = {n1, n2}
    RolePerms = {{}, {"role/assign"}}
    Workers = {w1, w2}
    Ttl = 1
    MaxTime = 1
    MaxRequests = 2
    MaxFaults = 0
INVARIANT SetupMakesAdmin
SYMMETRY Symmetry
