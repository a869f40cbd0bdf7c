SPECIFICATION Spec
CONSTANTS
    n1 = n1
    n2 = n2
    w1 = w1
    w2 = w2
    Names = {n1, n2}
    RolePerms = {{}, {"role/assign"}}
    Workers = {w1, w2}
    Ttl = 1
    MaxTime = 2
    MaxRequests = 4
    MaxFaults = 1
INVARIANTS UserTypeOK TokenPermissionsHeld TokenNamesItsUser OneSelfMadeAdmin AdminUnlessInterrupted PasswordKeptUnlessRaced
SYMMETRY Symmetry
