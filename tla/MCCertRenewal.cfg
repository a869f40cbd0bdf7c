SPECIFICATION Spec
CONSTANTS
    c1 = c1
    c2 = c2
    r1 = r1
    r2 = r2
    Clients = {c1, c2}
    Renewers = {r1, r2}
    Lifetime = 1
    RenewBefore = 1
    MaxTime = 1
    MaxFaults = 1
INVARIANTS CertTypeOK CacheFollowsDisk ServedIsRenewed
PROPERTY DueIsRenewed
