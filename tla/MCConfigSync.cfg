SPECIFICATION FairSpec
CONSTANTS
    d1 = d1
    d2 = d2
    m1 = m1
    w1 = w1
    w2 = w2
    e1 = e1
    e2 = e2
    Devices = {d1}
    Muds = {m1}
    Enforcers = {e1}
    Workers = {w1, w2}
    Modulus = 3
    AdminVersions = {2}
    MaxRequests = 2
    MaxFaults = 1
INVARIANTS TypeOK SyncedOrExplained
PROPERTIES EventuallySynced ImplementsFeed
