SPECIFICATION FairSpec
CONSTANTS
    u1 = u1
    h1 = h1
    c1 = c1
    t1 = t1
    t2 = t2
    NoUrl = NoUrl
    Web = {u1}
    Insecure = {h1}
    Custom = {c1}
    Tasks = {t1, t2}
    Validity = 1
    MaxTime = 2
    MaxRequests = 2
    MaxOutages = 2
    MaxFaults = 1
INVARIANTS MudTypeOK OverrideKeptUnlessRaced LocalProfilesStayLocal DeletedStayGone
PROPERTY EventuallyFresh
