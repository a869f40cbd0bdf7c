SPECIFICATION Spec
CONSTANTS
    m1 = m1
    m2 = m2
    d1 = d1
    d2 = d2
    a1 = a1
    b1 = b1
    w1 = w1
    w2 = w2
    None = None
    Unparsable = Unparsable
    Macs = {m1, m2}
    Duids = {d1, d2}
    V4 = {a1}
    V6 = {b1}
    Workers = {w1, w2}
    MaxRequests = 3
    MaxFields = 2
    MaxFaults = 1
INVARIANTS DevicesTypeOK AddressFollowsLease OneRowPerMac UserFieldsKept
SYMMETRY Symmetry
