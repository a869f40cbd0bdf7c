SPECIFICATION Spec
CONSTANTS
    e1 = e1
    e2 = e2
    p1 = p1
    p2 = p2
    p3 = p3
    Peers = {p1, p2, p3}
    Certs = {e1, e2}
    CertOf <- TwoOfThree
    MaxConnections = 1
    MaxDecisions = 2
    MaxFaults = 1
    MaxRestarts = 1
INVARIANTS LinkTypeOK ServedWasAllowed DecisionKept InsertNeverConflicts
PROPERTY AllowedAreServed
