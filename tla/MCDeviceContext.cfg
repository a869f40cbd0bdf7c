SPECIFICATION Spec
CONSTANTS
    d1 = d1
    d2 = d2
    k1 = k1
    k2 = k2
    n1 = n1
    n2 = n2
    w1 = w1
    w2 = w2
    v1 = v1
    v2 = v2
    None = None
    NoName = NoName
    Names = {n1, n2}
    OldNames = {n1}
    MaxRooms = 2
    NamedRooms = {1}
    RoomWorkers = {v1, v2}
    Workers = {w1, w2}
    Devices = {d1, d2}
    Keys = {k1, k2}
    NoKey = NoKey
    Window = 1
    MaxRequests = 3
    MaxFaults = 1
INVARIANTS ContextTypeOK RoomOfRequest CollectedIsReported NoOutageNoLoss
SYMMETRY Symmetry
