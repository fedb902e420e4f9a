SPECIFICATION Spec
CONSTANTS
    Placers = {p1, p2}
    Handlers = {h1, h2}
    Seats = {s1, s2, s3, s4}
    Areas = {num, std}
    s1 = s1
    s2 = s2
    s3 = s3
    s4 = s4
    num = num
    std = std
    AreaOf <- MCAreaOf
    Numbered = {num}
    Requests <- AllRequests
    Outcomes = {"paid", "expired"}
    MaxAttempts = 2
    FaultKinds = {"abort", "crash", "unsure"}
    MaxFaults = 1
    NoTx = NoTx
    NoOrder = NoOrder
SYMMETRY Symmetric
INVARIANTS
    TypeOK
    NoDoubleOrder
    StatusAgrees
    OneOrderPerRequest
    NoOrphanLock
PROPERTIES
    SoldIsFinal
    ImplementsLedger
