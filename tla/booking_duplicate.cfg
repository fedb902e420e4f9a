SPECIFICATION Spec
CONSTANTS
    Placers = {p1, p2, p3}
    Handlers = {h1}
    Seats = {s1, s2, s3, s4}
    Areas = {num, std}
    s1 = s1
    s2 = s2
    s3 = s3
    s4 = s4
    num = num
    std = std
    AreaOf <- MCAreaOf
    Numbered = {num}
    Requests <- OneSeat
    Outcomes = {"paid", "expired"}
    MaxAttempts = 1
    FaultKinds = {"lost"}
    MaxFaults = 1
    NoTx = NoTx
    NoOrder = NoOrder
INVARIANTS
    NoDoubleOrder
