SPECIFICATION FairSpec
CONSTANTS
    Placers = {p1, p2}
    Handlers = {h1, h2}
    Seats = {s1, s2, s3}
    Areas = {num, std}
    s1 = s1
    s2 = s2
    s3 = s3
    s4 = s4
    num = num
    std = std
    AreaOf <- MCAreaOf
    Numbered = {num}
    Requests <- LiveRequests
    Outcomes = {"paid", "expired"}
    MaxAttempts = 2
    FaultKinds = {"abort", "crash", "unsure", "lost"}
    MaxFaults = 1
    NoTx = NoTx
    NoOrder = NoOrder
INVARIANTS
    OneBatchPerHandling
    AvailabilityConverges
PROPERTIES
    EveryRequestEnds
    EveryHoldEnds
