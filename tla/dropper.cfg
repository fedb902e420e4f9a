SPECIFICATION Spec
CONSTANTS
    Clients = {c1, c2, c3, c4, c5, c6}
    Seats = {s1, s2}
    Areas = {num, std}
    c1 = c1
    c2 = c2
    c3 = c3
    c4 = c4
    c5 = c5
    c6 = c6
    s1 = s1
    s2 = s2
    num = num
    std = std
    Missing = {num}
    Ids <- MCIds
    Count <- MCCount
    AreaOf <- MCAreaOf
    Stock <- MCStock
    MaxRetries = 2
    MaxFaults = 1
CHECK_DEADLOCK FALSE
INVARIANTS
    TypeOK
    KeysAgree
    CountersAgree
    BusyNeedsWriters
PROPERTIES
    ImplementsCache
