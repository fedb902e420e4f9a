SPECIFICATION Spec
CONSTANTS
    Requests = {r1, r2, r3}
    Keys = {k1, k2, k3}
    Seats = {s1, s2}
    Areas = {std}
    r1 = r1
    r2 = r2
    r3 = r3
    k1 = k1
    k2 = k2
    k3 = k3
    s1 = s1
    s2 = s2
    std = std
    Key <- PlaceKeys
    After <- PlaceAfter
    Ids <- PlaceIds
    Count <- PlaceCount
    Stock <- PlaceStock
    MaxFaults = 0
CHECK_DEADLOCK FALSE
INVARIANTS
    OneOrderPerKey
