SPECIFICATION FairSpec
CONSTANTS
    Requests = {r1, r2}
    Keys = {k1, k2}
    Seats = {s1}
    Areas = {std}
    r1 = r1
    r2 = r2
    r3 = r3
    k1 = k1
    k2 = k2
    k3 = k3
    s1 = s1
    s2 = s2
    std = std
    Key <- PlaceKeys
    After <- PlaceAfter
    Ids <- PlaceIds
    Count <- PlaceCount
    Stock <- FewPlaces
    MaxFaults = 2
CHECK_DEADLOCK FALSE
INVARIANTS
    TypeOK
    NoLostPlace
    AnswersTrue
PROPERTIES
    EverythingEnds
