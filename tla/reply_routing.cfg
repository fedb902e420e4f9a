SPECIFICATION FairSpec
CONSTANTS
    Requests = {r1, r2}
    Keys = {k1, k2}
    MaxFaults = 1
    None = None
INVARIANTS
    TypeOK
    ListenerOpen
    PanicIsLate
    NoLostReply
PROPERTIES
    EverythingEnds
