SPECIFICATION Spec
CONSTANTS
    Requests = {r1, r2}
    Keys = {k1, k2}
    MaxFaults = 0
    None = None
INVARIANTS
    LateReplyIsHarmless
