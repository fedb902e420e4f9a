SPECIFICATION Spec
CONSTANTS
    Invoices = {i1}
    None = None
    MaxCalls = 3
    MaxAttempts = 1
    MaxFaults = 0
    Personas <- LeastPersistent
CHECK_DEADLOCK FALSE
PROPERTIES
    OnlyPendingIsPaid
