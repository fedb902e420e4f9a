SPECIFICATION Spec
CONSTANTS
    Invoices = {i1}
    None = None
    MaxCalls = 3
    MaxAttempts = 2
    MaxFaults = 2
    Personas <- LeastPersistent
CHECK_DEADLOCK FALSE
INVARIANTS
    TypeOK
    OrderFollowsInvoice
    NoForgottenOrder
    EndStateTrue
    ReportedOnce
    SameCategoryNeverWorse
    ShuffleIsFair
    SharesAsDocumented
PROPERTIES
    InvoiceSettlesOnce
    EveryOrderSettles
    PaidOrderSucceeds
    IterationEnds
