\* A worker walks through the rows while another one sends them
CONSTANTS
    Email = {e1, e2}
    TheBatch = b1
    Batch = {b1}
    BatchOf <- OneBatch
    Rank <- SomeOrder
    PageSize = 1
    Slot = {s1, s2}
    NoEmail = NoEmail
    NoSlot = NoSlot
    SmtpMaxAttempts = 2
    MaxStalledCount = 0
    AttemptBound = 2
    Faults = {}
CHECK_DEADLOCK FALSE
SPECIFICATION Spec
PROPERTIES
    ReconciliationRestores
