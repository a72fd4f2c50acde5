\* An error after the commit of recordAccepted
CONSTANTS
    Email = {e1}
    TheBatch = b1
    Batch = {b1}
    BatchOf <- OneBatch
    Rank <- SomeOrder
    PageSize = 1
    Slot = {s1}
    NoEmail = NoEmail
    NoSlot = NoSlot
    SmtpMaxAttempts = 2
    MaxStalledCount = 0
    AttemptBound = 2
    Faults = {"database"}
CHECK_DEADLOCK FALSE
SPECIFICATION Spec
INVARIANTS
    SentIsAudited
