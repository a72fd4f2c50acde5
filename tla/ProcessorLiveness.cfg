\* No faults: SMTP errors, retries and a rate denial of two emails in one batch
CONSTANTS
    Email = {e1, e2}
    TheBatch = b1
    Batch = {b1}
    BatchOf <- OneBatch
    Rank <- SomeOrder
    PageSize = 3
    Slot = {s1, s2}
    NoEmail = NoEmail
    NoSlot = NoSlot
    SmtpMaxAttempts = 2
    MaxStalledCount = 0
    AttemptBound = 3
    Faults = {}
CHECK_DEADLOCK FALSE
SPECIFICATION FairSpec
INVARIANTS
    VerdictHonest
PROPERTIES
    ImplementsContract
    EverythingSettles
