\* One email, every fault the design answers for
CONSTANTS
    Email = {e1}
    TheBatch = b1
    Batch = {b1}
    BatchOf <- OneBatch
    Rank <- SomeOrder
    PageSize = 1
    Slot = {s1, s2}
    NoEmail = NoEmail
    NoSlot = NoSlot
    SmtpMaxAttempts = 2
    MaxStalledCount = 1
    AttemptBound = 3
    Faults = {"crash", "database", "stall", "lease", "evict", "flush", "replay"}
CHECK_DEADLOCK FALSE
SYMMETRY Symmetric
SPECIFICATION Spec
INVARIANTS
    TypeOK
    AcceptedAtMostOnce
    OutcomeHonest
    ClaimExclusive
    AmbiguousNeverRetried
PROPERTIES
    TerminalIsFinal
