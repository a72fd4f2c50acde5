\* The policy is tightened, to a delay longer than its key lives, while two workers ask,
\* crash and seed, until keys expire, and Redis comes back empty under them
CONSTANTS
    Email = {e1, e2}
    Worker = {w1, w2}
    NoEmail = NoEmail
    HourLength = 2
    ReservationTtl = 2
    Policy <- BothPolicies
    PolicyChange <- Tightened
    Backoff = 1
    MaxLag = 1
    MaxTime = 4
    Faults = {"crash", "flush"}
CHECK_DEADLOCK FALSE
SYMMETRY Symmetric
SPECIFICATION Spec
INVARIANTS
    TypeOK
    Spaced
    ReservedOnce
PROPERTIES
    QuotaKept
