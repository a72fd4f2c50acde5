\* Redis comes back empty, under running workers or when none runs; the workers, which
\* also crash, seed it when they start
CONSTANTS
    Email = {e1, e2}
    Worker = {w1, w2}
    NoEmail = NoEmail
    HourLength = 2
    ReservationTtl = 3
    Policy <- OneAnHour
    PolicyChange <- NoChange
    Backoff = 1
    MaxLag = 1
    MaxTime = 3
    Faults = {"crash", "flush", "outage"}
CHECK_DEADLOCK FALSE
SYMMETRY Symmetric
SPECIFICATION Spec
INVARIANTS
    RecordedWithin
PROPERTIES
    QuotaKept
