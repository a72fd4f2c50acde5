\* A retry that crosses the hour
CONSTANTS
    Email = {e1, e2}
    Worker = {w1, w2}
    NoEmail = NoEmail
    HourLength = 2
    ReservationTtl = 3
    Policy <- OneAnHour
    PolicyChange <- NoChange
    Backoff = 1
    MaxLag = 1
    MaxTime = 4
    Faults = {}
CHECK_DEADLOCK FALSE
SYMMETRY Symmetric
SPECIFICATION Spec
INVARIANTS
    AcceptedWithin
