\* Two requests at a time, of every kind, over up to three senders
CONSTANTS
    a1 = a1
    a2 = a2
    Sender = {s1, s2, s3}
    Address = {a1, a2, a3}
    Identity = {a1, a2}
    Body <- Bodies
    Request = {r1, r2}
    NoRow = NoRow
    NoSender = NoSender
CHECK_DEADLOCK FALSE
SYMMETRY Symmetric
SPECIFICATION Spec
INVARIANTS
    TypeOK
    ChoicesSerialize
PROPERTIES
    SerialProtects
    DefaultProtected
