\* One dialog that repeats and edits its request while the earlier ones still run
CONSTANTS
    s1 = s1
    s2 = s2
    Key = {k1}
    Request = {r1, r2, r3}
    Sender = {s1, s2}
    Content <- Forms
    ChunkSize = 1
    PageSize = 1
    NoRequest = NoRequest
    NoContent = NoContent
    MaxVersion = 2
    Faults = {"database", "queue", "network"}
CHECK_DEADLOCK FALSE
SYMMETRY Interchangeable
SPECIFICATION Spec
INVARIANTS
    TypeOK
    AnswersAgree
    SuccessQueued
PROPERTIES
    ActiveSender
    ImplementsBatchContract
