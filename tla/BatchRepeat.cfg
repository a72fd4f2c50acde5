\* A request is repeated while the first one still runs
CONSTANTS
    s1 = s1
    s2 = s2
    Key = {k1}
    Request = {r1, r2}
    Sender = {s1, s2}
    Content <- Forms
    ChunkSize = 1
    PageSize = 1
    NoRequest = NoRequest
    NoContent = NoContent
    MaxVersion = 3
    Faults = {"network"}
CHECK_DEADLOCK FALSE
SYMMETRY Interchangeable
SPECIFICATION Spec
PROPERTIES
    RepeatReturnsBatch
