\* Three emails, two times and pages of one row while rows move and the user walks
CONSTANTS
    Email = {1, 2, 3}
    Time = {1, 2}
    limit = 1
    Top = Top
    End = End
    NoPage = NoPage
    MaxMoves = 1
    MaxClicks = 3
CHECK_DEADLOCK FALSE
SPECIFICATION Spec
INVARIANTS
    TypeOK
    NothingSkipped
    NothingRepeated
