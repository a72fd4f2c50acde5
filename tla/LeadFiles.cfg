\* Small files of every kind, previewed and parsed, with a second one chosen meanwhile
CONSTANTS
    File <- Files
    NoFile <- Nobody
    Spare <- Spares
    Address <- Addresses
    Heading <- Headings
    Other <- Word
    Empty <- Nothing
    Space <- Blank
    Lower <- LowerCase
    maxLeads = 3
    invalidDetailLimit = 1
    MaxReading = 1
CHECK_DEADLOCK FALSE
SPECIFICATION Spec
INVARIANTS
    TypeOK
    LeadsDistinct
    EveryRowCounted
    PreviewAgrees
