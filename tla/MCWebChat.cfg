SPECIFICATION Spec
CONSTANTS
    Own = {a}
    Peer = {p, q}
    History = {h, i}
    PageSize = 1
    MaxOpens = 2
    MaxEvents = 1
INVARIANTS
    TypeOK
    NoDuplicates
    
    AscendingForReader
    LoadingIsPending
PROPERTY
    RecalledStays
CHECK_DEADLOCK FALSE
