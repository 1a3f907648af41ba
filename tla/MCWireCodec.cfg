SPECIFICATION Spec
CONSTANTS
    CheckedClasses <- MCClasses
    RecursionLimit = 1
    MaxWrites = 2
INVARIANTS
    ReadsTheMerge
    ForeignRecordsKept
    RewrittenIsCanonical
CHECK_DEADLOCK FALSE
