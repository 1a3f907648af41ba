SPECIFICATION FairSpec
CONSTANTS
    Users = {alice, bob}
    Calls = {c1, c2}
    NoUser = NoUser
    MaxPairs = 3
    MaxReloads = 1
INVARIANT TypeOK
PROPERTIES
    
    MixedUpOnlyByLateRefresh
    ThrownOutOnlyWhenOver
    CallsEnd
CHECK_DEADLOCK FALSE
