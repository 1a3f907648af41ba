SPECIFICATION FairSpec
CONSTANTS
    Slots = {1, 2, 3}
    MaxTokens = 2
    MaxFailures = 2
    ErrorEvents = FALSE
INVARIANTS
    TypeOK
    
    

    
CHECK_DEADLOCK FALSE
