SPECIFICATION Spec
CONSTANTS
    Slots = {1, 2, 3}
    MaxTokens = 2
    MaxFailures = 2
    ErrorEvents = TRUE
INVARIANTS
    NeverGivesUp
CHECK_DEADLOCK FALSE
