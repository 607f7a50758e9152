SPECIFICATION FairSpec
CONSTANTS
    Programs = {p, q}
    Sessions = {first, second}
    None = None
    MaxTokens = 3
INVARIANTS
    
    SpendsOnlyWhenDenied
PROPERTIES
    RequestEnds
CHECK_DEADLOCK FALSE
