CONSTANTS
    None = None
    Unreadable = Unreadable
    U64Max = 15
    Traces <- MCTraces
    Input <- MCInput
    Faults = {"diverge", "respawn", "hang"}
    MaxSeq = 12
SPECIFICATION Spec
CHECK_DEADLOCK FALSE
INVARIANTS
    RepliesWellFormed
    StopsAreTrue
    
PROPERTIES
    
    RequestsServed
