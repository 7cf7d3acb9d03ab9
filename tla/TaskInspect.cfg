\* The decoders over ten binaries.  MAX_GOROUTINES is reached by allgs and
\* MAX_LISTED and MAX_TASKS by the tasks, so the caps are met and passed.
SPECIFICATION Spec

\* A target whose memory is damaged, or which has done all it may, stays as it is.
CHECK_DEADLOCK FALSE

CONSTANTS
    None = None
    MAX_GOROUTINES = 4
    MAX_CHILD_DEPTH = 2
    MAX_SHARDS = 2
    MAX_LISTED = 2
    MAX_TASKS = 4
    MAX_AWAIT_DEPTH = 2
    FUTURE_OFFSET = 1
    Image <- MCImage
    Thread = {1, 2}
    GoSlots = {11, 13, 14}
    GoStates <- MCGoStates
    Header = {500, 510, 520}
    Configs <- MCConfigs

INVARIANTS
    
    
    
    IdsKeepMeaning
