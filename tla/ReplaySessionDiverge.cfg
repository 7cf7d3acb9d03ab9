CONSTANTS
    None = None
    U64Max = 15
    Pid = {1, 2, 3, 4, 5, 6}
    Records <- MCEdited
    Runs <- AnyRun
    Injected = {"read"}
    Target = {1, 5, 8}
    Interval = {2}
    MappedFrom = 1
    Ops = {"watch", "clear_watch"}
SPECIFICATION Spec
CHECK_DEADLOCK FALSE
INVARIANTS
    SyscallsVerified
    
    WatchFollows
