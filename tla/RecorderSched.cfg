CONSTANTS
    t1 = t1
    t2 = t2
    t3 = t3
    None = None
    Tid <- Tid3
    Leader = t1
    Env = {"exit_group", "leader_exit", "late_wait"}
SPECIFICATION Spec
SYMMETRY Others
CHECK_DEADLOCK FALSE
INVARIANTS
    TypeOK
    OneRuns
    NoThreadLost
    VforkParentParked
    PhaseAgrees
    SignalsRedelivered
    WaitsForSomeone
    
