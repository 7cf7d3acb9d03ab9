CONSTANTS
    t1 = t1
    t2 = t2
    t3 = t3
    None = None
    Tid <- Tid3
    Leader = t1
    Env = {"exit_group"}
    MaxTrace = 9
SPECIFICATION TraceSpec
SYMMETRY Others
CHECK_DEADLOCK FALSE
INVARIANTS
    SpawnBeforeUse
    SwitchesExplain
    HistoriesWhole
