CONSTANTS
    None = None
    U64Max = 40
    Tid = {"m", "w", "f"}
    Pid = {1, 2, 3, 4, 5}
    Leader = "m"
    Injected = {"read"}
    Target = {0, 3, 7, 12, 18}
    Scenarios <- AnyScenario
    Faithful <- GoodOnly
    Ops = {"run_to", "step_to", "run_to_end", "watch", "clear_watch", "drop"}
SPECIFICATION Spec
CHECK_DEADLOCK FALSE
INVARIANTS
    TablesAgree
    MtInStep
    FollowsSwitches
    
    SignalsReach
    
