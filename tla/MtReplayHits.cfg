CONSTANTS
    None = None
    U64Max = 40
    Tid = {"m", "w", "f"}
    Pid = {1, 2, 3, 4, 5}
    Leader = "m"
    Injected = {"read"}
    Target = {0, 3, 7, 12, 18}
    Scenarios <- GoodOnly
    Faithful <- GoodOnly
    Ops = {"run_to_end", "watch"}
SPECIFICATION Spec
CHECK_DEADLOCK FALSE
INVARIANTS
    HitsByWriter
