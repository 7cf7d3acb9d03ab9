CONSTANTS
    None = None
    U64Max = 15
    Pid = {1, 2, 3, 4, 5, 6}
    Records <- MCRecords
    Runs <- OnlyRecorded
    Injected = {"read"}
    Target = {0, 3, 4, 7, 8}
    Interval = {0, 1, 3}
    MappedFrom = 0
    Ops = {"step_to", "restore_to", "run_to_end", "drop"}
SPECIFICATION Spec
CHECK_DEADLOCK FALSE
INVARIANTS
    InStep
    SnapshotsPristine
    NoOrphans
PROPERTIES
    ImplementsTimeTravel
