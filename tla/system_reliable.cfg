SPECIFICATION FairCalmSpec
CONSTANTS
    Slots = {s1}
    NoSlot = NoSlot
    Handlers = {h1}
    NoHandler = NoHandler
    PlanningEnabled = TRUE
    MaxTrajectories = 2
    Reports = {{s1}}
    Conditions = {"PASS_BENCH_ONLY", "LOCAL_OBSTACLE_BLOCKING", "RAW_COMMAND_INVALID"}
    MaxTx = 1
    MaxRx = 1
    MaxEvents = 3
    MaxConnections = 1
    SockCap = 1
INVARIANTS SystemTypeOK NoOrphanPause
PROPERTIES PauseEnds
