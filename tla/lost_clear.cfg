SPECIFICATION LossySpec
VIEW View
CONSTANTS
    Slots = {s1}
    NoSlot = NoSlot
    Handlers = {h1, h2}
    NoHandler = NoHandler
    PlanningEnabled = TRUE
    MaxTrajectories = 1
    Reports = {{s1}}
    Conditions = {"PASS_BENCH_ONLY", "LOCAL_OBSTACLE_BLOCKING"}
    MaxTx = 1
    MaxRx = 1
    MaxEvents = 3
    MaxConnections = 2
    SockCap = 1
INVARIANTS NoOrphanPause
