SPECIFICATION LossySpec
VIEW View
SYMMETRY Symmetry
CONSTRAINT Drained
CONSTANTS
    Slots = {s1}
    NoSlot = NoSlot
    Handlers = {h1, h2}
    NoHandler = NoHandler
    PlanningEnabled = TRUE
    MaxTrajectories = 2
    Reports = {{s1}}
    Conditions = {"PASS_BENCH_ONLY"}
    MaxTx = 1
    MaxRx = 1
    MaxEvents = 1
    MaxConnections = 2
    SockCap = 1
PROPERTIES HeldNeverOlder
