SPECIFICATION FairSpec
CONSTANTS
    Slots = {s1, s2}
    NoSlot = NoSlot
    Handlers = {h1}
    PlanningEnabled = TRUE
    MaxTrajectories = 3
PROPERTIES CompletedStays
