SPECIFICATION HistorySpec
CONSTANTS
    Slots = {s1}
    NoSlot = NoSlot
    Handlers = {h1, h2}
    PlanningEnabled = TRUE
    MaxTrajectories = 2
SYMMETRY Symmetry
VIEW HistoryView
INVARIANTS NeverResumed
