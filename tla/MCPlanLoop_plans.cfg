SPECIFICATION BoundedSpec
CONSTANTS
    None = None
    Runs = {r1, r2, r3}
    UserRuns = {r1, r2, r3}
    PlanCount = 2
    RoundLimit = 2
    IdleLimit = 2
    MaxFaults = 1
    MaxCrashes = 1
SYMMETRY Symmetry
INVARIANTS
    TypeOK
    RoundBudget
    NoStrayRound
    OneLoop
    NoPlanningInLoop
PROPERTIES
    PauseIsKept
