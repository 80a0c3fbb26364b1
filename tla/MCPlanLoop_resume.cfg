SPECIFICATION Spec
CONSTANTS
    None = None
    Runs = {r1, r2}
    UserRuns = {r1, r2}
    PlanCount = 2
    RoundLimit = 2
    IdleLimit = 2
    MaxFaults = 0
    MaxCrashes = 0
INVARIANTS
    PausedLoopIsResumable
