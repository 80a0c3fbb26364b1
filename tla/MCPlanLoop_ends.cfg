SPECIFICATION FairSpec
CONSTANTS
    None = None
    Runs = {r1, r2}
    UserRuns = {r1}
    PlanCount = 1
    RoundLimit = 2
    IdleLimit = 2
    MaxFaults = 1
    MaxCrashes = 0
PROPERTIES
    LoopEnds
