SPECIFICATION BoundedSpec
CONSTANTS
    r1 = r1
    r2 = r2
    s1 = s1
    None = None
    Runs = {r1, r2}
    Sessions = {s1}
    SessionOf <- OneSession
    Cancelable = {r1, r2}
    Pausable = {r1, r2}
    MaxCalls <- TwoCallsEach
    MaxFaults = 2
    MaxCrashes = 1
SYMMETRY Symmetry
INVARIANTS
    TypeOK
    SingleWriter
    GoneIsRecorded
    TerminalEventLast
PROPERTIES
    CancelWins
    LifecycleSpec
