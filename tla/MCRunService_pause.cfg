SPECIFICATION Spec
CONSTANTS
    r1 = r1
    r2 = r2
    s1 = s1
    None = None
    Runs = {r1}
    Sessions = {s1}
    SessionOf <- OneSession
    Cancelable = {r1}
    Pausable = {r1}
    MaxCalls <- OneCallEach
    MaxFaults = 0
    MaxCrashes = 0
INVARIANTS
    BlockedRunIsResumable
