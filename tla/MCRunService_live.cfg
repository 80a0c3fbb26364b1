SPECIFICATION FairSpec
CONSTANTS
    r1 = r1
    r2 = r2
    s1 = s1
    None = None
    Runs = {r1, r2}
    Sessions = {s1}
    SessionOf <- OneSession
    Cancelable = {r2}
    Pausable = {r2}
    MaxCalls <- OnlySecond
    MaxFaults = 0
    MaxCrashes = 0
PROPERTIES
    StopsReachAll
    EveryRunEnds
