SPECIFICATION Spec
CONSTANTS
    s1 = s1
    s2 = s2
    None = None
    Day = 2
    Schedules = {s1}
    Recurrences <- ManualRecurrences
    Grace = 1
    ByHand = {s1}
    MaxTime = 3
    MaxChanges = 2
    MaxFaults = 0
    MaxCrashes = 0
PROPERTIES
    ManualKeepsDate
