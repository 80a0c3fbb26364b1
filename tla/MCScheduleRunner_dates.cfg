SPECIFICATION FairSpec
CONSTANTS
    s1 = s1
    s2 = s2
    None = None
    Day = 2
    Schedules = {s1, s2}
    Recurrences <- DatesRecurrences
    Grace = 1
    ByHand = {s2}
    MaxTime = 3
    MaxChanges = 2
    MaxFaults = 1
    MaxCrashes = 1
INVARIANTS
    TypeOK
PROPERTIES
    RecordedOnce
    MissedIsSkipped
    DueIsServed
