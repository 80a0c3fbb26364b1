SPECIFICATION PlacesSpec
CONSTANTS
    Workspaces = {"w1", "w2"}
    Projects = {"isolated", "plain"}
    Sessions = {"s1", "s2"}
    Scenarios = {{"s1", "s2", "isolated", "plain"}}
    Providers = {"a"}
    Ephemeral = {"isolated"}
    Stored = {"w1", "w2"}
    MaxPlaceFaults = 1
    MaxRestarts = 1
    MaxUnlocked = 1
INVARIANTS
    StructureIsValid
CHECK_DEADLOCK FALSE
