SPECIFICATION LiveSpec
CONSTANTS
    w1 = w1
    w2 = w2
    rd = rd
    doc = doc
    NoResource = NoResource
    Writes = {w1, w2}
    Reads = {rd}
    Resources = {doc}
    ResourceOf <- OneResource
    Guarded = {w1}
    MaxTurns = 3
    MaxToolCalls = 2
    MaxToolTurns = 2
    MaxChecks = 1
    MaxRepairs = 1
    MaxEmpties = 1
    FailureLimit = 1
    RepeatLimit = 2
    BlockLimit = 1
    ReplyLength = 2
    MaxRuns = 2
    MaxMishaps = 1
    MaxEvents = 3
    MaxStreamFaults = 2
    Readers = {"r"}
    ToolCalls = {once}
    Repeatable = {2}
    Catalog = catalog
    MaxSessions = 2
    MaxSettings = 2
    MaxVersions = 2
    Callbacks = {"c1", "c2"}
    Askers = {"a1", "a2"}
    MaxFlows = 2
    MaxTokens = 3
    MaxAuthFaults = 1
    MaxPrompts = 2
    Chats = {"chat"}
    ChatOf <- Chat
    MemoryOnly = {}
    WithFiles = {1}
    MaxReconnects = 1
    MaxConsoleFaults = 2
    MaxReloads = 1
    Controls = {"k1", "k2"}
    Main = "main"
    MaxChildren = 2
    MaxCalls = 2
    MaxDesktops = 2
    MaxShellFaults = 1
    Stoppers = {"x", "y"}
    Configs = {0, 1, 2}
    MaxTunnels = 2
    MaxEdits = 2
    MaxTunnelFaults = 1
    MaxAttempts = 2
    StableChecks = 2
    MaxPolls = 3
    MaxCommandFaults = 1
INVARIANTS
    LiveTypeOK
    AllAccounted
    WritesOnce
    EventsKept
    EffectsAreTrue
    ChildrenKnown
    TokenPresentedOnce
    PromptKept
PROPERTIES
    NobodyWaitsForEver
CHECK_DEADLOCK FALSE
