SPECIFICATION ComponentsSpec
CONSTANTS
    RetainMessages = 2
    CallsPerReply = 2
    MaxEntries = 6
    Readers = {"r"}
    MaxLines = 4
    MaxSessionFaults = 2
    key = key
    volatile = volatile
    NoKey = NoKey
    Keys = {key, volatile}
    Volatile = {volatile}
    Retention = 1
    MaxStarts = 3
    MaxStoreFaults = 2
    Deciders = {"a", "b"}
    OneTimeOnly = {1}
    MaxRequests = 2
    MaxDecisionFaults = 1
    Workspaces = {"w1", "w2"}
    Projects = {"isolated", "plain"}
    Sessions = {"s1"}
    Scenarios = {{"s1", "isolated"}, {"s1", "plain"}}
    Providers = {"provider"}
    Ephemeral = {"isolated"}
    Stored = {"w1", "w2"}
    MaxPlaceFaults = 1
    MaxRestarts = 1
    MaxUnlocked = 1
    Kinds = {"open", "close", "channel", "role"}
    Parts = {"ana", "lysis", "final"}
    Hidden <- HiddenWords
    Answers <- AnswerWords
    MaxHold = 2
    MaxAtoms = 4
    Meant <- Answer
    MaxAttempts = 2
    TokenBudget = 9
    MaxModelFaults = 2
    MaxModelCalls = 2
    Speakers <- Speaking
    NoScope = NoScope
    Notes = {"n1", "n2"}
    Refused = {}
    Alike <- SameInOtherWords
    Operator = Operator
    OperatorScopes <- OperatorWrites
    ScopeCap = 1
    MaxTasks = 1
    MaxMemories = 2
    MaxMemoryFaults = 1
    MaxChanges = 1
    Editors = {"e1", "e2"}
    ServiceFields = {"name", "budget"}
    ModelProviders = {"p", "q"}
    CodexProviders = {"q"}
    Servers = {"s"}
    MaxUpdates = 3
    MaxSettingFaults = 1
    Services = {"s1", "s2"}
    Isolated = {"p"}
    PoolCapacity = 1
    MaxDisks = 2
    MaxProcesses = 3
    MaxDiskFaults = 1
    Spaces = {"w1", "w2"}
    Folders = {"p"}
    Talks = {"t1", "t2"}
    MaxWrites = 3
    MaxRestores = 2
    Chosen = {"option"}
    AskIds = {"q1", "q2"}
    MaxWaiting = 1
    MaxBeats = 1
    MaxPosts = 2
    MaxCredits = 2
    Redeemers = {"r1", "r2"}
    MaxQuotaFaults = 1
    PlanNames = {"p1", "p2"}
    MaxPlanSteps = 2
    MaxPlanned = 2
    MaxToolResults = 2
    Subjects = {"v1", "v2", "s1", "update"}
    SubjectOf <- SubjectsOf
    VolatileSessions = {"hidden"}
    MaxStored = 1
    MaxNotices = 3
INVARIANTS
    ComponentsTypeOK
    NothingForgotten
    PastHolds
    RecordsHold
    PeopleDecide
    NothingIsOrphaned
    ShownAsStored
    ProviderIsTrue
    IsolationKept
    SettingsHold
    IsolationOfDisks
    RestoredStarts
CHECK_DEADLOCK FALSE
