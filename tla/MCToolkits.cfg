SPECIFICATION MCSpec
CONSTANTS
    h1 = h1
    h2 = h2
    stranger = stranger
    visitor = visitor
    paying = paying
    q1 = q1
    q2 = q2
    q3 = q3
    p1 = p1
    p2 = p2
    p3 = p3
    a1 = a1
    a2 = a2
    DriftThreshold = 30000
    Drifts = {25004, 28000, 35000}
    MaxSteps = 2
    Parts = {p1, p2, p3}
    Contents = {1, 2}
    MaxVersions = 4
    Accounts = {a1, a2}
    BaseRate = 2
    FloorNum = 3
    FloorDen = 4
    BreakOnNegative = TRUE
    Amounts = {1, 2}
    MaxAccountOps = 4
    Tokens = {stranger, visitor, paying}
    TokenTier <- TierOf
    Addresses = {1}
    Handlers = {h1, h2}
    Window = 2
    FreeLimit = 1
    ProLimit = 2
    Stale = 4
    Cleanup = 1
    Lag = 0
    LastSecond = 6
    Catalogue <- SomeControls
    Frameworks = {"GDPR", "EU", "HIPAA"}
    FreeFrameworks = {"GDPR"}
    FreeControls = 1
    ProControls = 3
    Resources <- SomeResources
    ToolCalls <- AnyToolCalls
    Launches <- AnyLaunches
    Requests = {q1, q2, q3}
    Clients = {1}
    Lists = {1, 2}
    Span = 2
    Rate = 1
    ScanInputs = TRUE
    ScanOutputs = TRUE
    PinSchema = TRUE
    LastMoment = 2
    MaxLost = 1
    LineLimit = 2
    ScanLines = TRUE
    ScanReplies = TRUE
    BlockOnMatch = TRUE
    MaxLines = 3
    Goals = {1, 2}
    Depths = {0, 4, 5}
    MaxAmendments = 2
    MaxAttempts = 2
    Servers <- AnyServers
    Burst = 2
    ProbeLength = 3
    MaxFailures = 1
    Providers = {"anthropic", "openai", "gemini", "ollama", "openrouter", "other"}
    Texts = {"t1", "t2"}
    MaxMessages = 2
    MaxBlocks = 1
    Chats = {c1}
    Kills = {k1}
    Revivals = {v1}
    MaxMishaps = 1
    Notes = {n1, n2}
    NameOf <- SameName
    Stores = {s1}
    RowLimit = 1
    AutoQuarantine = TRUE
    Watch = TRUE
    Interval = 1
    LastTick = 1
    MaxWrites = 2
    Events <- LoveEvents
    FirstScores = {850, 620}
    Beta = 100
    Gamma = 50
    Kappa = 20
    MostIndependent = 300
    TimeSteps = {1, 3}
    WindowSize = 2
    MaxLoveOps = 6
INVARIANTS
    RecordsAgree
    RatesKept
    RelaysFaithful
CHECK_DEADLOCK FALSE
