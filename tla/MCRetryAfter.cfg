\* The parts of MCToolkits.cfg with a window that the limits do not divide evenly; the
\* parts other than the MCP server do as little as their bounds allow.
SPECIFICATION MCSpec
CONSTANTS
    h1 = h1
    h2 = h2
    stranger = stranger
    visitor = visitor
    paying = paying
    q1 = q1
    q2 = q2
    q3 = q3
    p1 = p1
    p2 = p2
    p3 = p3
    a1 = a1
    a2 = a2
    DriftThreshold = 30000
    Drifts = {25004, 28000, 35000}
    MaxSteps = 0
    Parts = {p1, p2, p3}
    Contents = {1, 2}
    MaxVersions = 0
    Accounts = {a1, a2}
    BaseRate = 2
    FloorNum = 3
    FloorDen = 4
    BreakOnNegative = TRUE
    Amounts = {1, 2}
    MaxAccountOps = 0
    Tokens = {stranger, visitor, paying}
    TokenTier <- TierOf
    Addresses = {1}
    Handlers = {h1, h2}
    Window = 3
    FreeLimit = 1
    ProLimit = 2
    Stale = 6
    Cleanup = 1
    Lag = 0
    LastSecond = 5
    Catalogue <- SomeControls
    Frameworks = {"GDPR", "EU", "HIPAA"}
    FreeFrameworks = {"GDPR"}
    FreeControls = 1
    ProControls = 3
    Resources <- SomeResources
    ToolCalls <- AnyToolCalls
    Launches <- AnyLaunches
    Requests = {q1, q2, q3}
    Clients = {1}
    Lists = {1, 2}
    Span = 2
    Rate = 1
    ScanInputs = TRUE
    ScanOutputs = TRUE
    PinSchema = TRUE
    LastMoment = 0
    MaxLost = 0
    LineLimit = 2
    ScanLines = TRUE
    ScanReplies = TRUE
    BlockOnMatch = TRUE
    MaxLines = 0
    Goals = {1, 2}
    Depths = {0, 4, 5}
    MaxAmendments = 0
    MaxAttempts = 0
    Servers <- AnyServers
    Burst = 2
    ProbeLength = 3
    MaxFailures = 0
    Providers = {"anthropic", "openai", "gemini", "ollama", "openrouter", "other"}
    Texts = {"t1", "t2"}
    MaxMessages = 0
    MaxBlocks = 0
    Chats = {c1}
    Kills = {k1}
    Revivals = {v1}
    MaxMishaps = 0
    Notes = {n1, n2}
    NameOf <- SameName
    Stores = {s1}
    RowLimit = 1
    AutoQuarantine = TRUE
    Watch = TRUE
    Interval = 1
    LastTick = 0
    MaxWrites = 0
    Events <- LoveEvents
    FirstScores = {850, 620}
    Beta = 100
    Gamma = 50
    Kappa = 20
    MostIndependent = 300
    TimeSteps = {1, 3}
    WindowSize = 2
    MaxLoveOps = 0
INVARIANT RetryAfterHonoured
CHECK_DEADLOCK FALSE
