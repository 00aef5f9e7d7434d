SPECIFICATION MCSpec
CONSTANTS
    w1 = w1
    w2 = w2
    v1 = v1
    none = none
    c1 = c1
    c2 = c2
    i1 = i1
    t1 = t1
    t2 = t2
    u1 = u1
    u2 = u2
    f = f
    r1 = r1
    r2 = r2
    Writers = {w1, w2}
    Readers = {v1}
    NoThread = none
    MaxEntries = 3
    MaxFailures = 2
    Identities = {i1}
    Callers = {c1, c2}
    Minute = 2
    Hour = 4
    PerMinute = 2
    PerHour = 3
    Delay = 1
    EndOfTime = 7
    Threads = {t1, t2}
    Users = {u1, u2}
    Fingerprints = {f}
    Bodies <- SomeBodies
    PriorCounts = {4}
    TTL = 0
    MaxTime = 1
    MaxIds = 2
    MaxFaults = 1
    Requests = {r1, r2}
    WriteInterval = 1
    StaleAfter = 2
    PostTime = 1
    EndTime = 4
    MaxErrors = 1
    MaxTampers = 1
INVARIANTS
    TypesOK
    VerdictSound
    WholeUntilSpoilt
    GrantsSpaced
    RefusedOnlyWhenBusy
    ApprovedOnceAndBacked
    StaleTierIsStricter
    LinesAreTrue
    LossNoticed
PROPERTIES
    ProxyPromise
    NeverRevived
CHECK_DEADLOCK FALSE
