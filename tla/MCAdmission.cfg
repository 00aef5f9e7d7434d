\* The gate: two credentials, one fault.  The limiter: two identities, two requests
\* per window of two ticks, and time for the window to fill and empty twice.
SPECIFICATION MCSpec
CONSTANTS
    u1 = u1
    u2 = u2
    f = f
    i1 = i1
    i2 = i2
    Users = {u1, u2}
    Bodies <- SomeBodies
    Fingerprints = {f}
    PriorCounts = {3}
    TTL = 1
    MaxTime = 2
    MaxIds = 2
    MaxFaults = 1
    Identities = {i1, i2}
    RPM = 2
    Window = 2
    LastTime = 6
INVARIANTS
    HitlTypeOK
    OneApprovalEach
    ApprovalsBacked
    HistorySurvives
    WindowTypeOK
    AtMostRPM
    RefusedOnlyWhenFull
PROPERTY RetryNeverEscalates
SYMMETRY SwapUsers
CHECK_DEADLOCK FALSE
