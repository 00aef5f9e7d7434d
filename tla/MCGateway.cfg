\* Two requests that share one thread of the pool, an hour of six ticks, a beat due
\* every tick and stale after two, one failing operation.
SPECIFICATION GatewaySpec
CONSTANTS
    Requests = {r1, r2}
    Workers = 1
    Interval = 1
    MaxStaleness = 2
    Hour = 6
    Slack = 0
    MaxTime = 4
    MaxFaults = 1
    MaxTampers = 1
INVARIANTS
    GatewayTypeOK
    LossDetected
    LogIsTrue
PROPERTIES
    NeverAutoCreates
    OnlyOperatorLeavesSafeMode
    ImplementsProxy
    AdmittedAreAnswered
CHECK_DEADLOCK FALSE
