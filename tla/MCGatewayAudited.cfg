SPECIFICATION GatewaySpec
CONSTANTS
    Requests = {r1}
    Workers = 1
    Interval = 1
    MaxStaleness = 2
    Hour = 6
    Slack = 0
    MaxTime = 1
    MaxFaults = 0
    MaxTampers = 0
INVARIANT AllAudited
CHECK_DEADLOCK FALSE
