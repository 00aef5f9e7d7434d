\* An hour is six ticks, a beat is due every tick and stale after two.
SPECIFICATION HBSpec
CONSTANTS
    Interval = 1
    MaxStaleness = 2
    Hour = 6
    Slack = 0
    MaxTime = 8
    MaxFaults = 0
    MaxTampers = 1
PROPERTY OperatorLeavesSafeMode
CHECK_DEADLOCK FALSE
