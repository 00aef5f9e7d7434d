\* One request, a process that starts and serves it: no append() that raises.
SPECIFICATION ClawSpec
CONSTANTS
    Requests = {r1}
    WriteInterval = 1
    StaleAfter = 2
    PostTime = 1
    EndTime = 1
    MaxErrors = 0
    MaxTampers = 0
INVARIANT EveryRequestAudited
CHECK_DEADLOCK FALSE
