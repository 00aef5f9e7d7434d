\* Two chain keys: AUDIT_CHAIN_KEY unset, or changed between two runs.
SPECIFICATION Spec
CONSTANTS
    Keys = {k1, k2}
    MaxEntries = 4
    MaxFailures = 2
    MaxCrashes = 2
    MaxHands = 1
INVARIANTS
    TypeOK
    BreaksAreExplained
    AcknowledgedVerifiable
PROPERTIES
    BrokenStaysBroken
    AppendOnly
