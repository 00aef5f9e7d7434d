\* One run of the process, one key: a failed append and nothing else.
SPECIFICATION Spec
CONSTANTS
    Keys = {k1}
    MaxEntries = 4
    MaxFailures = 1
    MaxCrashes = 0
    MaxHands = 0
INVARIANT SeqGrows
