SPECIFICATION MCSpec
CONSTANTS
    Keys = {k1}
    Values = {v1}
    NoValue = NoValue
    N = 3
    NoReplica = NoReplica
    MaxWrites = 1
    MaxTerm = 3
    MaxCrashes = 1
    MaxErrors = 0
INVARIANTS
    ReadsCommitted
CHECK_DEADLOCK FALSE
