SPECIFICATION MCSpec
CONSTANTS
    Keys = {k1}
    Values = {v1}
    NoValue = NoValue
    N = 3
    NoReplica = NoReplica
    MaxWrites = 1
    MaxTerm = 3
    MaxCrashes = 0
    MaxErrors = 1
INVARIANTS
    AckedSurvives
CHECK_DEADLOCK FALSE
