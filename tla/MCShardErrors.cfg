SPECIFICATION MCSpec
CONSTANTS
    Keys = {k1}
    Values = {}
    NoValue = NoValue
    N = 3
    NoReplica = NoReplica
    MaxWrites = 1
    MaxTerm = 2
    MaxCrashes = 1
    MaxErrors = 1
PROPERTY LeaderTermsAdvance
CHECK_DEADLOCK FALSE
