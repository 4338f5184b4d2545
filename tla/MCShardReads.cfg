SPECIFICATION MCSpec
CONSTANTS
    Keys = {k1}
    Values = {v1}
    NoValue = NoValue
    NoReplica = NoReplica
    N = 3
    MaxWrites = 2
    MaxTerm = 3
INVARIANT ReadsNeedMajority
