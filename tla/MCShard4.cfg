SPECIFICATION MCSpec
CONSTANTS
    Keys = {k1}
    Values = {v1}
    NoValue = NoValue
    NoReplica = NoReplica
    N = 4
    MaxWrites = 1
    MaxTerm = 2
INVARIANTS
    AckedOnMajority
    NoTraceOfRejected
