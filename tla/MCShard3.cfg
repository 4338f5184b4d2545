SPECIFICATION MCSpec
CONSTANTS
    Keys = {k1}
    Values = {v1}
    NoValue = NoValue
    NoReplica = NoReplica
    N = 3
    MaxWrites = 2
    MaxTerm = 3
INVARIANTS
    TypeOK
    AckedOnMajority
    NoTraceOfRejected
    StateMatchesLog
    LeaderIsUpToDate
    AvailableWithMajority
PROPERTIES
    CommittedForever
    TermsAdvance
    ImplementsService
