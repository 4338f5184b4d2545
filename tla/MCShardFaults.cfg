SPECIFICATION MCSpec
CONSTANTS
    Keys = {k1}
    Values = {}
    NoValue = NoValue
    N = 3
    NoReplica = NoReplica
    MaxWrites = 2
    MaxTerm = 3
    MaxCrashes = 2
    MaxErrors = 0
INVARIANTS
    AckedSurvives
    ElectionsSucceed
    RefusalCleansUp
PROPERTY LeaderTermsAdvance
CHECK_DEADLOCK FALSE
