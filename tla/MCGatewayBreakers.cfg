SPECIFICATION MCSpec
CONSTANTS
    ShardCount = 2
    Keys = {k1, k2}
    Values = {}
    NoValue = NoValue
    fnv1a_64 <- Hashes
    StorageFaults = TRUE
    FailureThreshold = 2
    OpenDuration = 1
    Threads = {t1, t2}
    MaxRetries = 1
    MaxCount = 20
    MaxRequests = 3
    MaxOthers = 2
SYMMETRY ThreadSymmetry
INVARIANTS
    TypeOK
    ClosedBelowThreshold
    OpenShields
    HealthyShardServes
    MetricsAddUp
