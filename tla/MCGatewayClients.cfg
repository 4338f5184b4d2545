SPECIFICATION MCFairSpec
CONSTANTS
    ShardCount = 1
    Keys = {k1}
    Values = {v1}
    NoValue = NoValue
    fnv1a_64 <- Hashes
    StorageFaults = FALSE
    FailureThreshold = 2
    OpenDuration = 2
    Threads = {t1, t2}
    MaxRetries = 1
    MaxCount = 0
    MaxRequests = 1
    MaxOthers = 1
PROPERTIES
    ImplementsConcurrentKV
    EveryRequestAnswered
    BreakerRecovers
