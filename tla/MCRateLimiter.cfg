SPECIFICATION MCSpec
CONSTANTS
    Clients = {c1, c2}
    Rate = 2
    Burst = 7
    Token = 3
    MaxTime = 6
    MaxAdmitted = 4
INVARIANTS
    RateBound
    BucketIsTightest
CHECK_DEADLOCK FALSE
