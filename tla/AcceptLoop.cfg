SPECIFICATION Spec
CONSTANTS
    Clients = {c1, c2}
    Workers = {w1, w2}
    NoAddress = NoAddress
INVARIANT OwnAddress
CHECK_DEADLOCK FALSE
