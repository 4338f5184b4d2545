SPECIFICATION Spec
CONSTANTS
    Workers = {w1, w2}
    Signals = {SIGINT, SIGTERM}
    MaxRequest = 2
    MaxBody = 1
INVARIANTS
    ClosedOnce
    SocketReleased
    WholeRequests
    DestroyedUntouched
PROPERTIES
    StopEndsProcess
    ConnectionsClosed
CHECK_DEADLOCK FALSE
