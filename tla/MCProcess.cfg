SPECIFICATION Spec
CONSTANTS
    w1 = w1
    w2 = w2
    p1 = p1
    good = good
    bad = bad
    Worker = {w1, w2}
    Peer = {p1}
    Tx = {good, bad}
    Valid = {good}
    Malformed = {"malformed"}
    EarlySignal = FALSE
    MaxRequests = 3
    None = None
INVARIANTS
    TypeOK
    NodeOutlivesCallers
    ErrorIsOwnOrLater
PROPERTIES
    ShutdownCompletes
    RequestsAnswered
CHECK_DEADLOCK FALSE
