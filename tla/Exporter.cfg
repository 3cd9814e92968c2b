SPECIFICATION Spec
CONSTANTS
    q1 = q1
    c1 = c1
    ServerRequests <- ServedRequest
    ClientCalls <- OneCall
    Capacity = 3
    BatchMax = 2
INVARIANTS
    OnlyCloseLosesSilently
    SentAtMostOnce
PROPERTIES
    KeepsDelivery
CHECK_DEADLOCK FALSE
