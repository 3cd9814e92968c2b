SPECIFICATION Spec
CONSTANTS
    c1 = c1
    c2 = c2
    Clients <- TwoClients
    Readings <- ThreeReadings
    MaxPosts = 3
    MaxRestarts = 1
INVARIANTS
    UnacknowledgedIsUnknown
CHECK_DEADLOCK FALSE
