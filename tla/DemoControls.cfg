SPECIFICATION Spec
CONSTANTS
    c1 = c1
    c2 = c2
    Clients <- TwoClients
    Readings <- ThreeReadings
    MaxPosts = 3
    MaxRestarts = 1
INVARIANTS
    TypeOK
    AcknowledgedStateHolds
    MeasuredWithoutFault
    VerdictFromOwnWindow
PROPERTIES
    VerdictSettles
    EveryCallAnswers
    RecoveryConcludes
CHECK_DEADLOCK FALSE
