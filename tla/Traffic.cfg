SPECIFICATION Spec
CONSTANTS
    c1 = c1
    c2 = c2
    Clients <- TwoClients
    Cap = 2
    MaxLoops = 3
    MaxSent = 4
INVARIANTS
    NeverMoreThanCap
    RunningIsTrue
    RequestsAddUp
PROPERTIES
    StartTakesEffect
    EveryCallAnswers
    TrafficEnds
CHECK_DEADLOCK FALSE
