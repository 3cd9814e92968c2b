SPECIFICATION Spec
CONSTANTS
    t1 = t1
    t2 = t2
    forged = forged
    Snapshots <- WindowSnapshots
    Forged <- ForgedIds
    MaxTurns = 3
    MaxToolCalls = 4
    MaxCitations = 4
INVARIANTS
    TypeOK
    CitationsResolve
    FallbackIsValid
    AssessmentIsGrounded
PROPERTIES
    LastTurnReadsNothing
    KeepsPromise
CHECK_DEADLOCK FALSE
