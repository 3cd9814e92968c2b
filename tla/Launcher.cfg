SPECIFICATION Spec
CONSTANTS
    Count = 6
    MaxSignals = 3
INVARIANTS
    ExitTellsWhatIsLeft
PROPERTIES
    DependentsStopFirst
    LauncherEnds
CHECK_DEADLOCK FALSE
