SPECIFICATION Spec
CONSTANTS
    r1 = r1
    t1 = t1
    s1 = s1
    NoHeader = NoHeader
    NoSpan = NoSpan
    Requests <- OneRequest
    CallerContexts <- OneCaller
    ConnectTimeout = 2
    Timeout = 3
    Delay = 9
    Slack = 5
    Settle = 15
    MaxStops = 2
INVARIANTS
    RecordedOnce
    RecordsAgree
    TraceLinked
    RecoveryWindowIsClean
PROPERTIES
    EveryOrderEnds
CHECK_DEADLOCK FALSE
