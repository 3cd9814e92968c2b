SPECIFICATION Spec
CONSTANTS
    p1 = p1
    p2 = p2
    Pages <- TwoPages
    MaxJobs = 1
    MaxPosts = 2
    OuterLimit = 3
    InnerLimit = 3
INVARIANTS
    TimeBudgetIsAssessed
CHECK_DEADLOCK FALSE
