SPECIFICATION Spec
CONSTANTS
    p1 = p1
    p2 = p2
    Pages <- TwoPages
    MaxJobs = 1
    MaxPosts = 2
    OuterLimit = 2
    InnerLimit = 1
PROPERTIES
    LostJobAllowsNewInvestigation
CHECK_DEADLOCK FALSE
