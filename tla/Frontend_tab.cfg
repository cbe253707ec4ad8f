SPECIFICATION FairSpec
CONSTANTS
    p1 = p1
    p2 = p2
    Projects = {p1, p2}
    Pipeline <- ShortPipeline
    MaxRequests = 2
    MaxErrors = 1
    MaxFailures = 1
INVARIANTS
    TypeOK
    NoProjectForgotten
PROPERTIES
    PageFollowsWork
    ListFollowsWork
CHECK_DEADLOCK FALSE
