SPECIFICATION FairSpec
CONSTANTS
    j1 = j1
    j2 = j2
    j3 = j3
    NoJob = NoJob
    Jobs = {j1, j2, j3}
    MaxAttempts = 2
    Started = TRUE
    Failing = {"jobs", "projects"}
INVARIANTS
    OneAfterTheOther
    SettledRowIsTrue
PROPERTIES
    ImplementsLifecycle
    EveryJobSettles
    StopReturns
CHECK_DEADLOCK FALSE
