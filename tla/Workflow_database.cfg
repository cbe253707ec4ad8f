SPECIFICATION Spec
CONSTANTS
    w1 = w1
    w2 = w2
    c1 = c1
    c2 = c2
    Workers = {w1}
    Clients = {c1}
    NumScenes = 1
    MaxAttempts = 2
    MaxJobs = 7
    MaxRetries = 0
    Faults = {"database", "noScenes"}
INVARIANTS
    OneArtifact
    FailedHasReason
    StopsForAReason
CHECK_DEADLOCK FALSE
