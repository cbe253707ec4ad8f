SPECIFICATION Spec
CONSTANTS
    w1 = w1
    w2 = w2
    c1 = c1
    c2 = c2
    Workers = {w1, w2}
    Clients = {c1}
    NumScenes = 1
    MaxAttempts = 1
    MaxJobs = 10
    MaxRetries = 0
    Faults = {}
INVARIANTS
    FinishedIsInReview
CHECK_DEADLOCK FALSE
