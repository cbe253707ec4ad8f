SPECIFICATION Spec
CONSTANTS
    j1 = j1
    j2 = j2
    w1 = w1
    w2 = w2
    h1 = h1
    h2 = h2
    c1 = c1
    c2 = c2
    NoJob = NoJob
    Free = Free
    Jobs = {j1, j2}
    Workers = {w1, w2}
    Hosts = {h1, h2}
    HostOf <- TwoProcesses
    Clients = {c1}
    MaxAttempts = 2
    MaxRetries = 1
    Disruptions <- SurvivedFaults
    MaxDisruptions = 1
INVARIANTS
    NoEarlyGiveUp
    RunsBounded
    FailedRowIsSettled
PROPERTIES
    ImplementsLifecycle
CHECK_DEADLOCK FALSE
