SPECIFICATION FairSpec
CONSTANTS
    j1 = j1
    j2 = j2
    w1 = w1
    w2 = w2
    h1 = h1
    h2 = h2
    c1 = c1
    c2 = c2
    NoJob = NoJob
    Free = Free
    Jobs = {j1}
    Workers = {w1, w2}
    Hosts = {h1, h2}
    HostOf <- TwoProcesses
    Clients = {c1, c2}
    MaxAttempts = 2
    MaxRetries = 2
    Disruptions = {}
    MaxDisruptions = 0
PROPERTIES
    RunsEnd
    LocksAreReleased
CHECK_DEADLOCK FALSE
