SPECIFICATION FairSpec
CONSTANTS
    w1 = w1
    w2 = w2
    c1 = c1
    c2 = c2
    Workers = {w1, w2}
    Clients = {c1}
    NumScenes = 2
    MaxAttempts = 1
    MaxJobs = 12
    MaxRetries = 1
    Faults = {"generate"}
INVARIANTS
    TypeOK
    StagePrerequisites
    StageJobsBounded
    OnlyRenderedIsDecided
    ReadyAssetsProceed
PROPERTIES
    PipelineFinishes
CHECK_DEADLOCK FALSE
