SPECIFICATION Spec
CONSTANTS
    NumScenes = 2
    MaxWordsPerChunk = 2
    Speeches <- Narrations
    Estimates = {0, 20}
INVARIANTS
    CuesInOrder
    ScenesDoNotOverlap
    CuesWithTheirAudio
    EveryWordShown
    ChunksAreReadable
CHECK_DEADLOCK FALSE
