SPECIFICATION Spec
CONSTANTS
    r1 = r1
    r2 = r2
    r3 = r3
    Renders = {r1, r2}
    NumScenes = 2
    Faults = {"files", "storage", "ffmpeg", "database", "crash"}
INVARIANTS
    LoneDraftIsOwn
    LoneRenderMissesNothing
    RowHasVideo
    NothingLeftBehind
CHECK_DEADLOCK FALSE
