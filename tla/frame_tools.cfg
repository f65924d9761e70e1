SPECIFICATION FairSpec
CONSTANTS
    Videos = {"a", "b", "c"}
    Timestamps <- ShortVideos
    Annotated <- Annotations
    Leftovers <- FailedRuns
    Tmp = "tmp_all_frames"
    Workers = {w1, w2}
    None = None
INVARIANTS
    TypeOK
    NamedByTime
    DrawnOverNearest
    NothingLeftBehind
PROPERTIES
    Terminates
CHECK_DEADLOCK FALSE
