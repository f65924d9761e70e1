SPECIFICATION Spec
CONSTANTS
    Videos = {"a"}
    Timestamps <- LongVideo
    Annotated <- NoAnnotations
    Leftovers <- NoLeftovers
    Tmp = "tmp_all_frames"
    Workers = {w1}
    None = None
INVARIANT NamedByTime
CHECK_DEADLOCK FALSE
