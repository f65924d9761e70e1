SPECIFICATION Spec
CONSTANTS
    Word = 5
    Duration = 4
    Features <- SomeFeatures
    Contents <- WithoutFrames
    MaxResponses = 2
    kRendererClearThresholdLabel = 2
    kRendererClearThresholdTracking = 1
INVARIANT DrawsTrackletsOnly
CHECK_DEADLOCK FALSE
