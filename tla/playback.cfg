SPECIFICATION FairSpec
CONSTANTS
    Word = 5
    Duration = 4
    Features <- SomeFeatures
    Contents <- WithFrames
    MaxResponses = 3
    kRendererClearThresholdLabel = 2
    kRendererClearThresholdTracking = 1
INVARIANTS
    TypeOK
    NeverEarly
    ShownInOrder
    ClearedInTime
    DrawnIsLogged
PROPERTIES
    DueIsUsed
CHECK_DEADLOCK FALSE
