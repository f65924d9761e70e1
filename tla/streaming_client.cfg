SPECIFICATION FairSpec
CONSTANTS
    StreamLength = 4
    kDataChunk = 3
    kMaxStreamBufferSize = 2
    WindowOut = 1
    WindowIn = 1
    MaxAnswers = 1
    Responses = {"result", "error"}
    FlagSets <- SomeFlagSets
INVARIANTS
    TypeOK
    TrueMeansSent
    LocalCopyIsFaithful
    AnnotationsAreComplete
    PlayerOutlived
    PlayerFindsVideo
    FedInOrder
    NeverStuck
PROPERTIES
    Implements
    Terminates
CHECK_DEADLOCK FALSE
