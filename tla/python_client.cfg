SPECIFICATION FairSpec
CONSTANTS
    StreamLength = 5
    chunk_size = 2
    WindowOut = 1
    WindowIn = 1
    MaxAnswers = 2
    Responses = {"result", "frameless", "bare", "error"}
INVARIANTS
    TypeOK
    PrintedInOrder
PROPERTIES
    Implements
    Terminates
CHECK_DEADLOCK FALSE
