SPECIFICATION FairSpec
CONSTANTS
    StreamLength = 5
    MaxRead = 2
    PipeCapacity = 3
    PipeSize = 2
    MayFail = TRUE
    StatusAtStart = {TRUE}
INVARIANTS
    TypeOK
    Conserved
    NoDataRace
    ThreadEndsFirst
PROPERTIES
    Implements
    EndIsNoticed
CHECK_DEADLOCK FALSE
