SPECIFICATION Spec
CONSTANTS
    StreamLength = 3
    MaxRead = 2
    PipeCapacity = 3
    PipeSize = 2
    MayFail = FALSE
    StatusAtStart = {FALSE, TRUE}
INVARIANT EofComplete
CHECK_DEADLOCK FALSE
