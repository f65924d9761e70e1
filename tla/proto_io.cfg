SPECIFICATION Spec
CONSTANTS
    Base = 3
    Messages <- AllLengths
    MaxRecords = 3
    kMaxDataRead = 12
    CharIsSigned = FALSE
INVARIANTS
    TypeOK
    ReadsWhatWasWritten
CHECK_DEADLOCK FALSE
