SPECIFICATION Spec
CONSTANTS
    Base = 4
    Messages <- Upper
    MaxRecords = 2
    kMaxDataRead = 12
    CharIsSigned = TRUE
INVARIANT ReadsWhatWasWritten
CHECK_DEADLOCK FALSE
