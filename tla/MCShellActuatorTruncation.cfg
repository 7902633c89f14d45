\* The answer of a program that writes again after the read.
CONSTANTS
    MaxOutput = 2
    PipeSize = 2
    MaxWritten = 5
    Timeout = 3
    Grace = 2
    Unread = Unread
SPECIFICATION Spec
INVARIANTS
    TruncationIsFlagged
CHECK_DEADLOCK FALSE
