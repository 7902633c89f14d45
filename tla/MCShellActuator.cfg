\* One action, to its end: the system stops when it and its group have.
CONSTANTS
    MaxOutput = 2
    PipeSize = 2
    MaxWritten = 5
    Timeout = 3
    Grace = 2
    Unread = Unread
SPECIFICATION FairSpec
INVARIANTS
    Contained
    UnflaggedLoss
PROPERTIES
    ActionEnds
CHECK_DEADLOCK FALSE
