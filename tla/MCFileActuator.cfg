\* Three actions at a time on two targets, with crashes.
CONSTANTS
    Actions = {a1, a2, a3}
    Plain = Plain
    Odd = Odd
    Targets = {Plain, Odd}
    TempNamed = {Odd}
    Short = Short
    Full = Full
    Long = Long
    Contents = {Short, Full, Long}
    Length <- MCLength
    SplitsAt <- MCSplitsAt
    MaxBytes = 2
    Absent = Absent
    Partial = Partial
    NoWrite = NoWrite
SPECIFICATION Spec
SYMMETRY Symmetry
INVARIANTS
    TypeOK
    NoOrphans
    UndisturbedReadIsFaithful
PROPERTIES
    ImplementsAtomicFiles
