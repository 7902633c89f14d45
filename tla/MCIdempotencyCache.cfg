\* Two tasks on a cache of two entries, so that the snapshot races, the Full path
\* and expiry all happen; one key more than the overshoot can hold.
CONSTANTS
    Tasks = {t1, t2}
    Keys = {k1, k2, k3, k4}
    Results = {r1, r2}
    MaxEntries = 2
    TTL = 2
    MaxHold = 1
    NoKey = NoKey
    Absent = Absent
    NoResult = NoResult
SPECIFICATION Spec
SYMMETRY Symmetry
INVARIANTS
    TypeOK
    BoundedSize
    OwnerIsProtected
    SoleOwner
PROPERTIES
    SpacedGrants
    DoneIsStable
