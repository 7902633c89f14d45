\* Two tasks and two keys on a cache of one entry: a Full answer, and the
\* removal that follows it.
CONSTANTS
    Tasks = {t1, t2}
    Keys = {k1, k2}
    Results = {r1, r2}
    MaxEntries = 1
    TTL = 2
    MaxHold = 1
    NoKey = NoKey
    Absent = Absent
    NoResult = NoResult
SPECIFICATION Spec
PROPERTIES
    NoDuplicateGrant
