\* Two tasks and two keys below a cache of three entries; no symmetry, for
\* the liveness properties.
CONSTANTS
    Tasks = {t1, t2}
    Keys = {k1, k2}
    Results = {r1, r2}
    MaxEntries = 3
    TTL = 3
    MaxHold = 2
    NoKey = NoKey
    Absent = Absent
    NoResult = NoResult
SPECIFICATION FairSpec
PROPERTIES
    KeyUnblocks
    ImplementsSingleFlight
