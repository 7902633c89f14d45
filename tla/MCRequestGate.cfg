\* One message in two hands, equal tolerance and TTL as in the code, a second
\* of two ticks (the third run of a message needs both), and one restart.
CONSTANTS
    Slots = {s1, s2}
    Requests = {r}
    Nothing = Nothing
    Sub = 2
    Tolerance = 1
    TTL = 1
    Ahead = 2
    MaxRun = 1
    MaxRecords = 2
    MaxRestarts = 1
    WindowSecs = 3
    MaxPerWindow = 2
SPECIFICATION GateFairSpec
INVARIANTS
    GateTypeOK
    RestartBound
    RejectIsEarned
    
    AnswerKeepsItsProof
PROPERTIES
    NoStarvation
