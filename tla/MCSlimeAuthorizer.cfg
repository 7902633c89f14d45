\* Two callers of two agents' counters.
CONSTANTS
    Callers = {c1, c2}
    Wide = Wide
    Narrow = Narrow
    Write = Write
    Exec = Exec
    Agents = {Wide, Narrow}
    Domains = {Write, Exec}
    Magnitudes = {1, 2}
    U64Max = 3
    MaxCapacity <- MCMaxCapacity
    Limit <- MCLimit
    NoCall = NoCall
SPECIFICATION FairSpec
INVARIANTS
    TypeOK
    ExactBudget
    DenialIsFinal
    LossesAreBounded
PROPERTIES
    ReserveReturns
    ImplementsCapacityBudget
