\* Two slots on one permit, one key: requests queue for it in turn.
CONSTANTS
    Slots = {s1, s2}
    K1 = K1
    K2 = K2
    Agent = Agent
    Keys = {K1}
    Agents = {Agent}
    Requests <- LiveRequests
    MaxCapacity <- MCMaxCapacity
    Limit <- MCLimit
    DomainOf <- MCDomainOf
    MaxPayload <- MCMaxPayload
    Intents <- MCIntents
    Allowlist <- MCAllowlist
    Resolution <- MCResolution
    Words = {"copy", "f"}
    WithColon = {"https:"}
    WithNul = {}
    WithAt = {}
    WithHash = {}
    None = None
    Garbled = Garbled
    MaxEntries = 1
    TTL = 2
    Permits = 1
    Deadline = 1
    ActionLimit = 1
    MaxBlock = 1
    NoKey = NoKey
    Absent = Absent
    NoResult = NoResult
    NoRequest = NoRequest
SPECIFICATION FairSpec
INVARIANTS
    StartedAsSent
PROPERTIES
    EveryRequestEnds
