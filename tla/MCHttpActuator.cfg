\* One request to its end, where the system stops.
CONSTANTS
    listed = listed
    odd = odd
    oddNormal = oddNormal
    plain = plain
    Urls = {listed, odd, oddNormal}
    Normal <- MCNormal
    Allowed = {listed, odd}
    Plaintext = {plain}
    Addresses <- MCAddresses
    MaxRedirects = 3
    MaxResponse = 2
    Bodies <- MCBodies
    Timeout = 3
    NoUrl = NoUrl
    NoAddress = NoAddress
    NoBody = NoBody
    NoAnswer = NoAnswer
SPECIFICATION FairSpec
INVARIANTS
    TypeOK
    AnswerIsVetted
PROPERTIES
    RequestEnds
CHECK_DEADLOCK FALSE
