SPECIFICATION FairSpec
CONSTANTS
    Calls = {c1, c2}
    None = None
    Attempts = 3
    MaxTokens = 3
    MaxRevoked = 1
    c1 = c1
    c2 = c2
INVARIANTS
    TypeOK
    EndpointIsSpared
    RefusedTokenIsNotReused
PROPERTIES
    CallsReturn
