SPECIFICATION FairSpec
CONSTANTS
    Models = {mA, mB}
    Requests = {r1}
    Deletes = {d1}
    None = None
    GenMayRaise = TRUE
    mA = mA
    mB = mB
    r1 = r1
    r2 = r2
    d1 = d1
PROPERTIES
    CrashedChatEnds
