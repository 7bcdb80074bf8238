SPECIFICATION Spec
CONSTANTS
    Models = {mA, mB}
    Requests = {r1, r2}
    Deletes = {d1}
    None = None
    GenMayRaise = FALSE
    mA = mA
    mB = mB
    r1 = r1
    r2 = r2
    d1 = d1
INVARIANTS
    OnlyRequestedWeights
