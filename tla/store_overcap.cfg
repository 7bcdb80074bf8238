SPECIFICATION Spec
CONSTANTS
    Models = {m1}
    Jobs = {j1}
    Deletes = {d1}
    m1 = m1
    m2 = m2
    j1 = j1
    j2 = j2
    d1 = d1
    p1 = p1
    p2 = p2
    Parts <- MCParts
    Safetensors = {m1}
    AllowPickle = FALSE
    Declared <- MCDeclared
    Cap = 1
    DiskMayFail = FALSE
    MaxRestarts = 0
INVARIANTS
    OverCapIsRefused
