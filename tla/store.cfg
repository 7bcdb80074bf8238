SPECIFICATION FairSpec
CONSTANTS
    Models = {m1, m2}
    Jobs = {j1, j2}
    Deletes = {d1}
    m1 = m1
    m2 = m2
    j1 = j1
    j2 = j2
    d1 = d1
    p1 = p1
    p2 = p2
    Parts <- MCParts
    Safetensors = {m1}
    AllowPickle = FALSE
    Declared <- MCDeclared
    Cap = 1
    DiskMayFail = TRUE
    MaxRestarts = 1
INVARIANTS
    TypeOK
    ReadyIsComplete
    DownloadingHasJob
    LoneJobToldTheTruth
PROPERTIES
    JobReports
    ImplementsRegistry
