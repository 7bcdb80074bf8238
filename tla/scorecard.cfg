SPECIFICATION FairSpec
CONSTANTS
    Models = {m1, m2}
    Suite <- MCSuite
    Outcomes <- MCOutcomes
    Pages = {p1, p2}
    None = None
    MaxRuns = 1
    MaxRestarts = 1
    DiskFails = TRUE
INVARIANTS
    TypeOK
    SameQuestions
    DoneIsStored
PROPERTIES
    RunIsTold
