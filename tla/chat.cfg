SPECIFICATION FairSpec
CONSTANTS
    Tabs = {w1, w2}
    Turns = {t1, t2}
    None = None
    MaxClears = 1
    MayCut = TRUE
    w1 = w1
    w2 = w2
    t1 = t1
    t2 = t2
INVARIANTS
    TypeOK
    HistoryIsFaithful
    FollowUpsSeeAnswers
PROPERTIES
    ButtonReturns
