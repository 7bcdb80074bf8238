SPECIFICATION FairFeedSpec
CONSTANTS
    Browsers = {b1, b2}
    Last = 4
    QueueMax = 2
    MayDisconnect = TRUE
    b1 = b1
    b2 = b2
INVARIANTS
    FeedTypeOK
    NothingLost
PROPERTIES
    FollowerIsTold
    ClosedIsUnsubscribed
