SPECIFICATION FairSpec
CONSTANTS
    MaxSteps = 6
    Histories <- MCHistories
INVARIANTS
    TypeOK
    ConversationInStep
    BoundedByDeadline
PROPERTIES
    EndsTold
    FollowsProtocol
