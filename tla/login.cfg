SPECIFICATION MCSpec
CONSTANTS
    Names = {group}
    Values = {g1, g2}
    Empty = Empty
    Absent = Absent
    Nothing = Nothing
    Readers = {t1, t2, reader}
    Environments <- MCEnvironments
    KeyVault = TRUE
    Tabs = {t1, t2}
    Accounts = {member, outsider}
    GroupsOf <- MCGroupsOf
    Group = group
    None = None
    Old = Old
    Refused = Refused
    t1 = t1
    t2 = t2
    reader = reader
    g1 = g1
    g2 = g2
    member = member
    outsider = outsider
    group = group
INVARIANTS
    LoginTypeOK
    CacheIsCurrent
    OutsidersNeedAnOpenGate
PROPERTIES
    UserChangesHaveACause
    SignInEnds
