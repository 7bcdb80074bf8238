SPECIFICATION MCSpec
CONSTANTS
    Names = {Falcon, Sentinel, SentinelKey, Jira, VirusTotal, AbuseIPDB}
    Falcon = Falcon
    Sentinel = Sentinel
    SentinelKey = SentinelKey
    Jira = Jira
    VirusTotal = VirusTotal
    AbuseIPDB = AbuseIPDB
    Values = {v}
    Empty = Empty
    Absent = Absent
    Nothing = Nothing
    Readers = {starter, c1, c2}
    Environments <- MCEnvironments
    KeyVault = TRUE
    Calls = {c1, c2}
    Starter = starter
    Hours = {0, 1, 168, 169}
    v = v
    c1 = c1
    c2 = c2
SYMMETRY MCSymmetry
INVARIANTS
    TypeOK
    ReportsAreGrounded
    IntegrationsDoNotFlap
