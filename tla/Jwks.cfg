SPECIFICATION IdSpec
CONSTANTS
    Threads = {t1, t2}
    Kids = {k1, k2}
    Nobody = Nobody
    TTL = 3
    MinRefresh = 2
    Retry = 2
    Timeout = 1
    Tokens <- MCTokens
    NoToken = NoToken
    Absent = "absent"
    Public = "public"
INVARIANTS
    AdmittedIsVerified
PROPERTIES
    RefreshesSpaced
    OthersAnswer
