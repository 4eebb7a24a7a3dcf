SPECIFICATION Spec
CONSTANTS
    Searches = {s1}
    api = api
    api2 = api2
    scraper = scraper
    keyless = keyless
    k1 = k1
    k2 = k2
    k3 = k3
    k4 = k4
    Order <- MCOrder
    Tier <- MCTier
    Fallback = {keyless}
    Stock <- MCStock
    Group <- MCGroup
    Cooldown = 2
    Timeout = 1
    Target = 3
    MaxResults = 2
INVARIANTS
    CleanMeansComplete
    NoNeedlessEscalation
    CheapestShown
PROPERTIES
    SearchEnds
