SPECIFICATION Spec
CONSTANTS
    Searches = {s1, s2}
    api = api
    api2 = api2
    scraper = scraper
    keyless = keyless
    k1 = k1
    k2 = k2
    k3 = k3
    k4 = k4
    Order <- TwoOrder
    Tier <- TwoTier
    Fallback = {}
    Stock <- MCStock
    Group <- MCGroup
    Cooldown = 2
    Timeout = 1
    Target = 3
    MaxResults = 1
PROPERTIES
    BenchIsACooldown
