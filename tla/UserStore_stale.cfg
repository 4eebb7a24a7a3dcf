SPECIFICATION Spec

CONSTANTS
    Requests = {r1, r2, r3}
    Conns = {c1, c2}
    Users = {alice}
    Tenants = {public}
    Offers = {o1}
    Storable = {o1}
    Public = public
    Hash <- MCOwnLock
    Nobody = Nobody
    WatchLimit = 1
    SavedLimit = 1
    MaxVersion = 2
PROPERTIES
    RewatchRefreshes
