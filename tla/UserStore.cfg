SPECIFICATION Spec
SYMMETRY RequestSymmetry
CONSTANTS
    Requests = {r1, r2}
    Conns = {c1, c2}
    Users = {alice, bob}
    Tenants = {public, acme}
    Offers = {o1, old}
    Storable = {o1}
    Public = public
    Hash <- MCOneLock
    Nobody = Nobody
    WatchLimit = 1
    SavedLimit = 1
    MaxVersion = 1
INVARIANTS
    Caps
    ListsOwnRows
PROPERTIES
    Isolation
    RequestsAreAtomic
