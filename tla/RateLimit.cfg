\* Behind the Worker: the secret is set, the visitor's address comes from the header.
SPECIFICATION HSpec
CONSTANTS
    ask = ask
    watchlist = watchlist
    readyz = readyz
    v6a = v6a
    v6b = v6b
    v4 = v4
    w4 = w4
    subnet = subnet
    host = host
    other = other
    Paths = {ask}
    OpenPaths = {watchlist, readyz}
    Exempt = {readyz}
    Addrs = {v6a, v6b, v4, w4}
    Headers = {v6a, v6b, v4}
    Sockets = {w4}
    NoHeader = NoHeader
    Keys = {subnet, host, other}
    Net <- MCNet
    Limit <- MCLimit2
    Window <- MCWindow2
    MaxKeys = 1
    ShrinkEvery = 1
    EdgeSecret = TRUE
    Enabled = TRUE
    MaxTime = 3
INVARIANTS
    Ceiling
    HonestWait
    RefusalIsKept
    FloodBound
PROPERTIES
    LimitedIsKept
