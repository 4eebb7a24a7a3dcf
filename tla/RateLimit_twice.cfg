\* A flood of other clients makes the limiter forget one that is below its limit.
SPECIFICATION HSpec
CONSTANTS
    ask = ask
    watchlist = watchlist
    readyz = readyz
    v6a = v6a
    v6b = v6b
    v4 = v4
    w4 = w4
    subnet = subnet
    host = host
    other = other
    Paths = {ask}
    OpenPaths = {watchlist, readyz}
    Exempt = {readyz}
    Addrs = {v6a, v6b, v4, w4}
    Headers = {v6a, v6b, v4}
    Sockets = {w4}
    NoHeader = NoHeader
    Keys = {subnet, host, other}
    Net <- MCNet
    Limit <- MCLimit2
    Window <- MCWindow3
    MaxKeys = 1
    ShrinkEvery = 1
    EdgeSecret = TRUE
    Enabled = TRUE
    MaxTime = 2
INVARIANTS
    AtMostTwiceTheLimit
